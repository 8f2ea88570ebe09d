------------------------------ MODULE Payloads ------------------------------
(***************************************************************************)
(* Sessions (session.rs) and the verification of payloads (payload.rs,     *)
(* protocols/verify.rs).  Messages travel a path of nodes: the first signs *)
(* them with its session, every relay signs them again and keeps the       *)
(* origin's verification, and every receiver verifies both, by its clock.  *)
(* SessionManager is shared by the threads of a node: making a payload     *)
(* locks it three times, and a renewal may come between.  Signatures are   *)
(* symbolic: a signature is the key and what it was made over.             *)
(***************************************************************************)
EXTENDS Naturals, Sequences

CONSTANTS Path,                            \* the nodes messages travel, in order
          Signer,                          \* how a node's user signs its session
          DefaultTtl, MaxTtl, SessionTtl, OffsetTolerance,
          Skews,                           \* how far a node's clock is ahead
          MaxNow, MaxSent, MaxRenewed      \* bounds of a behaviour

ASSUME PayloadAssumption ==
    /\ Path \in Seq(STRING) /\ Len(Path) > 1
    /\ \A i, j \in DOMAIN Path : Path[i] = Path[j] => i = j
    /\ {DefaultTtl, MaxTtl, SessionTtl, OffsetTolerance, MaxNow, MaxSent, MaxRenewed} \subseteq Nat
    /\ DefaultTtl <= MaxTtl
    /\ Skews \subseteq Nat /\ \E s \in Skews : \A t \in Skews : t <= s
    /\ Signer \subseteq {"DEFAULT", "EIP191", "EdDSA", "EdDSA pubkey"}

VARIABLES now, skew,   \* the time, and each node's clock
          manager,     \* SessionManager of each node: session and session key
          renewing,    \* nodes whose session is locked for writing
          making,      \* MessagePayload::new under way at each node
          flight,      \* payloads between nodes
          sent,        \* how many messages the first node made
          accepted     \* what passed the last node's verification, and when

payloadVars == <<now, skew, manager, renewing, making, flight, sent, accepted>>

PathNode == {Path[i] : i \in DOMAIN Path}
Hop(n) == CHOOSE i \in DOMAIN Path : Path[i] = n
Clock(n) == now + skew[n]
Nothing == [step |-> "none"]

-----------------------------------------------------------------------------
(* Sessions *)

\* What a wallet signs with a method: its own key, the method, the text.
WalletSigns(n, method, text) == [key |-> n, method |-> method, text |-> text]

\* UnsignedInfo: from a did and a signer, or from an ed25519 public key.
UnsignedInfo(n, signer, key, ts) ==
    [signer |-> IF signer = "EdDSA pubkey" THEN "EdDSA" ELSE signer,
     authorizer |-> n, pubkey |-> signer = "EdDSA pubkey",
     ttl |-> SessionTtl, ts |-> ts, session_id |-> key]

NewSession(n, signer, key, ts) ==
    LET info == UnsignedInfo(n, signer, key, ts)
    IN  [auth |-> info, sig |-> WalletSigns(n, info.signer, info)]

SessionExpired(s, time) == time > s.auth.ts + s.auth.ttl

\* ed25519 signatures do not reveal the key: it must be in the session.
AuthorizerKnown(s) == s.auth.signer = "EdDSA" => s.auth.pubkey

SessionVerifies(s, time) ==
    /\ ~SessionExpired(s, time)
    /\ AuthorizerKnown(s)
    /\ s.sig = WalletSigns(s.auth.authorizer, s.auth.signer, s.auth)

(* Verifications and payloads *)

PackMsg(data, ts, ttl) == <<data, ts, ttl>>
SignRaw(key, msg) == [key |-> key, msg |-> msg]

\* Mutant: a relay's session is checked, the origin's signature only.
VerifiesSignature(v, data, time) ==
    v.sig = SignRaw(v.session.auth.session_id, PackMsg(data, v.ts, v.ttl))

Verifies(v, data, time) ==
    /\ SessionVerifies(v.session, time)
    /\ v.sig = SignRaw(v.session.auth.session_id, PackMsg(data, v.ts, v.ttl))

Outlived(v, time) == time > v.ts + v.ttl

Plausible(v, time) == v.ttl <= MaxTtl /\ v.ts - OffsetTolerance <= time

\* Mutant: a payload expires with its origin.
OriginExpired(p, time) == Outlived(p.origin_verification, time)

\* Mutant: the expiry is forgotten.
NeverExpired(p, time) == FALSE

IsExpired(p, time) ==
    /\ Plausible(p.verification, time) /\ Plausible(p.origin_verification, time)
    /\ Outlived(p.verification, time) /\ Outlived(p.origin_verification, time)

PayloadVerifies(p, time) ==
    /\ ~IsExpired(p, time)
    /\ Verifies(p.verification, p.data, time)
    /\ Verifies(p.origin_verification, p.data, time)

-----------------------------------------------------------------------------
PayloadInit ==
    /\ now = OffsetTolerance /\ skew \in [PathNode -> Skews]
    /\ \E signer \in [PathNode -> Signer] :
          manager = [n \in PathNode |-> [session |-> NewSession(n, signer[n], <<n, 0>>, Clock(n)),
                                     signer |-> signer[n], key |-> <<n, 0>>]]
    /\ renewing = {}
    /\ making = [n \in PathNode |-> Nothing]
    /\ flight = {} /\ sent = 0 /\ accepted = {}

\* new: the clock is read, the text to sign is packed.
Stamps(n, data, stick) ==
    /\ making[n] = Nothing
    /\ making' = [making EXCEPT ![n] =
                     [step |-> "session", data |-> data, ts |-> Clock(n), stick |-> stick, made |-> now]]

\* A user of the first node sends a message.
NewPayload ==
    /\ sent < MaxSent
    /\ sent' = sent + 1
    /\ Stamps(Path[1], sent', Nothing)
    /\ UNCHANGED <<now, skew, manager, renewing, flight, accepted>>

\* authorizer() and session(), then sign(): each locks the manager to read it.
TakesSession(n) ==
    /\ making[n].step = "session" /\ n \notin renewing
    /\ making' = [making EXCEPT ![n] =
                     [step |-> "sign", data |-> @.data, ts |-> @.ts, stick |-> @.stick, made |-> @.made,
                      session |-> manager[n].session]]
    /\ UNCHANGED <<now, skew, manager, renewing, flight, sent, accepted>>

Verification(n) ==
    [session |-> making[n].session, ttl |-> DefaultTtl, ts |-> making[n].ts,
     sig |-> SignRaw(manager[n].key, PackMsg(making[n].data, making[n].ts, DefaultTtl))]

\* Mutant: every relay is taken for the origin.
OriginAlways(n) == Verification(n)

OriginVerification(n) == IF making[n].stick = Nothing THEN Verification(n) ELSE making[n].stick

Signs(n) ==
    /\ making[n].step = "sign" /\ n \notin renewing
    /\ flight' = flight \cup
          {[to |-> Path[Hop(n) + 1], data |-> making[n].data, made |-> making[n].made,
            verification |-> Verification(n), origin_verification |-> OriginVerification(n)]}
    /\ making' = [making EXCEPT ![n] = Nothing]
    /\ UNCHANGED <<now, skew, manager, renewing, sent, accepted>>

\* try_read fails while a renewal writes: the payload is given up.
TryLockFails(n) ==
    /\ making[n] # Nothing /\ n \in renewing
    /\ making' = [making EXCEPT ![n] = Nothing]
    /\ UNCHANGED <<now, skew, manager, renewing, flight, sent, accepted>>

\* renew: a new session key, and the user's signature of the new info.  The last
\* node of the path uses no session.
Renews(n) ==
    /\ n # Path[Len(Path)] /\ manager[n].key[2] < MaxRenewed
    /\ renewing' = renewing \cup {n}
    /\ LET key == <<n, manager[n].key[2] + 1>>
       IN  manager' = [manager EXCEPT ![n].session = NewSession(n, manager[n].signer, key, Clock(n)),
                                      ![n].key = key]
    /\ UNCHANGED <<now, skew, making, flight, sent, accepted>>

RenewEnds(n) ==
    /\ n \in renewing /\ renewing' = renewing \ {n}
    /\ UNCHANGED <<now, skew, manager, making, flight, sent, accepted>>

\* handle_payload at the end of the path.
Accepts(p) ==
    /\ p.to = Path[Len(Path)] /\ PayloadVerifies(p, Clock(p.to))
    /\ accepted' = accepted \cup {[payload |-> p, at |-> now]}
    /\ UNCHANGED making

\* handle_payload and forward_payload on the way.
Forwards(p) ==
    /\ p.to # Path[Len(Path)] /\ PayloadVerifies(p, Clock(p.to))
    /\ Stamps(p.to, p.data, p.origin_verification)
    /\ UNCHANGED accepted

Drops(p) ==
    /\ ~PayloadVerifies(p, Clock(p.to))
    /\ UNCHANGED <<making, accepted>>

Receives(p) ==
    /\ flight' = flight \ {p}
    /\ Accepts(p) \/ Forwards(p) \/ Drops(p)
    /\ UNCHANGED <<now, skew, manager, renewing, sent>>

Tick ==
    /\ now < MaxNow /\ now' = now + 1
    /\ UNCHANGED <<skew, manager, renewing, making, flight, sent, accepted>>

PayloadNext ==
    \/ NewPayload \/ Tick
    \/ \E n \in PathNode : TakesSession(n) \/ Signs(n) \/ TryLockFails(n) \/ Renews(n) \/ RenewEnds(n)
    \/ \E p \in flight : Receives(p)

PayloadSpec == PayloadInit /\ [][PayloadNext]_payloadVars

-----------------------------------------------------------------------------
\* A verification in one piece: no renewal came between its session and its
\* signature, and the user's wallet can be verified.
Whole(v) == v.sig.key = v.session.auth.session_id /\ AuthorizerKnown(v.session)

Alive(v, time) == time <= v.session.auth.ts + SessionTtl

\* What an honest node made in one piece verifies at the next, after any number
\* of relays and renewals, clocks apart or not, as long as the hop took no
\* longer than the ttl and no session ran out: however old the message is.
HonestVerifies == \A p \in flight :
    LET time == Clock(p.to)
        both == {p.verification, p.origin_verification}
    IN  (\A v \in both : Whole(v) /\ Alive(v, time)) /\ time <= p.verification.ts + DefaultTtl
            => PayloadVerifies(p, time)

\* The origin stays the origin: whoever relayed a message, the session and the
\* key that a receiver finds in it are the first node's.
OriginKept == \A a \in accepted :
    /\ a.payload.origin_verification.session.auth.authorizer = Path[1]
    /\ a.payload.verification.session.auth.authorizer = Path[Len(Path) - 1]
    /\ a.payload.data \in 1 .. sent

MaxSkew == CHOOSE s \in Skews : \A t \in Skews : t <= s

\* A payload that stayed on a hop for longer than the ttl and what clocks may
\* differ is not accepted any more.
StaleDropped == \A a \in accepted : a.at <= a.payload.made + DefaultTtl + MaxSkew

\* Relays make a message live on, but not past the session it was signed with.
SessionOutlivesMessage == \A a \in accepted :
    a.at <= a.payload.origin_verification.session.auth.ts + SessionTtl
=============================================================================
