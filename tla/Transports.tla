----------------------------- MODULE Transports -----------------------------
(***************************************************************************)
(* The transports of a node towards one peer: how swarm.rs,                *)
(* transports/manager.rs, the connection handlers and processor.rs create, *)
(* register, replace and drop them.  Both sides may start attempts at any  *)
(* time: by ConnectNodeSend through the overlay, over http, or by an offer *)
(* that a user carries to the other side.  The node is a daemon, with a    *)
(* JSON-RPC server (jsonrpc/server.rs), or a browser (browser/client.rs);  *)
(* the peer offers, answers, connects and fails as it likes.               *)
(*                                                                         *)
(* Any number of calls of the processor run at once, on the threads of a   *)
(* daemon or as promises of a page, next to what the listener is at.  A    *)
(* step of a call reads or writes one of the shared records; another       *)
(* thread of a daemon may take any step in between, and what runs in a     *)
(* browser is interrupted at an await only.                                *)
(***************************************************************************)
EXTENDS Naturals, Sequences

CONSTANTS Transport,   \* the transports that are ever created, by their uuid
          NoTransport, \* nothing is registered
          MaxByHand,   \* bound on the calls that close transports by hand
          MaxLocked    \* bound on the times a thread finds the list locked

ASSUME TransportsAssumption ==
    NoTransport \notin Transport /\ MaxByHand \in Nat /\ MaxLocked \in Nat

VARIABLES daemon,     \* the node is a daemon, and not a browser
          ice,        \* state of each connection
          pending,    \* Swarm.pending_transports
          registered, \* Swarm.transports, at the peer's did
          member,     \* PeerRing knows the peer (join, remove)
          events,     \* transport_event_channel
          calls,      \* what runs at the node, each call at some step
          due,        \* answers of the peer that may still come
          byHand, locked,
          late,       \* history: the registered transport was closed when set
          unplugged,  \* history: Processor::disconnect took the registered one
          overdue,    \* history: should have left the pending list by now
          lost        \* history: open, and on neither list any more

connections == <<ice, events, lost>>
records == <<pending, registered, member>>
bounds == <<daemon, byHand, locked>>
history == <<late, unplugged, overdue>>
vars == <<bounds, connections, records, calls, due, history>>

Init ==
    /\ daemon \in BOOLEAN
    /\ ice = [t \in Transport |-> "none"]
    /\ pending = {}
    /\ registered = NoTransport
    /\ member = FALSE
    /\ events = <<>>
    /\ calls = {} /\ due = {}
    /\ byHand = 0 /\ locked = 0
    /\ late = FALSE /\ unplugged = FALSE /\ overdue = {} /\ lost = {}

RegisterTransport(t) == [kind |-> "RegisterTransport", id |-> t]
ConnectClosed(t) == [kind |-> "ConnectClosed", id |-> t]

Answer(kind, t) == [kind |-> kind, id |-> t]

\* The remote description is set: the state changes of the connection raise
\* events, which name the peer by its public key.
Described(t) == ice[t] \in {"checking", "connected"}

Describes(t) == ice' = [ice EXCEPT ![t] = "checking"] /\ UNCHANGED <<events, lost>>

\* get_and_check_transport: a registered transport that is not disconnected.
Usable == registered # NoTransport /\ ice[registered] # "closed"

\* The connection is closed, which raises an event.
Closes(t) ==
    /\ ice' = [ice EXCEPT ![t] = "closed"]
    /\ events' = IF Described(t) THEN Append(events, ConnectClosed(t)) ELSE events
    /\ lost' = lost \ {t}

\* History: t leaves the lists, and nobody closes it.
Loses(t) == lost' = IF ice[t] = "closed" THEN lost ELSE lost \cup {t}

-----------------------------------------------------------------------------
(* Calls: named for what they handle, at one step of their work *)

Call(kind, t, step) == [kind |-> kind, id |-> t, step |-> step, old |-> NoTransport]

Starts(c) == calls' = calls \cup {c}

\* c goes on to a step, or is done; register remembers what it read.
GoesOn(c, step) ==
    calls' = (calls \ {c}) \cup
        CASE step = "done" -> {}
          [] step \in {"compareNew", "set", "close"} -> {[c EXCEPT !.step = step]}
          [] OTHER -> {Call(c.kind, c.id, step)}

Ends(c) == calls' = calls \ {c}

\* ... having read what is registered.
GoesOnWith(c, step) ==
    calls' = (calls \ {c}) \cup {[c EXCEPT !.step = step, !.old = registered]}

ListenerCall == {"RegisterTransport", "ConnectClosed", "ConnectNodeSend"}

\* The listener of a daemon takes one event or message after the other; in a
\* browser a timer starts another listen_once every second, done or not.
ListenerFree == daemon => \A c \in calls : c.kind \notin ListenerCall

\* No await comes before the next step of c, and a browser has one thread.
MidWay(c) ==
    /\ ~daemon
    /\ \/ c.step \in {"set", "drop"}
       \/ c.kind = "ConnectClosed" /\ c.step \in {"pop", "remove"}

Interrupted == \A c \in calls : ~MidWay(c)

Fresh(t) == ice[t] = "none" /\ \A c \in calls : c.id # t

\* try_lock on the pending list: while another thread of a daemon has it, the
\* call is an error.
Locks == UNCHANGED bounds
LockFails == daemon /\ locked < MaxLocked /\ locked' = locked + 1 /\ UNCHANGED <<daemon, byHand>>

-----------------------------------------------------------------------------
(* register *)

\* What follows once the transport is registered.
AfterRegister(c) ==
    CASE c.kind = "AnswerOffer" -> "answer"
      [] c.kind \in {"HandAnswer", "RegisterTransport"} -> "pop"
      [] OTHER -> "done"

\* register is an error: answer_offer closes its transport, the others leave
\* theirs as it is.
Refused(c) ==
    /\ Ends(c)
    /\ IF c.kind = "AnswerOffer" THEN Closes(c.id) ELSE UNCHANGED connections

\* is_disconnected().await, and then self.transports.get.
Check(c) ==
    /\ c.step = "check"
    /\ IF ice[c.id] = "closed"
       THEN Refused(c)
       ELSE /\ GoesOnWith(c, IF registered = NoTransport THEN "set" ELSE "compare")
            /\ UNCHANGED connections
    /\ UNCHANGED <<bounds, records, due, history>>

\* The registered transport may be this one already.
Replaces(c) == IF c.old = c.id THEN AfterRegister(c) ELSE "set"

\* t.is_connected().await
CompareOld(c) ==
    /\ c.step = "compare"
    /\ GoesOn(c, IF ice[c.old] = "connected" THEN "compareNew" ELSE Replaces(c))
    /\ UNCHANGED <<bounds, connections, records, due, history>>

\* trans.is_connected().await: a connected transport only gives way to one.
CompareNew(c) ==
    /\ c.step = "compareNew"
    /\ IF ice[c.id] = "connected"
       THEN GoesOn(c, Replaces(c)) /\ UNCHANGED connections
       ELSE Refused(c)
    /\ UNCHANGED <<bounds, records, due, history>>

\* A mutant: the previous transport is left open.
SetOnly(c) == AfterRegister(c)

\* What follows once the transport is set: the previous one is closed.
AfterSet(c) == IF c.old = NoTransport THEN AfterRegister(c) ELSE "close"

\* self.transports.set, whatever is registered by now: one that the call did
\* not read is lost, and its own may have closed since the check.
Set(c) ==
    /\ c.step = "set"
    /\ registered' = c.id
    /\ GoesOn(c, AfterSet(c))
    /\ late' = (ice[c.id] = "closed") /\ unplugged' = FALSE
    /\ IF registered \in {c.old, c.id, NoTransport} THEN UNCHANGED lost ELSE Loses(registered)
    /\ UNCHANGED <<bounds, ice, events, pending, member, due, overdue>>

\* The previous transport of register, or the one that LeaveDHT removed.
CloseOld(c) ==
    /\ c.step = "close"
    /\ Closes(c.old)
    /\ GoesOn(c, AfterRegister(c))
    /\ UNCHANGED <<bounds, records, due, history>>

-----------------------------------------------------------------------------
(* Offers and answers *)

\* The transport is created and goes on the pending list.  (Where the list is
\* locked the call is an error and the attempt never comes about.)
Offer(t) ==
    /\ ice' = [ice EXCEPT ![t] = "new"]
    /\ pending' = pending \cup {t}
    /\ UNCHANGED <<bounds, registered, member, events, history, lost>>

\* Swarm::connect, which the handlers of the overlay also call.
Connect(t) ==
    /\ Fresh(t) /\ ~Usable
    /\ Starts(Call("Connect", t, "offer"))
    /\ UNCHANGED <<bounds, connections, records, due, history>>

\* ... once the transport has gathered its candidates.
ConnectOffers(c) ==
    /\ c.step = "offer"
    /\ Offer(c.id) /\ Ends(c)
    /\ due' = due \cup {Answer("ConnectNodeReport", c.id)}

\* Processor::create_offer, for an answer that comes by hand.
CreateOffer(t) ==
    /\ Fresh(t)
    /\ Offer(t)
    /\ due' = due \cup {Answer("HandAnswer", t)}
    /\ UNCHANGED calls

\* Processor::connect_peer_via_http goes on with the response.
ConnectPeerViaHttp(t) ==
    /\ Fresh(t)
    /\ Offer(t) /\ Starts(Call("HttpOffer", t, "request"))
    /\ UNCHANGED due

\* do_connect_peer_via_http holds the transport that it offered, and leaves
\* the pending list to the event.
HandleResponse(c) ==
    /\ c.step = "request"
    /\ ice[c.id] = "new"
    /\ Describes(c.id) /\ GoesOn(c, "check")
    /\ UNCHANGED <<bounds, records, due, history>>

\* The request or its response fails, and what the call did before stays.
DoRequestFails(c) ==
    /\ c.step = "request"
    /\ Ends(c)
    /\ UNCHANGED <<bounds, connections, records, due, history>>

\* ConnectNodeSend at its destination.  (When there is a usable transport the
\* answer is AlreadyConnected, which changes nothing at the origin.)
HandleConnectNodeSend(t) ==
    /\ ListenerFree /\ Fresh(t) /\ ~Usable
    /\ Starts(Call("ConnectNodeSend", t, "report"))
    /\ UNCHANGED <<bounds, connections, records, due, history>>

\* The answer is sent first ...
ReportConnectNode(c) ==
    /\ c.step = "report"
    /\ Describes(c.id)
    /\ GoesOn(c, "push")
    /\ UNCHANGED <<bounds, records, due, history>>

\* ... and then the transport goes on the pending list.
PushPending(c) ==
    /\ c.step = "push"
    /\ \/ Locks /\ pending' = pending \cup {c.id} /\ UNCHANGED lost
       \/ LockFails /\ Loses(c.id) /\ UNCHANGED pending
    /\ Ends(c)
    /\ UNCHANGED <<ice, events, registered, member, due, history>>

\* An answer comes, and no other will.
Comes(kind, t) == Answer(kind, t) \in due /\ due' = due \ {Answer(kind, t)}

\* ConnectNodeReport at the origin: an error where the transport is not found.
HandleConnectNodeReport(t) ==
    /\ ListenerFree /\ Comes("ConnectNodeReport", t)
    /\ \/ Locks /\ t \in pending /\ ice[t] = "new" /\ Describes(t)
       \/ Locks /\ t \notin pending /\ UNCHANGED connections
       \/ LockFails /\ UNCHANGED connections
    /\ UNCHANGED <<records, calls, history>>

\* Processor::answer_offer registers before it answers.
AnswerOffer(t) ==
    /\ Fresh(t)
    /\ Describes(t)
    /\ Starts(Call("AnswerOffer", t, "check"))
    /\ UNCHANGED <<bounds, records, due, history>>

\* get_handshake_info, of a connection that may have been closed since.
SendAnswer(c) ==
    /\ c.step = "answer"
    /\ Ends(c)
    /\ UNCHANGED <<bounds, connections, records, due, history>>

\* Processor::accept_answer finds the transport on the pending list, and takes
\* it off in the end.
AcceptAnswer(t) ==
    /\ Comes("HandAnswer", t)
    /\ IF t \in pending /\ ice[t] = "new"
       THEN Describes(t) /\ Starts(Call("HandAnswer", t, "check"))
       ELSE UNCHANGED <<connections, calls>>
    /\ UNCHANGED <<bounds, records, history>>

-----------------------------------------------------------------------------
(* Connections *)

\* ICE connects, once the peer has the description of this side.
Connects(t) ==
    /\ ice[t] = "checking"
    /\ \A c \in calls : c.id = t => c.kind # "AnswerOffer"
    /\ ice' = [ice EXCEPT ![t] = "connected"]
    /\ events' = Append(events, RegisterTransport(t))
    /\ UNCHANGED <<bounds, records, calls, due, history, lost>>

\* ICE disconnects or fails.
Fails(t) ==
    /\ Described(t)
    /\ Closes(t)
    /\ UNCHANGED <<bounds, records, calls, due, history>>

-----------------------------------------------------------------------------
(* The listener: load_message, and the local message it returns *)

Loads(event) ==
    /\ ListenerFree
    /\ events # <<>> /\ Head(events) = event
    /\ events' = Tail(events)
    /\ UNCHANGED <<ice, lost>>

\* get_transport: whatever is registered, the DHT may join.
JoinsIfRegistered(c) == IF registered = NoTransport THEN Ends(c) ELSE GoesOn(c, "JoinDHT")

\* History: the event of a transport that another listener is yet to push.
Early(t) ==
    overdue' = IF \E c \in calls : c.id = t /\ c.step = "push" THEN overdue \cup {t} ELSE overdue

\* History: a transport stays on the pending list, which is locked.
Stays(t) == overdue' = overdue \cup {t}

\* The event of a connection: a pending transport is registered first.
LoadRegister(t) ==
    LET c == Call("RegisterTransport", t, "check")
    IN  /\ Loads(RegisterTransport(t))
        /\ \/ Locks /\ t \in pending /\ Starts(c) /\ UNCHANGED overdue
           \/ Locks /\ t \notin pending /\ JoinsIfRegistered(c) /\ Early(t)
           \/ LockFails /\ t \in pending /\ JoinsIfRegistered(c) /\ Stays(t)
        /\ UNCHANGED <<records, due, late, unplugged>>

LoadClosed(t) ==
    /\ Loads(ConnectClosed(t))
    /\ Starts(Call("ConnectClosed", t, "pop")) /\ Early(t)
    /\ UNCHANGED <<bounds, records, due, late, unplugged>>

\* Mutants: any closed transport takes the registered one with it; none does.
IsItAny(c) == registered # NoTransport

IsIt(c) == registered = c.id

\* What follows on the pending list: get_transport.
AfterPop(c) ==
    CASE c.kind = "RegisterTransport" -> JoinsIfRegistered(c)
      [] c.kind = "ConnectClosed" -> IF IsIt(c) THEN GoesOnWith(c, "remove") ELSE Ends(c)
      [] OTHER -> Ends(c)

\* The list is locked, or has the transport no more: the event of a connection
\* is an error, the others go on.
AfterPopFails(c) == IF c.kind = "ConnectClosed" THEN AfterPop(c) ELSE Ends(c)


Pop(c) == pending \ {c.id}

PopPending(c) ==
    /\ c.step = "pop"
    /\ \/ /\ Locks /\ c.id \in pending
          /\ pending' = Pop(c) /\ overdue' = overdue \ {c.id}
          /\ AfterPop(c)
       \/ /\ Locks /\ c.id \notin pending
          /\ AfterPopFails(c) /\ UNCHANGED <<pending, overdue>>
       \/ /\ LockFails /\ c.id \in pending
          /\ AfterPopFails(c) /\ Stays(c.id) /\ UNCHANGED pending
    /\ UNCHANGED <<connections, registered, member, due, late, unplugged>>

\* A mutant: the DHT is not told that the transport is gone.
AfterRemoveNothing(c) == "done"

AfterRemove(c) ==
    IF c.kind = "ConnectClosed" /\ registered # NoTransport THEN "LeaveDHT" ELSE "done"

\* remove_transport, of whatever is registered by now.
Remove(c) ==
    /\ c.step = "remove"
    /\ registered' = NoTransport
    /\ GoesOn(c, AfterRemove(c))
    /\ unplugged' = (unplugged \/ c.kind = "Disconnect") /\ late' = FALSE
    /\ IF registered \in {c.old, NoTransport} THEN UNCHANGED lost ELSE Loses(registered)
    /\ UNCHANGED <<bounds, ice, events, pending, member, due, overdue>>

HandleJoinDHT(c) ==
    /\ c.step = "JoinDHT"
    /\ member' = TRUE
    /\ Ends(c)
    /\ UNCHANGED <<bounds, connections, pending, registered, due, history>>

\* Swarm::disconnect: the DHT first ...
HandleLeaveDHT(c) ==
    /\ c.step = "LeaveDHT"
    /\ member' = FALSE
    /\ GoesOn(c, "drop")
    /\ UNCHANGED <<bounds, connections, pending, registered, due, history>>

\* ... and whatever is registered by now goes as well, and is closed.
Drop(c) ==
    /\ c.step = "drop"
    /\ registered' = NoTransport
    /\ IF registered = NoTransport THEN Ends(c) ELSE GoesOnWith(c, "close")
    /\ late' = FALSE
    /\ UNCHANGED <<bounds, connections, pending, member, due, unplugged, overdue>>

-----------------------------------------------------------------------------
(* Closing by hand *)

ByHand == byHand < MaxByHand /\ byHand' = byHand + 1 /\ UNCHANGED <<daemon, locked>>

\* History: the transport is not closed, and may yet connect.
GivesUp(t) == IF t # registered THEN Loses(t) ELSE UNCHANGED lost

\* Processor::disconnect closes the transport, and then removes whatever is
\* registered, without a word to the DHT.
Disconnect(t) ==
    /\ registered = t /\ ByHand
    /\ Closes(t)
    /\ Starts([Call("Disconnect", t, "remove") EXCEPT !.old = t])
    /\ UNCHANGED <<records, due, history>>

\* Processor::close_pending_transport closes a transport only if it is
\* connected, and takes it off the list in any case.
ClosePending(t) ==
    /\ t \in pending /\ ByHand
    /\ IF ice[t] = "connected"
       THEN /\ Closes(t) /\ Starts(Call("ClosePending", t, "pop"))
            /\ UNCHANGED <<pending, overdue>>
       ELSE /\ pending' = pending \ {t} /\ overdue' = overdue \ {t}
            /\ GivesUp(t) /\ UNCHANGED <<ice, events, calls>>
    /\ UNCHANGED <<registered, member, due, late, unplugged>>

-----------------------------------------------------------------------------
(* The calls: of a daemon's command line and of other nodes, by JSON-RPC,  *)
(* and of a page in a browser                                              *)

RpcConnectPeerViaHttp(t) == daemon /\ ConnectPeerViaHttp(t)

\* Peers of the seed with a transport are left out.
RpcConnectWithSeed(t) == daemon /\ registered = NoTransport /\ ConnectPeerViaHttp(t)

RpcConnectWithDid(t) == daemon /\ Connect(t)

RpcCreateOffer(t) == daemon /\ CreateOffer(t)

\* Called by the dialling node, or with an offer that a user brought.
RpcAnswerOffer(t) == daemon /\ AnswerOffer(t)

RpcAcceptAnswer(t) == daemon /\ AcceptAnswer(t)

RpcCloseConnection(t) == daemon /\ Disconnect(t)

RpcClosePendingTransport(t) == daemon /\ ClosePending(t)

BrowserConnectPeerViaHttp(t) == ~daemon /\ ConnectPeerViaHttp(t)

BrowserConnectWithAddress(t) == ~daemon /\ Connect(t)

BrowserCreateOffer(t) == ~daemon /\ CreateOffer(t)

BrowserAnswerOffer(t) == ~daemon /\ AnswerOffer(t)

BrowserAcceptAnswer(t) == ~daemon /\ AcceptAnswer(t)

BrowserDisconnect(t) == ~daemon /\ Disconnect(t)

BrowserClosePendingTransport(t) == ~daemon /\ ClosePending(t)

\* The commands of the command line, and what other nodes call.
CommandLine(t) ==
    \/ RpcConnectPeerViaHttp(t)
    \/ RpcConnectWithSeed(t)
    \/ RpcConnectWithDid(t)
    \/ RpcCreateOffer(t)
    \/ RpcAnswerOffer(t)
    \/ RpcAcceptAnswer(t)
    \/ RpcCloseConnection(t)
    \/ RpcClosePendingTransport(t)

Page(t) ==
    \/ BrowserConnectPeerViaHttp(t)
    \/ BrowserConnectWithAddress(t)
    \/ BrowserCreateOffer(t)
    \/ BrowserAnswerOffer(t)
    \/ BrowserAcceptAnswer(t)
    \/ BrowserDisconnect(t)
    \/ BrowserClosePendingTransport(t)

Registering(c) == Check(c) \/ CompareOld(c) \/ CompareNew(c) \/ Set(c) \/ CloseOld(c)

Step(c) ==
    \/ Registering(c)
    \/ ConnectOffers(c) \/ HandleResponse(c) \/ DoRequestFails(c) \/ SendAnswer(c)
    \/ ReportConnectNode(c) \/ PushPending(c)
    \/ PopPending(c) \/ Remove(c)
    \/ HandleJoinDHT(c) \/ HandleLeaveDHT(c) \/ Drop(c)

Next ==
    \/ /\ Interrupted
       /\ \E t \in Transport :
          \/ CommandLine(t)
          \/ Page(t)
          \/ Connect(t)
          \/ HandleConnectNodeSend(t)
          \/ HandleConnectNodeReport(t)
          \/ Connects(t)
          \/ Fails(t)
          \/ LoadRegister(t)
          \/ LoadClosed(t)
    \/ \E c \in calls : (Interrupted \/ MidWay(c)) /\ Step(c)

Spec == Init /\ [][Next]_vars

-----------------------------------------------------------------------------
(* Properties *)

\* Nothing is under way: no event, call or state change is outstanding.
AtRest ==
    /\ calls = {} /\ events = <<>>
    /\ \A t \in Transport : ice[t] # "checking"

\* A member of the DHT of a daemon has a transport, unless LeaveDHT is under
\* way or Processor::disconnect took the transport and told the DHT nothing.
MembersHaveTransports ==
    daemon /\ member =>
        registered # NoTransport \/ unplugged \/ \E c \in calls : c.step = "LeaveDHT"



\* Once nothing is under way a connected transport is registered or pending,
\* unless another register call set its own over it without having read it,
\* another transport's removal took it, the list was locked when it was to be
\* pushed, or close_pending_transport gave it up before it connected.
NoneLeaks ==
    AtRest => \A t \in Transport : ice[t] = "connected" =>
        t = registered \/ t \in pending \/ t \in lost
=============================================================================
