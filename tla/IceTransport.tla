----------------------------- MODULE IceTransport -----------------------------
(***************************************************************************)
(* One connection between two nodes, from the offer to the messages: the   *)
(* transport of transports/default/transport.rs (build "native") and of    *)
(* transports/wasm/transport.rs (build "browser") over an external WebRTC  *)
(* stack, with the promises of transports/helper.rs that tasks wait on.    *)
(*                                                                         *)
(* A browser runs one task at a time, up to its next await; a native node  *)
(* runs its tasks and the callbacks of WebRTC on several threads.  Each    *)
(* build has its actions; what they share is what the code shares.         *)
(***************************************************************************)
EXTENDS Naturals, Sequences, SequencesExt, FiniteSets

CONSTANTS Builds,     \* the builds the two ends may have
          Candidate,  \* the ICE candidates each end may gather
          Task,       \* callers of wait_for_data_channel_open, wait_for_connected
          Dialler,    \* the tasks that made the offer
          EndOf,      \* the end each task runs at
          Chunks,     \* the chunks of a message
          MaxBreaks,  \* bound on connections that break or are closed
          NoTask

End == {"offerer", "answerer"}
Other(e) == CHOOSE f \in End : f # e

ASSUME IceAssumption ==
    /\ Builds \subseteq [End -> {"native", "browser"}] /\ Builds # {}
    /\ DOMAIN Candidate = End /\ EndOf \in [Task -> End] /\ NoTask \notin Task
    /\ Dialler \subseteq {t \in Task : EndOf[t] = "offerer"}
    /\ Chunks \in Nat \ {0} /\ MaxBreaks \in Nat

VARIABLES build,    \* native or browser, per end
          step,     \* how far the handshake of an end has come
          gathering,\* the gathering of local candidates: not yet, on, over
          pending_candidates, \* the local candidates gathered so far
          info,     \* the candidates of the handshake info an end has made
          remote,   \* the remote candidates given to the connection
          key,      \* public_key is known
          state,    \* the connection as WebRTC sees it
          onState,  \* what listens to ICE state changes
          changes,  \* ICE state changes whose handler has not run
          raised,   \* events sent to the swarm
          panics,   \* handlers of a state change that found no public key
          onOpen,   \* the task whose promise listens to the channel's opening
          onPeer,   \* the task whose promise listens to the connection's state
          opening,  \* the channel has opened and its handler has not run
          wait,     \* where each task is in its wait
          sent,     \* chunks each task has put on the channel
          wire,     \* chunks on the channel from an end
          chunks,   \* the chunk list of an end
          messages, \* messages raised as DataChannelMessage at an end
          breaks

handshake == <<step, gathering, pending_candidates, info, remote, key>>
watched == <<onState, changes, raised, panics>>
waiting == <<onOpen, onPeer, opening, wait>>
data == <<sent, wire, chunks, messages>>
iceVars == <<build, handshake, state, watched, waiting, data, breaks>>

NoInfo == [made |-> FALSE]
Info(c) == [made |-> TRUE, candidates |-> c]

\* new: nothing known of the other end, no connection yet.
IceInit ==
    /\ build \in Builds
    /\ step = [e \in End |-> "new"]
    /\ gathering = [e \in End |-> "not yet"]
    /\ pending_candidates = [e \in End |-> {}]
    /\ info = [e \in End |-> NoInfo]
    /\ remote = [e \in End |-> {}]
    /\ key = [e \in End |-> FALSE]
    /\ state = [e \in End |-> "new"]
    /\ onState = [e \in End |-> "callback"]
    /\ changes = [e \in End |-> <<>>]
    /\ raised = [e \in End |-> {}]
    /\ panics = [e \in End |-> {}]
    /\ onOpen = [e \in End |-> NoTask]
    /\ onPeer = [e \in End |-> NoTask]
    /\ opening = [e \in End |-> FALSE]
    /\ wait = [t \in Task |-> "idle"]
    /\ sent = [t \in Task |-> 0]
    /\ wire = [e \in End |-> <<>>]
    /\ chunks = [e \in End |-> {}]
    /\ messages = [e \in End |-> {}]
    /\ breaks = 0

-----------------------------------------------------------------------------
(* The handshake *)

Ended == {"disconnected", "failed", "closed"}
Alive(e) == state[e] \notin Ended
Native(e) == build[e] = "native"
InBrowser(e) == build[e] = "browser"

Only(s, e, next) == step' = [s EXCEPT ![e] = next]

\* start and apply_callback: a connection with its data channel and the three
\* callbacks.  A native node fails if WebRTC does; a browser keeps no
\* connection then and fails in apply_callback.
Starts(e) ==
    /\ step[e] = "new"
    /\ \E next \in {"started", "refused"} : Only(step, e, next)
    /\ UNCHANGED <<build, gathering, pending_candidates, info, remote, key, state, watched, waiting, data, breaks>>

NativeStart(e) == Native(e) /\ Starts(e)
BrowserStart(e) == InBrowser(e) /\ Starts(e)

\* The local description is set, which starts the gathering.
Describes(e) ==
    /\ Alive(e)
    /\ Only(step, e, "gathering")
    /\ gathering' = [gathering EXCEPT ![e] = "on"]
    /\ UNCHANGED <<build, pending_candidates, info, remote, key, state, watched, waiting, data, breaks>>

MayOffer(e) == e = "offerer" /\ step[e] = "started"
MayAnswer(e) == e = "answerer" /\ step[e] = "registered"

NativeGetOffer(e) == Native(e) /\ MayOffer(e) /\ Describes(e)
NativeGetAnswer(e) == Native(e) /\ MayAnswer(e) /\ Describes(e)
BrowserGetOffer(e) == InBrowser(e) /\ MayOffer(e) /\ Describes(e)
BrowserGetAnswer(e) == InBrowser(e) /\ MayAnswer(e) /\ Describes(e)

\* As long as the network yields candidates.
Gathers(e) ==
    /\ gathering[e] = "on"
    /\ \E c \in Candidate[e] \ pending_candidates[e] :
          pending_candidates' = [pending_candidates EXCEPT ![e] = @ \cup {c}]
    /\ UNCHANGED <<build, step, gathering, info, remote, key, state, watched, waiting, data, breaks>>

NativeOnIceCandidate(e) == Native(e) /\ Gathers(e)
BrowserOnIceCandidate(e) == InBrowser(e) /\ Gathers(e)

GatheringEnds(e) ==
    /\ gathering[e] = "on"
    /\ gathering' = [gathering EXCEPT ![e] = "over"]
    /\ UNCHANGED <<build, step, pending_candidates, info, remote, key, state, watched, waiting, data, breaks>>

\* Mutant: the call waits for the first candidate only.
GatheredSome(e) == gathering[e] = "over" \/ pending_candidates[e] # {}

\* gathering_complete_promise, gather_complete_promise: both are there before
\* the first change of the gathering is reported.
Gathered(e) == gathering[e] = "over"

\* The description with the candidates gathered, or
\* FailedOnGatherLocalCandidate without any.
Informs(e) ==
    /\ step[e] = "gathering" /\ Gathered(e)
    /\ Only(step, e, IF pending_candidates[e] = {} THEN "refused" ELSE "described")
    /\ info' = [info EXCEPT ![e] = IF pending_candidates[e] = {} THEN @ ELSE Info(pending_candidates[e])]
    /\ UNCHANGED <<build, gathering, pending_candidates, remote, key, state, watched, waiting, data, breaks>>

NativeGetHandshakeInfo(e) == Native(e) /\ Informs(e)
BrowserGetHandshakeInfo(e) == InBrowser(e) /\ Informs(e)

\* A browser writes the key before it sets the remote description.
KeyFirst(e) == key[e] \/ InBrowser(e)

\* register_remote_info of a verified payload: the remote description is set,
SetRemoteDescription(e) ==
    /\ step[e] = (IF e = "offerer" THEN "described" ELSE "started")
    /\ info[Other(e)].made /\ Alive(e)
    /\ Only(step, e, "registering")
    /\ key' = [key EXCEPT ![e] = KeyFirst(e)]
    /\ UNCHANGED <<build, gathering, pending_candidates, info, remote, state, watched, waiting, data, breaks>>

\* the remote candidates are added one by one; a failure is only logged, and
\* what has not been added when the call ends has failed;
AddIceCandidate(e) ==
    /\ step[e] = "registering"
    /\ \E c \in info[Other(e)].candidates \ remote[e] :
          remote' = [remote EXCEPT ![e] = @ \cup {c}]
    /\ UNCHANGED <<build, step, gathering, pending_candidates, info, key, state, watched, waiting, data, breaks>>

\* and a native node writes the key at the end.
RegisterRemoteInfo(e) ==
    /\ step[e] = "registering"
    /\ Only(step, e, "registered")
    /\ key' = [key EXCEPT ![e] = TRUE]
    /\ UNCHANGED <<build, gathering, pending_candidates, info, remote, state, watched, waiting, data, breaks>>

-----------------------------------------------------------------------------
(* WebRTC: ICE connects, the connection is secured, the channel opens *)

HasDescription(e) ==
    step[e] \in IF e = "offerer" THEN {"registering", "registered"}
                                 ELSE {"gathering", "described"}

Changed(e, c) == IF onState[e] = "callback" THEN Append(changes[e], c) ELSE changes[e]

\* A check between the two ends succeeds.  One end may know no candidate yet:
\* it learns the address from the other's check.
IceConnects(e) ==
    /\ \A f \in End : HasDescription(f) /\ Alive(f)
    /\ \E f \in End : remote[f] # {}
    /\ state[e] = "new"
    /\ state' = [state EXCEPT ![e] = "connected"]
    /\ changes' = [changes EXCEPT ![e] = Changed(e, "Connected")]
    /\ UNCHANGED <<build, handshake, onState, raised, panics, waiting, data, breaks>>

\* What the handler of the peer connection's state does to the promise of
\* connect_success_promise: nothing unless the promise was polled.
PeerChanged(e, outcome) ==
    [t \in Task |-> IF onPeer[e] = t /\ wait[t] = "polled" THEN outcome ELSE wait[t]]

Secured(e) ==
    /\ state[e] = "connected" /\ state[Other(e)] \in {"connected", "secured"}
    /\ state' = [state EXCEPT ![e] = "secured"]
    /\ wait' = PeerChanged(e, "woken")
    /\ UNCHANGED <<build, handshake, watched, onOpen, onPeer, opening, data, breaks>>

ChannelOpens(e) ==
    /\ state[e] = "secured" /\ state[Other(e)] \in {"secured", "open"}
    /\ state' = [state EXCEPT ![e] = "open"]
    /\ opening' = [opening EXCEPT ![e] = TRUE]
    /\ UNCHANGED <<build, handshake, watched, onOpen, onPeer, wait, data, breaks>>

\* A browser raises no event for its own call of close.
Hears(e, how) == how # "closed" \/ Native(e)

\* The connection is lost, or close is called at e.  What is on the channel
\* is lost.
Ends(e, how, other) ==
    /\ breaks < MaxBreaks /\ Alive(e)
    /\ breaks' = breaks + 1
    /\ state' = [f \in End |-> IF f = e THEN how
                               ELSE IF state[f] \in {"new"} \cup Ended THEN state[f] ELSE other]
    /\ changes' = [f \in End |-> IF state'[f] # state[f] /\ Hears(f, state'[f]) THEN Changed(f, "Ended") ELSE changes[f]]
    /\ opening' = [f \in End |-> opening[f] /\ state'[f] = state[f]]
    /\ wire' = [f \in End |-> <<>>]
    /\ UNCHANGED <<build, handshake, onState, raised, panics, onOpen, onPeer, sent, chunks, messages>>

ConnectionFails(e) ==
    /\ HasDescription(e)
    /\ Ends(e, "failed", "disconnected")
    /\ wait' = PeerChanged(e, "broken")

Close(e) ==
    /\ Ends(e, "closed", "disconnected")
    /\ UNCHANGED wait

-----------------------------------------------------------------------------
(* Callbacks *)

Event(c) == IF c = "Connected" THEN "RegisterTransport" ELSE "ConnectClosed"

\* The handler unwraps the key.
StateChanges(e) ==
    /\ changes[e] # <<>>
    /\ changes' = [changes EXCEPT ![e] = Tail(@)]
    /\ \/ /\ key[e]
          /\ raised' = [raised EXCEPT ![e] = @ \cup {Event(Head(changes[e]))}]
          /\ UNCHANGED panics
       \/ /\ ~key[e]
          /\ panics' = [panics EXCEPT ![e] = @ \cup {Head(changes[e])}]
          /\ UNCHANGED raised
    /\ UNCHANGED <<build, handshake, state, onState, waiting, data, breaks>>

NativeOnIceConnectionStateChange(e) == Native(e) /\ StateChanges(e)
BrowserOnIceConnectionStateChange(e) == InBrowser(e) /\ StateChanges(e)

\* Mutant: the promise is completed and its task not woken.
WokenNever(t) == IF wait[t] = "polled" THEN "completed" ELSE wait[t]

\* The handler of the channel's opening: it completes its promise only if a
\* waker is there, that is once the promise was polled.
Woken(t) == IF wait[t] = "polled" THEN "woken" ELSE wait[t]

OnOpen(e) ==
    /\ opening[e]
    /\ opening' = [opening EXCEPT ![e] = FALSE]
    /\ wait' = [t \in Task |-> IF t = onOpen[e] THEN Woken(t) ELSE wait[t]]
    /\ UNCHANGED <<build, handshake, state, watched, onOpen, onPeer, data, breaks>>

Whole(t) == {<<t, i>> : i \in 1..Chunks}

\* Mutant: any chunks count.
CompleteByCount(list, t) == Cardinality(list) >= Chunks

Complete(list, t) == Whole(t) \subseteq list

\* The chunk list takes the chunk, and a message that is complete goes to the
\* swarm.
Receives(e, i) ==
    LET q == wire[Other(e)]
        c == q[i]
        list == chunks[e] \cup {c}
    IN  /\ Alive(e)
        /\ wire' = [wire EXCEPT ![Other(e)] = RemoveAt(q, i)]
        /\ IF Complete(list, c[1])
           THEN /\ chunks' = [chunks EXCEPT ![e] = list \ Whole(c[1])]
                /\ messages' = [messages EXCEPT ![e] = @ \cup {c[1]}]
           ELSE /\ chunks' = [chunks EXCEPT ![e] = list]
                /\ UNCHANGED messages
        /\ UNCHANGED <<build, handshake, state, watched, waiting, sent, breaks>>

NativeOnMessage(e) == Native(e) /\ wire[Other(e)] # <<>> /\ Receives(e, 1)

\* A browser reads the bytes of each chunk in a task of its own: the tasks may
\* overtake each other.
BrowserOnMessage(e) == InBrowser(e) /\ \E i \in DOMAIN wire[Other(e)] : Receives(e, i)

-----------------------------------------------------------------------------
(* Waiting and sending *)

Open(t) == state[EndOf[t]] = "open"

\* Senders use the transports the swarm has registered; who dialled may wait
\* for its own offer from the start (connect_with_did).
MayWait(t) == /\ wait[t] = "idle"
              /\ \/ "RegisterTransport" \in raised[EndOf[t]]
                 \/ t \in Dialler /\ step[EndOf[t]] \in {"described", "registering", "registered"}

FindsOpen(t) ==
    /\ MayWait(t) /\ Open(t)
    /\ wait' = [wait EXCEPT ![t] = "ready"]
    /\ UNCHANGED <<build, handshake, state, watched, onOpen, onPeer, opening, data, breaks>>

\* wait_for_data_channel_open of a native node: the task looks at the channel's
\* state, replaces the handler, and polls its promise.
NativeChecksOpen(t) ==
    /\ Native(EndOf[t]) /\ MayWait(t) /\ ~Open(t)
    /\ wait' = [wait EXCEPT ![t] = "checked"]
    /\ UNCHANGED <<build, handshake, state, watched, onOpen, onPeer, opening, data, breaks>>

NativeRegistersOpen(t) ==
    /\ wait[t] = "checked"
    /\ onOpen' = [onOpen EXCEPT ![EndOf[t]] = t]
    /\ wait' = [wait EXCEPT ![t] = "registered"]
    /\ UNCHANGED <<build, handshake, state, watched, onPeer, opening, data, breaks>>

\* The same of a browser: nothing comes between.
BrowserWaitsForOpen(t) ==
    /\ InBrowser(EndOf[t]) /\ MayWait(t) /\ ~Open(t)
    /\ wait' = [wait EXCEPT ![t] = "polled"]
    /\ onOpen' = [onOpen EXCEPT ![EndOf[t]] = t]
    /\ UNCHANGED <<build, handshake, state, watched, onPeer, opening, data, breaks>>

\* wait_for_connected, by whoever made the handshake.
MayWatch(t) == wait[t] = "idle" /\ t \in Dialler /\ step[EndOf[t]] = "registered"

\* The look at the current state completes nothing before the first poll.
NativeConnectSuccessPromise(t) ==
    /\ Native(EndOf[t]) /\ MayWatch(t)
    /\ wait' = [wait EXCEPT ![t] = "registered"]
    /\ onPeer' = [onPeer EXCEPT ![EndOf[t]] = t]
    /\ UNCHANGED <<build, handshake, state, watched, onOpen, opening, data, breaks>>

\* The promise takes the place of the callback for ICE state changes and is
\* never completed: its handler expects a state and is called with an event.
BrowserConnectSuccessPromise(t) ==
    /\ InBrowser(EndOf[t]) /\ MayWatch(t)
    /\ wait' = [wait EXCEPT ![t] = "polled"]
    /\ onState' = [onState EXCEPT ![EndOf[t]] = "promise"]
    /\ UNCHANGED <<build, handshake, state, changes, raised, panics, onOpen, onPeer, opening, data, breaks>>

\* A task polls its promise, first to leave its waker and then once woken.
Poll(t) ==
    /\ \/ /\ wait[t] = "registered"
          /\ wait' = [wait EXCEPT ![t] = "polled"]
       \/ /\ wait[t] = "woken"
          /\ wait' = [wait EXCEPT ![t] = IF onPeer[EndOf[t]] = t THEN "returned" ELSE "ready"]
       \/ /\ wait[t] = "broken"
          /\ wait' = [wait EXCEPT ![t] = "returned"]
    /\ UNCHANGED <<build, handshake, state, watched, onOpen, onPeer, opening, data, breaks>>

\* t puts n more chunks on the channel.
Puts(t, n) ==
    /\ Open(t)
    /\ sent' = [sent EXCEPT ![t] = @ + n]
    /\ wire' = [wire EXCEPT ![EndOf[t]] = @ \o [i \in 1..n |-> <<t, sent[t] + i>>]]
    /\ wait' = [wait EXCEPT ![t] = IF sent'[t] = Chunks THEN "sent" ELSE "ready"]
    /\ UNCHANGED <<build, handshake, state, watched, onOpen, onPeer, opening, chunks, messages, breaks>>

\* send_message: a native task may be interrupted after each chunk.
NativeSends(t) == Native(EndOf[t]) /\ wait[t] = "ready" /\ Puts(t, 1)
BrowserSends(t) == InBrowser(EndOf[t]) /\ wait[t] = "ready" /\ Puts(t, Chunks)

\* The message is too large, or the channel is not open any more.
SendFails(t) ==
    /\ wait[t] = "ready" /\ (sent[t] = 0 \/ ~Open(t))
    /\ wait' = [wait EXCEPT ![t] = "returned"]
    /\ UNCHANGED <<build, handshake, state, watched, onOpen, onPeer, opening, data, breaks>>

-----------------------------------------------------------------------------
(* Specification *)

NativeHandshake(e) == NativeStart(e) \/ NativeGetOffer(e) \/ NativeGetAnswer(e)
                   \/ NativeOnIceCandidate(e) \/ NativeGetHandshakeInfo(e)
BrowserHandshake(e) == BrowserStart(e) \/ BrowserGetOffer(e) \/ BrowserGetAnswer(e)
                    \/ BrowserOnIceCandidate(e) \/ BrowserGetHandshakeInfo(e)
Handshake(e) == NativeHandshake(e) \/ BrowserHandshake(e) \/ GatheringEnds(e)
             \/ SetRemoteDescription(e) \/ AddIceCandidate(e) \/ RegisterRemoteInfo(e)
Connection(e) == IceConnects(e) \/ Secured(e) \/ ChannelOpens(e)
OnStateChange(e) == NativeOnIceConnectionStateChange(e) \/ BrowserOnIceConnectionStateChange(e)
OnMessage(e) == NativeOnMessage(e) \/ BrowserOnMessage(e)
Calls(t) == FindsOpen(t) \/ NativeChecksOpen(t) \/ BrowserWaitsForOpen(t)
         \/ NativeConnectSuccessPromise(t) \/ BrowserConnectSuccessPromise(t)
Runs(t) == NativeRegistersOpen(t) \/ Poll(t) \/ NativeSends(t) \/ BrowserSends(t) \/ SendFails(t)

IceNext ==
    \/ \E e \in End : \/ Handshake(e) \/ Connection(e) \/ ConnectionFails(e) \/ Close(e)
                      \/ OnStateChange(e) \/ OnOpen(e) \/ OnMessage(e)
    \/ \E t \in Task : Calls(t) \/ Runs(t)

\* Callbacks run, tasks that can run are run, and the network connects the
\* two ends unless something breaks.
Fairness == /\ \A e \in End : /\ WF_iceVars(Handshake(e)) /\ WF_iceVars(Connection(e))
                              /\ WF_iceVars(OnStateChange(e)) /\ WF_iceVars(OnOpen(e)) /\ WF_iceVars(OnMessage(e))
            /\ \A t \in Task : WF_iceVars(Runs(t))

IceSpec == IceInit /\ [][IceNext]_iceVars /\ Fairness

-----------------------------------------------------------------------------
(* Properties *)

\* There is no trickling: a candidate that is not in the handshake info never
\* reaches the other end, so the info must be made after the gathering has
\* ended (get_offer and get_answer wait for it).
InfoComplete == \A e \in End : info[e].made => info[e].candidates = pending_candidates[e]

\* Chunks of several senders share the channel: a message reaches the swarm of
\* the other end only whole, and while the connection lasts every message whose
\* send_message returned does.
SentArrives ==
    \A t \in Task :
        /\ t \in messages[Other(EndOf[t])] => sent[t] = Chunks
        /\ wait[t] = "sent" /\ breaks = 0 /\ wire[EndOf[t]] = <<>>
              => t \in messages[Other(EndOf[t])]

\* The task that registered last on a channel, if it was polled before the
\* channel opened, comes back from wait_for_data_channel_open.
Newest(t) == wait[t] = "polled" /\ onOpen[EndOf[t]] = t

NewestWaiterReturns ==
    \A t \in Task : Newest(t) /\ opening[EndOf[t]] ~> wait[t] \in {"ready", "sent", "returned"} \/ onOpen[EndOf[t]] # t \/ ~Open(t)
=============================================================================
