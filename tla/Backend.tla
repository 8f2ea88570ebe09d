------------------------------ MODULE Backend ------------------------------
(***************************************************************************)
(* Custom messages between applications: clients send texts, http requests *)
(* and raw bytes to a service node; its listener takes them one at a time  *)
(* (backend/service), executes the requests at an http server, sends the   *)
(* answer back in chunks, and broadcasts every message it understood to    *)
(* the callers of pollMessage (jsonrpc/server.rs).  A browser client puts  *)
(* the chunks together (browser/client.rs), with the ChunkList of          *)
(* chunk.rs; what a client's node is decides what becomes of them.         *)
(***************************************************************************)
EXTENDS Naturals, Sequences, FiniteSets

CONSTANTS Msg,        \* the messages, each sent once
          Mixes,      \* what the messages may be: functions from Msg to forms,
                      \* see Sends, and clients, the kind of node that sends it
          Chunks,     \* chunks of an http response
          Poller,     \* callers of pollMessage
          Capacity,   \* of the broadcast channel
          MaxFaults   \* bound on failing sends and lost chunks

ASSUME BackendAssumption ==
    /\ Mixes \subseteq [Msg -> [form : {"text", "http", "nowhere", "malformed", "custom", "raw"},
                                client : {"browser", "native"}]]
    /\ Chunks \in Nat \ {0} /\ Capacity \in Nat \ {0} /\ MaxFaults \in Nat

VARIABLES mix,        \* what the messages of this behaviour are
          unsent,     \* messages not sent yet
          inbox,      \* messages that wait for the listener
          task,       \* what the listener is at
          reports,     \* chunks on the way back
          failed,     \* requests something went wrong with
          faults,
          log,        \* messages broadcast, oldest first
          seen,       \* the receiver: index in log of its next message
          polled,     \* indices in log that polls returned
          poll,       \* calls of pollMessage: none, with and without waiting
          queue,      \* of the mutex round the receiver; its head holds it
          list, arrived, delivered   \* of ChunkList, at the browser clients

service == <<mix, unsent, inbox, task>>
answers == <<reports, failed, faults>>
channel == <<log, seen, polled>>
polls == <<poll, queue>>
browser == <<list, arrived, delivered>>
backendVars == <<service, answers, channel, polls, browser>>

\* Responses live long: no chunk of the model expires.
Reassembly == INSTANCE ChunkList WITH
    Id <- Msg, Total <- [m \in Msg |-> Chunks], Copies <- [m \in Msg |-> 1],
    Created <- [m \in Msg |-> 0], Ttl <- [m \in Msg |-> 1],
    MaxTtl <- 1, Tolerance <- 0, LastTick <- 0, now <- 0

Form(m) == mix[m].form
Client(m) == mix[m].client

Idle == [at |-> "idle"]

BackendInit ==
    /\ mix \in Mixes
    /\ unsent = Msg /\ inbox = <<>> /\ task = Idle
    /\ reports = {} /\ failed = {} /\ faults = 0
    /\ log = <<>> /\ seen = 1 /\ polled = {}
    /\ poll = [p \in Poller |-> "none"] /\ queue = <<>>
    /\ list = <<>>
    /\ arrived = [m \in Msg |-> [i \in 0 .. Chunks - 1 |-> 0]]
    /\ delivered = [m \in Msg |-> <<>>]

-----------------------------------------------------------------------------
(* Sending, through the JSON-RPC server of a node or in a browser *)

\* Processor::send_message: flag 0 and the bytes.
SendMessage(m) ==
    /\ m \in unsent /\ unsent' = unsent \ {m}
    /\ inbox' = Append(inbox, m)
    /\ UNCHANGED <<mix, task, answers, channel, polls, browser>>

\* The bytes of the others are a BackendMessage, a type before the data.
SendHttpRequestMessage(m) ==
    Form(m) \in {"http", "nowhere", "malformed"} /\ SendMessage(m)
SendSimpleTextMessage(m) == Form(m) = "text" /\ SendMessage(m)
SendCustomMessage(m) == Form(m) = "custom" /\ SendMessage(m)
SendRawMessage(m) == Form(m) = "raw" /\ SendMessage(m)

Sends(m) ==
    \/ SendRawMessage(m) \/ SendHttpRequestMessage(m)
    \/ SendSimpleTextMessage(m) \/ SendCustomMessage(m)

RpcSends(m) == Client(m) = "native" /\ Sends(m)
BrowserSends(m) == Client(m) = "browser" /\ Sends(m)

-----------------------------------------------------------------------------
(* The service: Backend::custom_message, called by the listener *)

Taking(m) == task = Idle /\ inbox # <<>> /\ m = Head(inbox) /\ inbox' = Tail(inbox)

Task(at, m, next) == [at |-> at, msg |-> m, next |-> next]

\* Raw bytes shorter than a BackendMessage are refused; longer ones are taken
\* for one of an unknown type.
Refuses(m) ==
    /\ Taking(m) /\ Form(m) = "raw"
    /\ UNCHANGED <<mix, task, unsent, answers, channel, polls, browser>>

\* Texts are logged, unknown types left alone.
HandlesText(m) ==
    /\ Taking(m) /\ Form(m) \in {"text", "custom", "raw"}
    /\ task' = Task("broadcast", m, 0)
    /\ UNCHANGED <<mix, unsent, answers, channel, polls, browser>>

\* The request goes to the http server of that name, if there is one.
HandlesHttp(m) ==
    /\ Taking(m) /\ Form(m) \in {"http", "nowhere"}
    /\ \/ /\ Form(m) = "http" /\ task' = Task("http", m, 0)
          /\ UNCHANGED failed
       \/ /\ Form(m) = "nowhere" /\ task' = Task("broadcast", m, 0)
          /\ failed' = failed \cup {m}
    /\ UNCHANGED <<mix, unsent, reports, faults, channel, polls, browser>>

\* The path, the method or a header of the request is none that http allows:
\* execute unwraps the error.  The panic goes through the listener to main and
\* ends the process, and with it every call of pollMessage.
ExecutePanics(m) ==
    /\ Taking(m) /\ Form(m) = "malformed"
    /\ task' = Task("ended", m, 0)
    /\ poll' = [p \in Poller |-> "none"] /\ queue' = <<>>
    /\ UNCHANGED <<mix, unsent, answers, channel, browser>>

Ended == task.at = "ended"

\* The http server answers, if it does.
HttpAnswers ==
    /\ task.at = "http"
    /\ task' = Task("answer", task.msg, 1)
    /\ UNCHANGED <<mix, unsent, inbox, answers, channel, polls, browser>>

\* Mutant: the client is built without a timeout.
HttpHangs == FALSE /\ UNCHANGED backendVars

\* The timeout of the request ends the wait for a server that does not.
HttpTimesOut ==
    /\ task.at = "http"
    /\ task' = Task("broadcast", task.msg, 0)
    /\ failed' = failed \cup {task.msg}
    /\ UNCHANGED <<mix, unsent, inbox, reports, faults, channel, polls, browser>>

\* One report for every chunk, under the tx_id of the request.
SendChunkReportMessage ==
    /\ task.at = "answer"
    /\ reports' = reports \cup {[msg |-> task.msg, index |-> task.next]}
    /\ task' = IF task.next = Chunks THEN Task("broadcast", task.msg, 0)
                                     ELSE Task("answer", task.msg, task.next + 1)
    /\ UNCHANGED <<mix, unsent, inbox, failed, faults, channel, polls, browser>>

Fault == faults < MaxFaults /\ faults' = faults + 1

\* The chunk cannot be sent: the rest of them is not tried.
ReportFails ==
    /\ task.at = "answer" /\ Fault
    /\ task' = Task("broadcast", task.msg, 0)
    /\ failed' = failed \cup {task.msg}
    /\ UNCHANGED <<mix, unsent, inbox, reports, channel, polls, browser>>

\* Whatever became of the message, the callers of pollMessage get it.
Broadcasts ==
    /\ task.at = "broadcast"
    /\ log' = Append(log, task.msg) /\ task' = Idle
    /\ UNCHANGED <<mix, unsent, inbox, answers, seen, polled, polls, browser>>

-----------------------------------------------------------------------------
(* The way back *)

Lands(c) == c \in reports /\ reports' = reports \ {c}

Loses(c) ==
    /\ Lands(c) /\ Fault
    /\ failed' = failed \cup {c.msg}
    /\ UNCHANGED <<service, channel, polls, browser>>

HandleChunkData(c) == Reassembly!Handle(c.msg, c.index - 1)

\* What the list gives back is taken for a response, and given to the
\* application's callback.
HttpResponses(m) == delivered[m]

\* MessageCallbackInstance::custom_message of a chunk.
BrowserCustomMessage(c) ==
    /\ Lands(c) /\ Client(c.msg) = "browser"
    /\ HandleChunkData(c)
    /\ UNCHANGED <<service, failed, faults, channel, polls>>

\* Backend::custom_message of a native client refuses the flag of chunks.
NativeCustomMessage(c) ==
    /\ Lands(c) /\ Client(c.msg) = "native"
    /\ UNCHANGED <<service, failed, faults, channel, polls, browser>>

-----------------------------------------------------------------------------
(* poll_message *)

\* Mutant: the last to come is the first to be served.
JoinsFront(p) == <<p>> \o queue

Joins(p) == Append(queue, p)

PollMessage(p, wait) ==
    /\ poll[p] = "none" /\ ~Ended
    /\ poll' = [poll EXCEPT ![p] = IF wait THEN "recv" ELSE "try_recv"]
    /\ queue' = Joins(p)
    /\ UNCHANGED <<service, answers, channel, browser>>

Has(p) == queue # <<>> /\ Head(queue) = p

Returns(p) ==
    /\ poll' = [poll EXCEPT ![p] = "none"]
    /\ queue' = SelectSeq(queue, LAMBDA q : q # p)

\* The oldest message the channel still holds.
Oldest == IF Len(log) > Capacity THEN Len(log) - Capacity + 1 ELSE 1

\* Mutant: a receiver that lags starts over with what comes next.
Resubscribes == seen < Oldest /\ seen' = Len(log) + 1 /\ UNCHANGED polled

\* A receiver that lags gets an error, the caller null, and the next call the
\* oldest message there is.
Lags == seen < Oldest /\ seen' = Oldest /\ UNCHANGED polled

Takes == seen \in Oldest .. Len(log) /\ seen' = seen + 1 /\ polled' = polled \cup {seen}

Empty == seen > Len(log) /\ UNCHANGED <<seen, polled>>

TryRecv(p) ==
    /\ Has(p) /\ poll[p] = "try_recv" /\ Returns(p)
    /\ Lags \/ Takes \/ Empty
    /\ UNCHANGED <<service, answers, log, browser>>

\* The mutex stays locked while this call waits for a message.
Recv(p) ==
    /\ Has(p) /\ poll[p] = "recv" /\ Returns(p)
    /\ Lags \/ Takes
    /\ UNCHANGED <<service, answers, log, browser>>

\* The http client goes away, and the call with it.
Cancels(p) ==
    /\ poll[p] # "none" /\ Returns(p)
    /\ UNCHANGED <<service, answers, channel, browser>>

-----------------------------------------------------------------------------
Listens == \/ \E m \in Msg : \/ Refuses(m) \/ HandlesText(m) \/ HandlesHttp(m)
                           \/ ExecutePanics(m)
           \/ SendChunkReportMessage \/ ReportFails \/ Broadcasts

ReportArrives == \E c \in reports : Loses(c) \/ BrowserCustomMessage(c) \/ NativeCustomMessage(c)

BackendNext ==
    \/ \E m \in Msg : RpcSends(m) \/ BrowserSends(m)
    \/ Listens \/ HttpAnswers \/ HttpTimesOut \/ ReportArrives
    \/ \E p \in Poller : \/ PollMessage(p, TRUE) \/ PollMessage(p, FALSE)
                         \/ TryRecv(p) \/ Recv(p) \/ Cancels(p)

\* The listener runs, requests time out, reports arrive or are lost, calls that
\* can return do.  Nobody has to send, to poll or to answer.
BackendFairness ==
    /\ WF_backendVars(Listens \/ HttpTimesOut) /\ WF_reports(\E c \in reports : Lands(c))
    /\ \A p \in Poller : WF_backendVars(TryRecv(p)) /\ WF_backendVars(Recv(p))

BackendSpec == BackendInit /\ [][BackendNext]_backendVars /\ BackendFairness

-----------------------------------------------------------------------------
Sent(m) == m \notin unsent
Request(m) == Form(m) = "http" /\ Client(m) = "browser"
Response(m) == [i \in 1 .. Chunks |-> Reassembly!Chunk(m, i - 1)]

\* A browser's request is answered, by the whole response to it and no other,
\* however its chunks mix with those of other responses; it stays without an
\* answer only if the server, a send or a chunk failed, or a request that no
\* http request can be made of ended the node: none keeps the listener for ever.
Answered ==
    \A m \in Msg : Request(m) =>
        (Sent(m) ~> (m \in failed \/ HttpResponses(m) = <<Response(m)>> \/ Ended))

\* Polls miss a message only when more came than the channel holds: what lies
\* behind the receiver was returned, or was overwritten before it was read.
MissedOnlyByLag ==
    \A i \in 1 .. seen - 1 : i \in polled \/ i + Capacity <= Len(log)

\* Every call of pollMessage returns, whatever the others do, unless all that
\* came was received and a call that waits for more keeps the rest waiting.
PollsReturn ==
    \A p \in Poller : (poll[p] # "none") ~>
        (poll[p] = "none" \/ (seen > Len(log) /\ \E q \in Poller : poll[q] = "recv"))
=============================================================================
