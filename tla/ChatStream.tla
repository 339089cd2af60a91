----------------------------- MODULE ChatStream -----------------------------
(***************************************************************************)
(* A chat request on its way through the gateway.  The event loop of a     *)
(* WebSocket connection runs process_chat, cancel and close                *)
(* (src/ws_chat_controller.cpp); the I/O thread of RemoteUpstream          *)
(* (src/remote_upstream.cpp) drains the submissions, feeds the lines of    *)
(* each server's stream to the SSEParser and reaps the finished transfers. *)
(* The request's callbacks run on the I/O thread and reach the connection  *)
(* through the queue of its loop; a callback reads the cancel flag, queues *)
(* its message and queues the erasure of the request in separate steps.    *)
(*                                                                         *)
(* An HTTP connection (handle_chat in src/main.cpp) makes one request.  It *)
(* cannot cancel it, its callbacks write to the response at once, and it   *)
(* is not told of tool calls.                                              *)
(*                                                                         *)
(* Of the metrics, only the ones the properties read are kept.             *)
(***************************************************************************)
EXTENDS Integers, Sequences, FiniteSets, SequencesExt, Filter

CONSTANTS
    Conns,          \* connections
    Http,           \* those that are HTTP requests; the others are WebSockets
    Ids,            \* request_id values the clients use
    Streams,        \* what a server may send: [events, end]
    ReuseIds,       \* do clients use a request_id again once it was answered?
    Word,           \* the counters count modulo Word (2^64)
    MaxRequests,    \* bound: number of chat messages
    None

Requests == 1..MaxRequests
Lines    == {"token", "fragment", "finish", "done"}
Ends     == {"ok", "http", "curl"}

\* What the loop of a connection is given to do: messages to send, requests to erase.
Types == {"token", "tool_call", "done", "error", "abort", "cancelled", "erase"}
Jobs  == [type : Types, req : Requests, at : Nat]
Told  == [type : Types \ {"erase"}, req : Requests, at : Nat]

\* The callback the I/O thread is in: its next step, its request, what it read of the cancel
\* flag, and whether reap_finished has called it.
Callbacks == [step : {"token", "done", "error", "erase", "reap"}, req : Requests,
              send : BOOLEAN, reap : BOOLEAN]

ASSUME StreamAssumption == \A s \in Streams : s.events \in Seq(Lines) /\ s.end \in Ends
ASSUME ConnAssumption   == Http \subseteq Conns
ASSUME BoundAssumption  == MaxRequests \in Nat /\ Word \in Nat \ {0} /\ ReuseIds \in BOOLEAN
ASSUME NoneAssumption   ==
    /\ None \notin Requests \cup Conns \cup [conn : Conns, id : Ids] \cup Callbacks
    /\ None \notin [pieces : Seq(Nat), end : {"open", "done", "failed"}]

VARIABLES
    connected,      \* open connections
    req,            \* req[r]: connection and request_id of the r-th chat message
    active,         \* active[c][id]: active_requests of the SessionCtx of c
    cancelled,      \* requests whose cancel flag is set
    pending,        \* RemoteUpstream::pending_
    local,          \* the tasks drain_queue took and has not added yet
    transfers,      \* RemoteUpstream::active_
    ended,          \* requests whose server or network has ended the transfer
    stream, pos,    \* what the server sends, and how many lines of it were parsed
    fragment,       \* requests whose parser holds a tool call (tc_id_)
    io,             \* the callback the I/O thread is in, or None
    queue,          \* queue[c]: functors queued in the loop of c
    out,            \* out[c]: messages sent to c
    metric,         \* Metrics
    \* history variables, read by no action's guard
    late,           \* late[r]: tokens queued after the flag of r was set
    swallowed,      \* token lines the plugins reduced to nothing
    finished        \* requests for which on_done or on_error has been called

loopVars   == <<connected, req, active, cancelled>>
ioVars     == <<local, transfers, ended, stream, pos, fragment, io>>
history    == <<late, swallowed, finished>>
vars == <<loopVars, pending, ioVars, queue, out, metric, history>>

-----------------------------------------------------------------------------
(* Helpers.                                                                *)

Conn(r) == req[r].conn
Used    == {r \in Requests : req[r] # None}
Terminal == {"done", "error"}

Plus(m, n) == (m + n) % Word

Job(r, type, at) == [type |-> type, req |-> r, at |-> at]

Got(r, types) == \E i \in 1..Len(out[Conn(r)]) :
                     out[Conn(r)][i].req = r /\ out[Conn(r)][i].type \in types

OnHttp(r) == Conn(r) \in Http

\* queueInLoop on the loop of a WebSocket.
Queued(r, job) ==
    /\ queue' = [queue EXCEPT ![Conn(r)] = Append(@, job)]
    /\ UNCHANGED out

\* A write to the response: it is lost once the client is gone or the response closed,
\* as it is after done and error.
Written(r, job) ==
    /\ out' = IF Conn(r) \in connected /\ ~Got(r, Terminal)
              THEN [out EXCEPT ![Conn(r)] = Append(@, job)] ELSE out
    /\ UNCHANGED queue

\* How a callback of r sends a message.
Sent(r, job) == IF OnHttp(r) THEN Written(r, job) ELSE Queued(r, job)

-----------------------------------------------------------------------------
(* The event loop of a connection.                                         *)

\* A client takes a request_id it has not used, or one of a request that has been
\* answered; an HTTP connection makes one request.
MayUse(c, id) ==
    /\ c \in Http => \A r \in Used : Conn(r) # c
    /\ \A r \in Used : req[r] = [conn |-> c, id |-> id]
                           => ReuseIds /\ Got(r, Terminal \cup {"abort"})

\* process_chat, or handle_chat and its stream, up to submit
Chat(c, id) ==
    /\ c \in connected /\ MayUse(c, id)
    /\ Cardinality(Used) < MaxRequests
    /\ LET r == Cardinality(Used) + 1
       IN  /\ req' = [req EXCEPT ![r] = [conn |-> c, id |-> id]]
           /\ active' = IF c \in Http THEN active ELSE [active EXCEPT ![c][id] = r]
           /\ pending' = Append(pending, r)
    /\ metric' = [metric EXCEPT !.total = Plus(@, 1), !.active = Plus(@, 1)]
    /\ UNCHANGED <<connected, cancelled, ioVars, queue, out, history>>

\* process_chat: not authorised, no backend ("error"), or aborted by a plugin;
\* handle_chat: also a body that is no request
Refuse(c, id, type) ==
    /\ c \in connected /\ MayUse(c, id)
    /\ Cardinality(Used) < MaxRequests
    /\ LET r == Cardinality(Used) + 1
       IN  /\ req' = [req EXCEPT ![r] = [conn |-> c, id |-> id]]
           /\ out' = [out EXCEPT ![c] = Append(@, Job(r, type, 1))]
           /\ finished' = finished \cup {r}
    /\ UNCHANGED <<connected, active, cancelled, pending, ioVars, queue, metric, late, swallowed>>

\* cancel: the answer is sent at once, past what is queued.  A client cancels a
\* request once.
Cancel(c, id) ==
    /\ c \in connected
    /\ active[c][id] # None /\ active[c][id] \notin cancelled
    /\ cancelled' = cancelled \cup {active[c][id]}
    /\ out' = [out EXCEPT ![c] = Append(@, Job(active[c][id], "cancelled", 0))]
    /\ UNCHANGED <<connected, req, active, pending, ioVars, queue, metric, history>>

\* handleConnectionClosed; nobody is told that an HTTP client is gone.
Close(c) ==
    /\ c \in connected
    /\ connected' = connected \ {c}
    /\ cancelled' = cancelled \cup {active[c][id] : id \in {i \in Ids : active[c][i] # None}}
    /\ UNCHANGED <<req, active, pending, ioVars, queue, out, metric, history>>

\* Mutant: an erase job empties the whole map.
ErasedAll(c) == IF \E i \in 1..Len(queue[c]) : queue[c][i].type = "erase"
                THEN {id \in Ids : active[c][id] # None} ELSE {}

\* The request_ids that the queued erase functors take from active_requests.
Erased(c) == {req[queue[c][i].req].id : i \in {j \in 1..Len(queue[c]) : queue[c][j].type = "erase"}}

\* The loop runs the queued functors, in order, before it reads the socket again.
RunLoop(c) ==
    /\ queue[c] # <<>>
    /\ queue' = [queue EXCEPT ![c] = <<>>]
    /\ out' = IF c \in connected
              THEN [out EXCEPT ![c] = @ \o Keep(queue[c], Told)]
              ELSE out
    /\ active' = [active EXCEPT ![c] = [id \in Ids |-> IF id \in Erased(c) THEN None ELSE @[id]]]
    /\ UNCHANGED <<connected, req, cancelled, pending, ioVars, metric, history>>

-----------------------------------------------------------------------------
(* The I/O thread.                                                         *)

\* Mutant: the submissions are copied, not taken.
DrainCopy ==
    /\ io = None /\ local = <<>> /\ pending # <<>>
    /\ local' = pending
    /\ UNCHANGED <<loopVars, pending, transfers, ended, stream, pos, fragment, io, queue, out, metric, history>>

\* drain_queue: take all submissions
Drain ==
    /\ io = None /\ local = <<>> /\ pending # <<>>
    /\ local' = pending /\ pending' = <<>>
    /\ UNCHANGED <<loopVars, transfers, ended, stream, pos, fragment, io, queue, out, metric, history>>

\* add_transfer
AddTransfer(s) ==
    /\ io = None /\ local # <<>>
    /\ local' = Tail(local)
    /\ transfers' = transfers \cup {Head(local)}
    /\ stream' = [stream EXCEPT ![Head(local)] = s]
    /\ metric' = [metric EXCEPT !.active = Plus(@, 1)]
    /\ UNCHANGED <<loopVars, pending, ended, pos, fragment, io, queue, out, history>>

\* The callback on_error begins: it reads the cancel flag.
OnError(r, reap) == io' = [step |-> "error", req |-> r, send |-> r \notin cancelled, reap |-> reap]

\* add_transfer: curl_easy_init fails
AddTransferFails ==
    /\ io = None /\ local # <<>>
    /\ local' = Tail(local)
    /\ OnError(Head(local), FALSE)
    /\ UNCHANGED <<loopVars, pending, transfers, ended, stream, pos, fragment, queue, out, metric, history>>

\* process_line of the next line of r's stream: l is its kind.
NextLine(r, l) ==
    /\ io = None /\ local = <<>>
    /\ r \in transfers \ ended
    /\ pos[r] < Len(stream[r].events)
    /\ stream[r].events[pos[r] + 1] = l
    /\ pos' = [pos EXCEPT ![r] = @ + 1]

\* Mutant: the flag is not read.
TokenAlways(r) ==
    /\ NextLine(r, "token")
    /\ io' = [step |-> "token", req |-> r, send |-> TRUE, reap |-> FALSE]
    /\ UNCHANGED <<loopVars, pending, local, transfers, ended, stream, fragment, queue, out, metric, history>>

\* A content token, or a line that is no JSON and passed on as it is: on_token
\* reads the cancel flag.
Token(r) ==
    /\ NextLine(r, "token")
    /\ io' = IF r \in cancelled THEN None
             ELSE [step |-> "token", req |-> r, send |-> TRUE, reap |-> FALSE]
    /\ UNCHANGED <<loopVars, pending, local, transfers, ended, stream, fragment, queue, out, metric, history>>

\* A delta of a tool call is accumulated.
Fragment(r) ==
    /\ NextLine(r, "fragment")
    /\ fragment' = fragment \cup {r}
    /\ UNCHANGED <<loopVars, pending, local, transfers, ended, stream, io, queue, out, metric, history>>

OnDone(r) == io' = [step |-> "done", req |-> r, send |-> TRUE, reap |-> FALSE]

\* finish_reason "tool_calls": on_tool_call queues its message, then on_done begins.
Finish(r) ==
    /\ NextLine(r, "finish")
    /\ IF r \in fragment /\ ~OnHttp(r) THEN Queued(r, Job(r, "tool_call", pos[r] + 1))
       ELSE UNCHANGED <<queue, out>>
    /\ fragment' = fragment \ {r}
    /\ OnDone(r)
    /\ UNCHANGED <<loopVars, pending, local, transfers, ended, stream, metric, history>>

\* [DONE]
Done(r) ==
    /\ NextLine(r, "done")
    /\ OnDone(r)
    /\ UNCHANGED <<loopVars, pending, local, transfers, ended, stream, fragment, queue, out, metric, history>>

\* on_token, once the flag is read: what the plugins leave of the token is sent.
TokenSend(keep) ==
    /\ io # None /\ io.step = "token"
    /\ LET r == io.req
       IN  /\ IF keep THEN Sent(r, Job(r, "token", pos[r])) ELSE UNCHANGED <<queue, out>>
           /\ late' = [late EXCEPT ![r] = IF keep /\ r \in cancelled THEN @ + 1 ELSE @]
           /\ swallowed' = IF keep THEN swallowed ELSE swallowed \cup {<<r, pos[r]>>}
    /\ io' = None
    /\ UNCHANGED <<loopVars, pending, local, transfers, ended, stream, pos, fragment, metric, finished>>

\* The end of on_done and on_error: of a WebSocket, the erasure of the request comes next.
NextStep(r, reap) == IF ~OnHttp(r) THEN [io EXCEPT !.step = "erase"]
                     ELSE IF reap THEN [io EXCEPT !.step = "reap"] ELSE None

\* Mutant: done goes out at once, past what is queued.
DoneSendDirect ==
    /\ io # None /\ io.step = "done"
    /\ Written(io.req, Job(io.req, "done", pos[io.req]))
    /\ metric' = [metric EXCEPT !.success = Plus(@, 1), !.active = Plus(@, -1)]
    /\ finished' = finished \cup {io.req}
    /\ io' = NextStep(io.req, FALSE)
    /\ UNCHANGED <<loopVars, pending, local, transfers, ended, stream, pos, fragment, late, swallowed>>

\* on_done: the message is sent, whether the request is cancelled or not.
DoneSend ==
    /\ io # None /\ io.step = "done"
    /\ Sent(io.req, Job(io.req, "done", pos[io.req]))
    /\ metric' = [metric EXCEPT !.success = Plus(@, 1), !.active = Plus(@, -1)]
    /\ finished' = finished \cup {io.req}
    /\ io' = NextStep(io.req, FALSE)
    /\ UNCHANGED <<loopVars, pending, local, transfers, ended, stream, pos, fragment, late, swallowed>>

\* Mutant: a request that failed is not counted down.
ErrorSendKeepsActive ==
    /\ io # None /\ io.step = "error"
    /\ IF io.send THEN Sent(io.req, Job(io.req, "error", pos[io.req] + 1)) ELSE UNCHANGED <<queue, out>>
    /\ metric' = [metric EXCEPT !.errors = Plus(@, 1)]
    /\ finished' = finished \cup {io.req}
    /\ io' = NextStep(io.req, io.reap)
    /\ UNCHANGED <<loopVars, pending, local, transfers, ended, stream, pos, fragment, late, swallowed>>

\* on_error, once the flag is read
ErrorSend ==
    /\ io # None /\ io.step = "error"
    /\ IF io.send THEN Sent(io.req, Job(io.req, "error", pos[io.req] + 1)) ELSE UNCHANGED <<queue, out>>
    /\ metric' = [metric EXCEPT !.errors = Plus(@, 1), !.active = Plus(@, -1)]
    /\ finished' = finished \cup {io.req}
    /\ io' = NextStep(io.req, io.reap)
    /\ UNCHANGED <<loopVars, pending, local, transfers, ended, stream, pos, fragment, late, swallowed>>

\* on_done and on_error end: the erasure of the request is queued.
QueueErase ==
    /\ io # None /\ io.step = "erase"
    /\ Queued(io.req, Job(io.req, "erase", 0))
    /\ io' = IF io.reap THEN [io EXCEPT !.step = "reap"] ELSE None
    /\ UNCHANGED <<loopVars, pending, local, transfers, ended, stream, pos, fragment, metric, history>>

\* reap_finished: the transfer went well; its parser goes with it.
ReapOk(r) ==
    /\ io = None /\ local = <<>>
    /\ r \in transfers \cap ended /\ stream[r].end = "ok"
    /\ metric' = [metric EXCEPT !.success = Plus(@, 1), !.active = Plus(@, -1)]
    /\ transfers' = transfers \ {r} /\ fragment' = fragment \ {r}
    /\ UNCHANGED <<loopVars, pending, local, ended, stream, pos, io, queue, out, history>>

\* Mutant: an HTTP status is no failure.
ReapFailedCurl(r) ==
    /\ io = None /\ local = <<>>
    /\ r \in transfers \cap ended /\ stream[r].end = "curl"
    /\ OnError(r, TRUE)
    /\ UNCHANGED <<loopVars, pending, local, transfers, ended, stream, pos, fragment, queue, out, metric, history>>

\* reap_finished: curl reports an error, or the status is not 200.
ReapFailed(r) ==
    /\ io = None /\ local = <<>>
    /\ r \in transfers \cap ended /\ stream[r].end # "ok"
    /\ OnError(r, TRUE)
    /\ UNCHANGED <<loopVars, pending, local, transfers, ended, stream, pos, fragment, queue, out, metric, history>>

\* reap_finished, after err_cb
Reaped ==
    /\ io # None /\ io.step = "reap"
    /\ metric' = [metric EXCEPT !.errors = Plus(@, 1), !.active = Plus(@, -1)]
    /\ transfers' = transfers \ {io.req} /\ fragment' = fragment \ {io.req}
    /\ io' = None
    /\ UNCHANGED <<loopVars, pending, local, ended, stream, pos, queue, out, history>>

\* The server or the network ends the transfer of r.
ServerEnd(r) ==
    /\ r \in transfers \ ended
    /\ pos[r] = Len(stream[r].events)
    /\ io = None
    /\ ended' = ended \cup {r}
    /\ UNCHANGED <<loopVars, pending, local, transfers, stream, pos, fragment, io, queue, out, metric, history>>

-----------------------------------------------------------------------------
Init ==
    /\ connected = Conns
    /\ req = [r \in Requests |-> None]
    /\ active = [c \in Conns |-> [id \in Ids |-> None]]
    /\ cancelled = {}
    /\ pending = <<>> /\ local = <<>>
    /\ transfers = {} /\ ended = {}
    /\ stream = [r \in Requests |-> None]
    /\ pos = [r \in Requests |-> 0]
    /\ fragment = {}
    /\ io = None
    /\ queue = [c \in Conns |-> <<>>]
    /\ out = [c \in Conns |-> <<>>]
    /\ metric = [total |-> 0, active |-> 0, success |-> 0, errors |-> 0]
    /\ late = [r \in Requests |-> 0]
    /\ swallowed = {} /\ finished = {}

\* What the I/O thread does without hearing from a server.
IoStep ==
    \/ Drain \/ AddTransferFails
    \/ \E s \in Streams : AddTransfer(s)
    \/ \E keep \in BOOLEAN : TokenSend(keep)
    \/ DoneSend \/ ErrorSend \/ QueueErase \/ Reaped
    \/ \E r \in Requests : ReapOk(r) \/ ReapFailed(r)

Client(c) ==
    \/ \E id \in Ids : Chat(c, id) \/ Cancel(c, id)
    \/ \E id \in Ids, type \in {"error", "abort"} : Refuse(c, id, type)
    \/ Close(c)

Next ==
    \/ \E c \in Conns : Client(c) \/ RunLoop(c)
    \/ IoStep
    \/ \E r \in Requests : Token(r) \/ Fragment(r) \/ Finish(r) \/ Done(r) \/ ServerEnd(r)

\* The I/O thread and the loops keep running; no timeout is set on a transfer, so
\* nothing obliges a server to send its next line or to end.
Spec == Init /\ [][Next]_vars /\ WF_vars(IoStep) /\ \A c \in Conns : WF_vars(RunLoop(c))

-----------------------------------------------------------------------------
(* Properties.                                                             *)

Counter == 0..(Word - 1)

\* Every variable stays in its domain, and the I/O thread, its queues and its
\* transfers never hold a request twice.
TypeOK ==
    /\ connected \subseteq Conns
    /\ req \in [Requests -> [conn : Conns, id : Ids] \cup {None}]
    /\ active \in [Conns -> [Ids -> Requests \cup {None}]]
    /\ cancelled \subseteq Used /\ transfers \subseteq Used /\ ended \subseteq Used
    /\ pending \in Seq(Used) /\ local \in Seq(Used)
    /\ IsInjective(pending \o local)
    /\ transfers \cap ToSet(pending \o local) = {}
    /\ stream \in [Requests -> Streams \cup {None}]
    /\ pos \in [Requests -> Nat]
    /\ fragment \subseteq transfers
    /\ io \in Callbacks \cup {None} /\ (io # None => io.req \in Used)
    /\ queue \in [Conns -> Seq(Jobs)] /\ out \in [Conns -> Seq(Jobs)]
    /\ metric \in [total : Counter, active : Counter, success : Counter, errors : Counter]

\* The lines of r's stream whose content the client is to receive: the tokens the plugins
\* left something of, and over a WebSocket the tool calls, as far as they are parsed.
FromFragment(r, p) == \E q \in 1..(p - 1) : /\ stream[r].events[q] = "fragment"
                                            /\ \A i \in q..(p - 1) : stream[r].events[i] # "finish"
IsPiece(r, p) ==
    \/ /\ stream[r].events[p] = "token" /\ <<r, p>> \notin swallowed
       /\ io = None \/ io.req # r \/ io.step # "token" \/ p < pos[r]
    \/ stream[r].events[p] = "finish" /\ ~OnHttp(r) /\ FromFragment(r, p)
Pieces(r) == Keep([p \in 1..pos[r] |-> p], {p \in 1..pos[r] : IsPiece(r, p)})

\* What ends the answer to r first: a line of the stream, or a failure.
AnswerEnd(r) ==
    IF \E p \in 1..pos[r] : stream[r].events[p] \in {"done", "finish"} THEN "done"
    ELSE IF r \in finished \/ (io # None /\ io.req = r /\ io.step = "error") THEN "failed" ELSE "open"

\* The pieces of r's answer, and the messages that end it, among messages s.
PieceJobs(r)  == [type : {"token", "tool_call"}, req : {r}, at : Nat]
EndJobs(r)    == [type : Terminal \cup {"abort"}, req : {r}, at : Nat]
PiecesIn(s, r) == LET ms == Keep(s, PieceJobs(r)) IN [i \in DOMAIN ms |-> ms[i].at]
EndsIn(s, r)   == Keep(s, EndJobs(r))

\* What the client of r has received, and how it first heard of the end.
HeardPieces(r) == PiecesIn(out[Conn(r)], r)
HeardEnd(r) ==
    LET ends == EndsIn(out[Conn(r)], r)
    IN  IF ends = <<>> THEN "open" ELSE IF Head(ends).type = "done" THEN "done" ELSE "failed"

R == INSTANCE Reply WITH
    answer  <- [r \in Requests |-> IF req[r] = None THEN None
                                   ELSE [pieces |-> Pieces(r), end |-> AnswerEnd(r)]],
    heard   <- [r \in Requests |-> IF req[r] = None THEN None
                                   ELSE [pieces |-> HeardPieces(r), end |-> HeardEnd(r)]],
    stopped <- {r \in Used : r \in cancelled \/ Conn(r) \notin connected}

\* Every client receives the answer to its request as Reply says: the pieces the plugins
\* kept, in order, none twice; its end after all of them and as it was, unless the client
\* stopped the request; nothing after the end.  Callbacks, queues, loops and the closing of
\* responses implement that (process_chat, handle_chat, ws_send, RemoteUpstream).
ImplementsReply == R!Spec

\* Once the cancel flag of a request is set, at most one more of its tokens is queued:
\* the one whose callback had read the flag (on_token, cancel, handleConnectionClosed).
CancelQuiets == \A r \in Requests : late[r] <= 1

\* As long as neither on_done nor on_error has been called for a WebSocket's request, its
\* client can cancel it: active_requests has its flag (process_chat, the erase functors).
InFlightCancellable ==
    \A r \in Used : r \notin finished /\ ~OnHttp(r) => active[Conn(r)][req[r].id] = r

Quiet == pending = <<>> /\ local = <<>> /\ transfers = {} /\ io = None

\* When nothing is submitted or being transferred, the gauge active_requests is back
\* at zero: its two increments and two decrements per request balance (process_chat,
\* add_transfer, on_done, on_error, reap_finished).
GaugeSettles == Quiet => metric.active = 0

Answered(r) == r \in cancelled \/ Conn(r) \notin connected \/ Got(r, Terminal)

\* A request whose transfer has ended is answered with done or error, unless its client
\* has cancelled it or gone (reap_finished, on_done, on_error, ws_send).
EndedIsAnswered == \A r \in Requests : r \in ended ~> req[r] # None /\ Answered(r)

-----------------------------------------------------------------------------
(* What the documentation promises and the code does not keep.             *)

\* README.md:90 says that done means the request is complete, README.md:91 that error is
\* its failure: a client receives one of them once.
AnsweredOnce ==
    \A c \in Conns : \A i, j \in 1..Len(out[c]) :
        /\ out[c][i].req = out[c][j].req
        /\ {out[c][i].type, out[c][j].type} \subseteq Terminal
        => i = j

\* README.md:65 says that /metrics gives the error rate: no more errors are counted than
\* requests.
ErrorRate == metric.errors <= metric.total
=============================================================================
