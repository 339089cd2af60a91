-------------------------- MODULE ChatStreamProofs --------------------------
(***************************************************************************)
(* Proofs about ChatStream, for any number of connections and requests,    *)
(* any streams, and counters of any width.                                 *)
(***************************************************************************)
EXTENDS ChatStream, SequenceLemmas, FiniteSetTheorems

-----------------------------------------------------------------------------
(* The inductive invariant, in parts.                                      *)

\* Requests are numbered in the order they are made.
Numbered == \E k \in 0..MaxRequests : Used = 1..k

Rec == [conn : Conns, id : Ids]

\* What the I/O thread has in its hands.
Hands ==
    /\ pending \in Seq(Used) /\ local \in Seq(Used)
    /\ IsInjective(pending) /\ IsInjective(local)
    /\ ToSet(pending) \cap ToSet(local) = {}
    /\ transfers \cap (ToSet(pending) \cup ToSet(local)) = {}

\* The other variables stay in their domains.
Kinds ==
    /\ connected \subseteq Conns
    /\ req \in [Requests -> Rec \cup {None}]
    /\ active \in [Conns -> [Ids -> Requests \cup {None}]]
    /\ cancelled \subseteq Used /\ transfers \subseteq Used /\ ended \subseteq Used
    /\ stream \in [Requests -> Streams \cup {None}]
    /\ pos \in [Requests -> Nat]
    /\ fragment \subseteq transfers
    /\ io \in Callbacks \cup {None} /\ (io # None => io.req \in Used)
    /\ queue \in [Conns -> Seq(Jobs)] /\ out \in [Conns -> Seq(Jobs)]
    /\ metric \in [total : Counter, active : Counter, success : Counter, errors : Counter]

Basic == Hands /\ Kinds /\ Numbered

\* The I/O thread is in a callback of r, in one of these steps.
InCallback(r, steps) == io # None /\ io.step \in steps /\ io.req = r

\* A request that is active was made by its connection under its id.
InFlightUsed ==
    \A c \in Conns, id \in Ids :
        active[c][id] # None => /\ active[c][id] \in Used
                                /\ req[active[c][id]] = [conn |-> c, id |-> id]

\* A token is late once, in the callback that had read the flag before it was set.
LateOnce ==
    /\ late \in [Requests -> {0, 1}]
    /\ \A r \in Requests : late[r] = 1 => r \in cancelled /\ ~InCallback(r, {"token"})

\* A request is erased after its end, by the loop of its connection.
ErasedAfterEnd ==
    /\ \A c \in Conns : \A job \in ToSet(queue[c]) :
          /\ job.req \in Used /\ Conn(job.req) = c
          /\ job.type = "erase" => job.req \in finished
    /\ io # None /\ io.step = "erase" => io.req \in finished

DistinctIds == \A r, s \in Used : req[r] = req[s] => r = s

-----------------------------------------------------------------------------
(* The operators of the model.                                             *)

\* None is no request, no connection, no record of a request and no callback.
LEMMA NoneIsNothing ==
    /\ \A r \in Requests : r # None
    /\ \A c \in Conns : c # None
    /\ \A x \in Rec : x # None
    /\ \A x \in Callbacks : x # None
  BY NoneAssumption DEF Rec

\* A request that was made has a connection and an id.
LEMMA UsedFacts ==
    ASSUME Kinds, NEW r \in Used
    PROVE  r \in Requests /\ req[r] \in Rec /\ Conn(r) \in Conns /\ req[r].id \in Ids
  BY DEF Kinds, Used, Rec, Conn

\* A job, and whether it is a message.
LEMMA JobType ==
    ASSUME NEW r \in Requests, NEW type \in Types, NEW at \in Nat
    PROVE  /\ Job(r, type, at) \in Jobs
           /\ Job(r, type, at).req = r /\ Job(r, type, at).type = type
  BY DEF Job, Jobs

\* Messages are jobs.
LEMMA ToldAreJobs == Told \subseteq Jobs
  BY DEF Told, Jobs

\* The counters stay in their width.
LEMMA PlusType ==
    ASSUME NEW m \in Counter, NEW n \in Int
    PROVE  Plus(m, n) \in Counter
  BY BoundAssumption DEF Plus, Counter

\* The number of a new request.
Number == Cardinality(Used) + 1

\* A new request takes the next number, and its record is the only one that changes.
LEMMA NewRequest ==
    ASSUME Basic, NEW c \in Conns, NEW id \in Ids, Cardinality(Used) < MaxRequests,
           req' = [req EXCEPT ![Number] = [conn |-> c, id |-> id]]
    PROVE  /\ Number \in Requests /\ Number \notin Used /\ Used' = Used \cup {Number}
           /\ req' \in [Requests -> Rec \cup {None}]
           /\ req'[Number].conn = c /\ req'[Number].id = id
           /\ req'[Number] = [conn |-> c, id |-> id]
           /\ \A r \in Requests \ {Number} : req'[r] = req[r]
           /\ Numbered'
<1>1. PICK k \in 0..MaxRequests : Used = 1..k
  BY DEF Basic, Numbered
<1>2. Cardinality(Used) = k /\ MaxRequests \in Nat
  BY <1>1, FS_Interval, BoundAssumption
<1>3. Number = k + 1 /\ k + 1 \in Requests /\ k + 1 \notin Used /\ k + 1 \in 0..MaxRequests
  BY <1>1, <1>2 DEF Number, Requests
<1>4. req \in [Requests -> Rec \cup {None}] /\ [conn |-> c, id |-> id] \in Rec
  BY DEF Basic, Kinds, Rec
<1>5. /\ req' \in [Requests -> Rec \cup {None}]
      /\ req'[k + 1] = [conn |-> c, id |-> id]
      /\ \A r \in Requests \ {k + 1} : req'[r] = req[r]
  BY <1>3, <1>4
<1>6. req'[k + 1] # None
  BY <1>4, <1>5, NoneIsNothing
<1>7. Used' = Used \cup {k + 1}
  BY <1>3, <1>5, <1>6 DEF Used
<1>8. Used' = 1..(k + 1)
  BY <1>1, <1>2, <1>7
<1>9. Numbered'
  BY <1>3, <1>8 DEF Numbered
<1>10. req'[k + 1].conn = c /\ req'[k + 1].id = id
  BY <1>5
<1> QED
  BY <1>3, <1>5, <1>7, <1>9, <1>10

\* A job that is queued.
LEMMA QueuedFacts ==
    ASSUME Kinds, NEW r \in Used, NEW job \in Jobs, Queued(r, job)
    PROVE  /\ queue' \in [Conns -> Seq(Jobs)] /\ out' \in [Conns -> Seq(Jobs)]
           /\ \A d \in Conns : ToSet(queue'[d]) =
                 IF d = Conn(r) THEN ToSet(queue[d]) \cup {job} ELSE ToSet(queue[d])
<1>1. Conn(r) \in Conns
  BY UsedFacts
<1>2. queue[Conn(r)] \in Seq(Jobs) /\ queue \in [Conns -> Seq(Jobs)]
  BY <1>1 DEF Kinds
<1>3. /\ Append(queue[Conn(r)], job) \in Seq(Jobs)
      /\ ToSet(Append(queue[Conn(r)], job)) = ToSet(queue[Conn(r)]) \cup {job}
  BY <1>2, AppendAt, ToSetAppend
<1> QED
  BY <1>1, <1>2, <1>3 DEF Queued, Kinds

\* Every job in a queue was there, or is the new one.
LEMMA QueuedInto ==
    ASSUME Kinds, NEW r \in Used, NEW job \in Jobs, Queued(r, job)
    PROVE  \A d \in Conns : \A x \in ToSet(queue'[d]) :
              x \in ToSet(queue[d]) \/ (x = job /\ d = Conn(r))
  BY QueuedFacts

\* A message that is written to a response.
LEMMA WrittenFacts ==
    ASSUME Kinds, NEW r \in Used, NEW job \in Jobs, Written(r, job)
    PROVE  queue' = queue /\ out' \in [Conns -> Seq(Jobs)]
<1>1. Conn(r) \in Conns
  BY UsedFacts
<1>2. out[Conn(r)] \in Seq(Jobs) /\ out \in [Conns -> Seq(Jobs)]
  BY <1>1 DEF Kinds
<1>3. Append(out[Conn(r)], job) \in Seq(Jobs)
  BY <1>2, AppendAt
<1> QED
  BY <1>1, <1>2, <1>3 DEF Written

\* A message that is sent.
LEMMA SentFacts ==
    ASSUME Kinds, NEW r \in Used, NEW job \in Jobs, Sent(r, job)
    PROVE  /\ queue' \in [Conns -> Seq(Jobs)] /\ out' \in [Conns -> Seq(Jobs)]
           /\ \A d \in Conns : \A x \in ToSet(queue'[d]) :
                 x \in ToSet(queue[d]) \/ (x = job /\ d = Conn(r))
<1>1. CASE OnHttp(r)
  <2>1. queue' = queue /\ out' \in [Conns -> Seq(Jobs)]
    BY <1>1, WrittenFacts DEF Sent
  <2> QED
    BY <2>1 DEF Kinds
<1>2. CASE ~OnHttp(r)
  <2>1. Queued(r, job)
    BY <1>2 DEF Sent
  <2> QED
    BY <2>1, QueuedFacts
<1> QED
  BY <1>1, <1>2

\* The callback that the I/O thread is in belongs to a request that was made.
LEMMA IoFacts ==
    ASSUME Kinds, io # None
    PROVE  /\ io \in Callbacks /\ io.req \in Used /\ io.req \in Requests
           /\ pos[io.req] \in Nat
  BY DEF Kinds, Used

-----------------------------------------------------------------------------
(* Types.                                                                  *)

\* The type invariant, taken apart.
LEMMA TypeParts == TypeOK <=> Hands /\ Kinds
<1>1. ASSUME pending \in Seq(Used), local \in Seq(Used)
      PROVE  /\ ToSet(pending \o local) = ToSet(pending) \cup ToSet(local)
             /\ IsInjective(pending \o local) <=>
                   /\ IsInjective(pending) /\ IsInjective(local)
                   /\ ToSet(pending) \cap ToSet(local) = {}
  BY <1>1, Concatenation
<1> QED
  BY <1>1 DEF TypeOK, Hands, Kinds, Rec

\* The initial state.
LEMMA InitBasic == Init => Basic
<1> SUFFICES ASSUME Init PROVE Basic
  OBVIOUS
<1>1. 0 \in Counter
  BY BoundAssumption DEF Counter
<1>2. Kinds
  BY <1>1 DEF Init, Kinds
<1>3. Hands
  <2>1. ToSet(<<>>) = {} /\ IsInjective(<<>>)
    BY DEF ToSet, IsInjective
  <2> QED
    BY <2>1 DEF Init, Hands
<1>4. Numbered
  <2>1. Used = 1..0 /\ 0 \in 0..MaxRequests
    BY BoundAssumption DEF Init, Used
  <2> QED
    BY <2>1 DEF Numbered
<1> QED
  BY <1>2, <1>3, <1>4 DEF Basic

\* Every counter, after one was raised or lowered.
LEMMA MetricType ==
    ASSUME Kinds, NEW m \in {-1, 1}, NEW n \in {-1, 1}
    PROVE  /\ [metric EXCEPT !.total = Plus(@, m), !.active = Plus(@, n)]
                 \in [total : Counter, active : Counter, success : Counter, errors : Counter]
           /\ [metric EXCEPT !.success = Plus(@, m), !.active = Plus(@, n)]
                 \in [total : Counter, active : Counter, success : Counter, errors : Counter]
           /\ [metric EXCEPT !.errors = Plus(@, m), !.active = Plus(@, n)]
                 \in [total : Counter, active : Counter, success : Counter, errors : Counter]
           /\ [metric EXCEPT !.active = Plus(@, n)]
                 \in [total : Counter, active : Counter, success : Counter, errors : Counter]
<1>1. \A x \in Counter : Plus(x, m) \in Counter /\ Plus(x, n) \in Counter
  BY PlusType
<1> QED
  BY <1>1 DEF Kinds

\* A request that is submitted.
LEMMA ChatBasic ==
    ASSUME Basic, NEW c \in Conns, NEW id \in Ids, Chat(c, id)
    PROVE  Basic'
<1> DEFINE r == Number
<1>1. /\ r \in Requests /\ r \notin Used /\ Used' = Used \cup {r} /\ Numbered'
      /\ req' \in [Requests -> Rec \cup {None}]
  BY NewRequest DEF Chat, Number
<1>2. Hands /\ Kinds
  BY DEF Basic
<1>3. /\ pending' = Append(pending, r)
      /\ active' = IF c \in Http THEN active ELSE [active EXCEPT ![c][id] = r]
      /\ metric' = [metric EXCEPT !.total = Plus(@, 1), !.active = Plus(@, 1)]
      /\ UNCHANGED <<connected, cancelled, ioVars, queue, out>>
  BY DEF Chat, Number
<1> HIDE DEF r
<1>4. pending \in Seq(Used') /\ local \in Seq(Used')
  BY <1>1, <1>2, SeqMonotonic DEF Hands
<1>5. ToSet(pending) \subseteq Used /\ ToSet(local) \subseteq Used
  BY <1>2, ElementOfSeq, LenProperties DEF ToSet, Hands
<1>6. /\ pending' \in Seq(Used') /\ ToSet(pending') = ToSet(pending) \cup {r}
      /\ IsInjective(pending')
  BY <1>1, <1>2, <1>3, <1>4, <1>5, AppendAt, ToSetAppend, InjectiveAppend DEF Hands
<1>7. Hands'
  BY <1>1, <1>2, <1>3, <1>4, <1>5, <1>6 DEF Hands, Kinds, ioVars
<1>8. active' \in [Conns -> [Ids -> Requests \cup {None}]]
  BY <1>1, <1>2, <1>3 DEF Kinds
<1>9. Kinds'
  BY <1>1, <1>2, <1>3, <1>8, MetricType DEF Kinds, ioVars
<1> QED
  BY <1>1, <1>7, <1>9 DEF Basic

\* A request that is refused.
LEMMA RefuseBasic ==
    ASSUME Basic, NEW c \in Conns, NEW id \in Ids, NEW type \in {"error", "abort"},
           Refuse(c, id, type)
    PROVE  Basic'
<1> DEFINE r == Number
<1>1. /\ r \in Requests /\ r \notin Used /\ Used' = Used \cup {r} /\ Numbered'
      /\ req' \in [Requests -> Rec \cup {None}]
  BY NewRequest DEF Refuse, Number
<1>2. Hands /\ Kinds
  BY DEF Basic
<1>3. /\ out' = [out EXCEPT ![c] = Append(@, Job(r, type, 1))]
      /\ UNCHANGED <<connected, active, cancelled, pending, ioVars, queue, metric>>
  BY DEF Refuse, Number
<1> HIDE DEF r
<1>4. pending \in Seq(Used') /\ local \in Seq(Used')
  BY <1>1, <1>2, SeqMonotonic DEF Hands
<1>5. Hands'
  BY <1>1, <1>2, <1>3, <1>4 DEF Hands, ioVars
<1>6. Job(r, type, 1) \in Jobs
  BY <1>1, JobType DEF Types
<1>7. out' \in [Conns -> Seq(Jobs)]
  BY <1>2, <1>3, <1>6, AppendAt DEF Kinds
<1>8. Kinds'
  BY <1>1, <1>2, <1>3, <1>7 DEF Kinds, ioVars
<1> QED
  BY <1>1, <1>5, <1>8 DEF Basic

\* Steps that make no request and hand none on.
LEMMA QuietHands ==
    ASSUME Basic, UNCHANGED <<req, pending, local, transfers>>
    PROVE  Hands' /\ Numbered' /\ Used' = Used
  BY DEF Basic, Hands, Numbered, Used

\* cancel
LEMMA CancelBasic ==
    ASSUME Basic, NEW c \in Conns, NEW id \in Ids, InFlightUsed, Cancel(c, id)
    PROVE  Basic'
<1>1. Hands' /\ Numbered' /\ Used' = Used
  BY QuietHands DEF Cancel, ioVars
<1>2. active[c][id] \in Used
  BY DEF Cancel, InFlightUsed
<1>3. Job(active[c][id], "cancelled", 0) \in Jobs
  BY <1>2, JobType DEF Types, Used
<1>4. out' \in [Conns -> Seq(Jobs)]
  BY <1>3, AppendAt DEF Basic, Kinds, Cancel
<1>5. Kinds'
  BY <1>1, <1>2, <1>4 DEF Basic, Kinds, Cancel, ioVars
<1> QED
  BY <1>1, <1>5 DEF Basic

\* handleConnectionClosed
LEMMA CloseBasic ==
    ASSUME Basic, InFlightUsed, NEW c \in Conns, Close(c)
    PROVE  Basic'
<1>1. Hands' /\ Numbered' /\ Used' = Used
  BY QuietHands DEF Close, ioVars
<1>2. \A id \in Ids : active[c][id] # None => active[c][id] \in Used
  BY DEF InFlightUsed
<1>3. Kinds'
  BY <1>1, <1>2 DEF Basic, Kinds, Close, ioVars
<1> QED
  BY <1>1, <1>3 DEF Basic

\* The loop sends and erases what is queued.
LEMMA RunLoopBasic ==
    ASSUME Basic, NEW c \in Conns, RunLoop(c)
    PROVE  Basic'
<1>1. Hands' /\ Numbered' /\ Used' = Used
  BY QuietHands DEF RunLoop, ioVars
<1>2. queue[c] \in Seq(Jobs) /\ out[c] \in Seq(Jobs)
  BY DEF Basic, Kinds
<1>3. out[c] \o Keep(queue[c], Told) \in Seq(Jobs)
  BY <1>2, KeepFacts, ConcatProperties
<1>4. out' \in [Conns -> Seq(Jobs)] /\ queue' \in [Conns -> Seq(Jobs)]
  BY <1>3 DEF Basic, Kinds, RunLoop
<1>5. active' \in [Conns -> [Ids -> Requests \cup {None}]]
  BY DEF Basic, Kinds, RunLoop
<1>6. Kinds'
  BY <1>1, <1>4, <1>5 DEF Basic, Kinds, RunLoop, ioVars
<1> QED
  BY <1>1, <1>6 DEF Basic

\* drain_queue
LEMMA DrainBasic ==
    ASSUME Basic, Drain
    PROVE  Basic'
<1>1. Used' = Used /\ Numbered'
  BY DEF Basic, Drain, loopVars, Used, Numbered
<1>2. ToSet(<<>>) = {} /\ IsInjective(<<>>)
  BY DEF ToSet, IsInjective
<1>3. Hands'
  BY <1>1, <1>2 DEF Basic, Hands, Drain
<1>4. Kinds'
  BY <1>1 DEF Basic, Kinds, Drain, loopVars
<1> QED
  BY <1>1, <1>3, <1>4 DEF Basic

\* The next submission leaves the list that drain_queue took.
LEMMA NextSubmission ==
    ASSUME Basic, local # <<>>
    PROVE  /\ Head(local) \in Used /\ Head(local) \in Requests /\ pos[Head(local)] \in Nat
           /\ Head(local) \notin ToSet(pending) \cup transfers
           /\ Tail(local) \in Seq(Used) /\ IsInjective(Tail(local))
           /\ ToSet(local) = {Head(local)} \cup ToSet(Tail(local))
           /\ Head(local) \notin ToSet(Tail(local))
<1>1. local \in Seq(Used)
  BY DEF Basic, Hands
<1>2. /\ Tail(local) \in Seq(Used) /\ Head(local) \in Used
      /\ ToSet(local) = {Head(local)} \cup ToSet(Tail(local))
  BY <1>1, TailAt, ToSetTail
<1>3. IsInjective(Tail(local)) /\ Head(local) \notin ToSet(Tail(local))
  BY <1>1, InjectiveTail DEF Basic, Hands
<1>4. Head(local) \in Requests /\ pos[Head(local)] \in Nat
  BY <1>2 DEF Used, Basic, Kinds
<1> QED
  BY <1>2, <1>3, <1>4 DEF Basic, Hands

\* add_transfer
LEMMA AddTransferBasic ==
    ASSUME Basic, NEW s \in Streams, AddTransfer(s)
    PROVE  Basic'
<1>1. Used' = Used /\ Numbered'
  BY DEF Basic, AddTransfer, loopVars, Used, Numbered
<1>2. Hands'
  BY <1>1, NextSubmission DEF Basic, Hands, AddTransfer
<1>3. Kinds'
  BY <1>1, NextSubmission, MetricType DEF Basic, Kinds, AddTransfer, loopVars
<1> QED
  BY <1>1, <1>2, <1>3 DEF Basic

\* A callback on_error begins.
LEMMA OnErrorType ==
    ASSUME NEW r \in Used, NEW reap \in BOOLEAN, OnError(r, reap)
    PROVE  io' \in Callbacks /\ io'.req = r /\ io'.step = "error" /\ io'.reap = reap /\ io' # None
<1> DEFINE x == [step |-> "error", req |-> r, send |-> r \notin cancelled, reap |-> reap]
<1>1. x \in Callbacks /\ x.req = r /\ x.step = "error" /\ x.reap = reap
  BY DEF Callbacks, Used
<1>2. io' = x
  BY DEF OnError
<1> HIDE DEF x
<1> QED
  BY <1>1, <1>2, NoneIsNothing

\* add_transfer fails
LEMMA AddTransferFailsBasic ==
    ASSUME Basic, AddTransferFails
    PROVE  Basic'
<1>1. Used' = Used /\ Numbered'
  BY DEF Basic, AddTransferFails, loopVars, Used, Numbered
<1>2. Hands'
  BY <1>1, NextSubmission DEF Basic, Hands, AddTransferFails
<1>3. io' \in Callbacks /\ io'.req \in Used
  BY NextSubmission, OnErrorType DEF AddTransferFails
<1>4. Kinds'
  BY <1>1, <1>3 DEF Basic, Kinds, AddTransferFails, loopVars
<1> QED
  BY <1>1, <1>2, <1>4 DEF Basic

\* on_done begins.
LEMMA OnDoneType ==
    ASSUME NEW r \in Used, OnDone(r)
    PROVE  io' \in Callbacks /\ io'.req = r /\ io'.step = "done" /\ io'.reap = FALSE /\ io' # None
<1> DEFINE x == [step |-> "done", req |-> r, send |-> TRUE, reap |-> FALSE]
<1>1. x \in Callbacks /\ x.req = r /\ x.step = "done" /\ x.reap = FALSE
  BY DEF Callbacks, Used
<1>2. io' = x
  BY DEF OnDone
<1> HIDE DEF x
<1> QED
  BY <1>1, <1>2, NoneIsNothing

\* process_line takes the next line.
LEMMA NextLineFacts ==
    ASSUME Kinds, NEW r \in Requests, NEW l, NextLine(r, l)
    PROVE  /\ r \in Used /\ r \in transfers /\ pos' \in [Requests -> Nat]
           /\ pos[r] \in Nat /\ pos'[r] = pos[r] + 1
           /\ \A x \in Requests \ {r} : pos'[x] = pos[x]
  BY DEF NextLine, Kinds

\* A content token
LEMMA TokenBasic ==
    ASSUME Basic, NEW r \in Requests, Token(r)
    PROVE  Basic'
<1>1. Hands' /\ Numbered' /\ Used' = Used
  BY QuietHands DEF Token, loopVars
<1>2. r \in Used /\ pos' \in [Requests -> Nat]
  BY NextLineFacts DEF Basic, Token
<1> DEFINE x == [step |-> "token", req |-> r, send |-> TRUE, reap |-> FALSE]
<1>3. x \in Callbacks /\ x.req = r
  BY DEF Callbacks
<1>4. io' \in {x, None}
  BY DEF Token
<1> HIDE DEF x
<1>5. Kinds'
  BY <1>1, <1>2, <1>3, <1>4 DEF Basic, Kinds, Token, loopVars
<1> QED
  BY <1>1, <1>5 DEF Basic

\* A delta of a tool call
LEMMA FragmentBasic ==
    ASSUME Basic, NEW r \in Requests, Fragment(r)
    PROVE  Basic'
<1>1. Hands' /\ Numbered' /\ Used' = Used
  BY QuietHands DEF Fragment, loopVars
<1>2. r \in transfers /\ pos' \in [Requests -> Nat]
  BY NextLineFacts DEF Basic, Fragment
<1>3. Kinds'
  BY <1>1, <1>2 DEF Basic, Kinds, Fragment, loopVars
<1> QED
  BY <1>1, <1>3 DEF Basic

\* The end of a tool call
LEMMA FinishBasic ==
    ASSUME Basic, NEW r \in Requests, Finish(r)
    PROVE  Basic'
<1>1. Hands' /\ Numbered' /\ Used' = Used
  BY QuietHands DEF Finish, loopVars
<1>2. r \in Used /\ pos' \in [Requests -> Nat] /\ pos[r] \in Nat
  BY NextLineFacts DEF Basic, Finish
<1>3. io' \in Callbacks /\ io'.req = r
  BY <1>2, OnDoneType DEF Finish
<1>4. Job(r, "tool_call", pos[r] + 1) \in Jobs
  BY <1>2, JobType DEF Types
<1>5. queue' \in [Conns -> Seq(Jobs)] /\ out' \in [Conns -> Seq(Jobs)]
  <2>1. CASE Queued(r, Job(r, "tool_call", pos[r] + 1))
    BY <1>2, <1>4, <2>1, QueuedFacts DEF Basic
  <2>2. CASE UNCHANGED <<queue, out>>
    BY <2>2 DEF Basic, Kinds
  <2> QED
    BY <2>1, <2>2 DEF Finish
<1>6. Kinds'
  BY <1>1, <1>2, <1>3, <1>5 DEF Basic, Kinds, Finish, loopVars
<1> QED
  BY <1>1, <1>6 DEF Basic

\* [DONE]
LEMMA DoneBasic ==
    ASSUME Basic, NEW r \in Requests, Done(r)
    PROVE  Basic'
<1>1. Hands' /\ Numbered' /\ Used' = Used
  BY QuietHands DEF Done, loopVars
<1>2. r \in Used /\ pos' \in [Requests -> Nat]
  BY NextLineFacts DEF Basic, Done
<1>3. io' \in Callbacks /\ io'.req = r
  BY <1>2, OnDoneType DEF Done
<1>4. Kinds'
  BY <1>1, <1>2, <1>3 DEF Basic, Kinds, Done, loopVars
<1> QED
  BY <1>1, <1>4 DEF Basic

\* on_token sends what the plugins left.
LEMMA TokenSendBasic ==
    ASSUME Basic, NEW keep \in BOOLEAN, TokenSend(keep)
    PROVE  Basic'
<1> DEFINE job == Job(io.req, "token", pos[io.req])
<1>1. Hands' /\ Numbered' /\ Used' = Used
  BY QuietHands DEF TokenSend, loopVars
<1>2. io.req \in Used /\ io.req \in Requests /\ pos[io.req] \in Nat
  BY IoFacts DEF Basic, TokenSend
<1>3. job \in Jobs
  BY <1>2, JobType DEF Types
<1>4. Sent(io.req, job) \/ UNCHANGED <<queue, out>>
  BY DEF TokenSend
<1> HIDE DEF job
<1>5. queue' \in [Conns -> Seq(Jobs)] /\ out' \in [Conns -> Seq(Jobs)]
  <2>1. CASE Sent(io.req, job)
    BY <1>2, <1>3, <2>1, SentFacts DEF Basic
  <2>2. CASE UNCHANGED <<queue, out>>
    BY <2>2 DEF Basic, Kinds
  <2> QED
    BY <1>4, <2>1, <2>2
<1>6. Kinds'
  BY <1>1, <1>5 DEF Basic, Kinds, TokenSend, loopVars
<1> QED
  BY <1>1, <1>6 DEF Basic

\* What a callback does next, once its message is sent.
LEMMA NextStepType ==
    ASSUME Kinds, io # None, NEW reap \in BOOLEAN, io' = NextStep(io.req, reap)
    PROVE  /\ io' \in Callbacks \cup {None}
           /\ io' # None => /\ io'.req = io.req /\ io'.req \in Used
                            /\ io'.reap = io.reap
                            /\ \/ io'.step = "erase" /\ ~OnHttp(io.req)
                               \/ io'.step = "reap" /\ OnHttp(io.req) /\ reap
           /\ io' = None => OnHttp(io.req) /\ ~reap
<1>1. io \in Callbacks /\ io.req \in Used
  BY IoFacts
<1> DEFINE e == [io EXCEPT !.step = "erase"]
           f == [io EXCEPT !.step = "reap"]
<1>2. e \in Callbacks /\ e.req = io.req /\ e.step = "erase" /\ e.reap = io.reap
  BY <1>1 DEF Callbacks
<1>3. f \in Callbacks /\ f.req = io.req /\ f.step = "reap" /\ f.reap = io.reap
  BY <1>1 DEF Callbacks
<1>4. \/ io' = e /\ ~OnHttp(io.req)
      \/ io' = f /\ OnHttp(io.req) /\ reap
      \/ io' = None /\ OnHttp(io.req) /\ ~reap
  BY DEF NextStep
<1>5. e # None /\ f # None
  BY <1>2, <1>3, NoneIsNothing
<1> HIDE DEF e, f
<1> QED
  BY <1>1, <1>2, <1>3, <1>4, <1>5

\* on_done sends its message.
LEMMA DoneSendBasic ==
    ASSUME Basic, DoneSend
    PROVE  Basic'
<1> DEFINE job == Job(io.req, "done", pos[io.req])
<1>1. Hands' /\ Numbered' /\ Used' = Used
  BY QuietHands DEF DoneSend, loopVars
<1>2. io # None /\ io.req \in Used /\ io.req \in Requests /\ pos[io.req] \in Nat
  BY IoFacts DEF Basic, DoneSend
<1>3. job \in Jobs
  BY <1>2, JobType DEF Types
<1>4. Sent(io.req, job)
  BY DEF DoneSend
<1> HIDE DEF job
<1>5. queue' \in [Conns -> Seq(Jobs)] /\ out' \in [Conns -> Seq(Jobs)]
  BY <1>2, <1>3, <1>4, SentFacts DEF Basic
<1>6. io' \in Callbacks \cup {None} /\ (io' # None => io'.req \in Used)
  BY <1>2, NextStepType DEF Basic, DoneSend
<1>7. metric' \in [total : Counter, active : Counter, success : Counter, errors : Counter]
  BY MetricType DEF Basic, DoneSend
<1>8. Kinds'
  BY <1>1, <1>5, <1>6, <1>7 DEF Basic, Kinds, DoneSend, loopVars
<1> QED
  BY <1>1, <1>8 DEF Basic

\* on_error sends its message.
LEMMA ErrorSendBasic ==
    ASSUME Basic, ErrorSend
    PROVE  Basic'
<1> DEFINE job == Job(io.req, "error", pos[io.req] + 1)
<1>1. Hands' /\ Numbered' /\ Used' = Used
  BY QuietHands DEF ErrorSend, loopVars
<1>2. /\ io # None /\ io.req \in Used /\ io.req \in Requests /\ pos[io.req] \in Nat
      /\ io.reap \in BOOLEAN
  BY IoFacts DEF Basic, ErrorSend, Callbacks
<1>3. job \in Jobs
  BY <1>2, JobType DEF Types
<1>4. Sent(io.req, job) \/ UNCHANGED <<queue, out>>
  BY DEF ErrorSend
<1> HIDE DEF job
<1>5. queue' \in [Conns -> Seq(Jobs)] /\ out' \in [Conns -> Seq(Jobs)]
  <2>1. CASE Sent(io.req, job)
    BY <1>2, <1>3, <2>1, SentFacts DEF Basic
  <2>2. CASE UNCHANGED <<queue, out>>
    BY <2>2 DEF Basic, Kinds
  <2> QED
    BY <1>4, <2>1, <2>2
<1>6. io' \in Callbacks \cup {None} /\ (io' # None => io'.req \in Used)
  BY <1>2, NextStepType DEF Basic, ErrorSend
<1>7. metric' \in [total : Counter, active : Counter, success : Counter, errors : Counter]
  BY MetricType DEF Basic, ErrorSend
<1>8. Kinds'
  BY <1>1, <1>5, <1>6, <1>7 DEF Basic, Kinds, ErrorSend, loopVars
<1> QED
  BY <1>1, <1>8 DEF Basic

\* on_done and on_error end.
LEMMA QueueEraseBasic ==
    ASSUME Basic, QueueErase
    PROVE  Basic'
<1> DEFINE job == Job(io.req, "erase", 0)
           f == [io EXCEPT !.step = "reap"]
<1>1. Hands' /\ Numbered' /\ Used' = Used
  BY QuietHands DEF QueueErase, loopVars
<1>2. io # None /\ io \in Callbacks /\ io.req \in Used /\ io.req \in Requests
  BY IoFacts DEF Basic, QueueErase
<1>3. job \in Jobs
  BY <1>2, JobType DEF Types
<1>4. Queued(io.req, job)
  BY DEF QueueErase
<1>5. f \in Callbacks /\ f.req = io.req
  BY <1>2 DEF Callbacks
<1>6. io' \in {f, None}
  BY DEF QueueErase
<1> HIDE DEF job, f
<1>7. queue' \in [Conns -> Seq(Jobs)] /\ out' \in [Conns -> Seq(Jobs)]
  BY <1>2, <1>3, <1>4, QueuedFacts DEF Basic
<1>8. UNCHANGED <<connected, req, active, cancelled, transfers, ended, stream, pos, fragment, metric>>
  BY DEF QueueErase, loopVars
<1>9. io' \in Callbacks \cup {None} /\ (io' # None => io'.req \in Used)
  BY <1>2, <1>5, <1>6
<1>10. Kinds'
  BY <1>1, <1>7, <1>8, <1>9 DEF Basic, Kinds
<1> QED
  BY <1>1, <1>10 DEF Basic

\* reap_finished after a transfer that went well
LEMMA ReapOkBasic ==
    ASSUME Basic, NEW r \in Requests, ReapOk(r)
    PROVE  Basic'
<1>1. Used' = Used /\ Numbered'
  BY DEF Basic, ReapOk, loopVars, Used, Numbered
<1>2. Hands'
  BY <1>1 DEF Basic, Hands, ReapOk
<1>3. metric' \in [total : Counter, active : Counter, success : Counter, errors : Counter]
  BY MetricType DEF Basic, ReapOk
<1>4. Kinds'
  BY <1>1, <1>3 DEF Basic, Kinds, ReapOk, loopVars
<1> QED
  BY <1>1, <1>2, <1>4 DEF Basic

\* reap_finished calls on_error.
LEMMA ReapFailedBasic ==
    ASSUME Basic, NEW r \in Requests, ReapFailed(r)
    PROVE  Basic'
<1>1. Hands' /\ Numbered' /\ Used' = Used
  BY QuietHands DEF ReapFailed, loopVars
<1>2. r \in Used
  BY DEF Basic, Kinds, ReapFailed
<1>3. io' \in Callbacks /\ io'.req = r
  BY <1>2, OnErrorType DEF ReapFailed
<1>4. Kinds'
  BY <1>1, <1>2, <1>3 DEF Basic, Kinds, ReapFailed, loopVars
<1> QED
  BY <1>1, <1>4 DEF Basic

\* reap_finished after on_error
LEMMA ReapedBasic ==
    ASSUME Basic, Reaped
    PROVE  Basic'
<1>1. Used' = Used /\ Numbered'
  BY DEF Basic, Reaped, loopVars, Used, Numbered
<1>2. Hands'
  BY <1>1 DEF Basic, Hands, Reaped
<1>3. metric' \in [total : Counter, active : Counter, success : Counter, errors : Counter]
  BY MetricType DEF Basic, Reaped
<1>4. Kinds'
  BY <1>1, <1>3 DEF Basic, Kinds, Reaped, loopVars
<1> QED
  BY <1>1, <1>2, <1>4 DEF Basic

\* The transfer ends.
LEMMA ServerEndBasic ==
    ASSUME Basic, NEW r \in Requests, ServerEnd(r)
    PROVE  Basic'
<1>1. Hands' /\ Numbered' /\ Used' = Used
  BY QuietHands DEF ServerEnd, loopVars
<1>2. Kinds'
  BY <1>1 DEF Basic, Kinds, ServerEnd, loopVars
<1> QED
  BY <1>1, <1>2 DEF Basic

\* A step that changes nothing.
LEMMA StutterBasic ==
    ASSUME Basic, UNCHANGED vars
    PROVE  Basic'
<1>1. Hands' /\ Numbered' /\ Used' = Used
  BY QuietHands DEF vars, loopVars, ioVars
<1>2. Kinds'
  BY <1>1 DEF Basic, Kinds, vars, loopVars, ioVars
<1> QED
  BY <1>1, <1>2 DEF Basic

\* Every step keeps types, if the requests that are active were made.
LEMMA StepBasic ==
    ASSUME Basic, InFlightUsed, [Next]_vars
    PROVE  Basic'
<1>1. ASSUME NEW c \in Conns, Client(c) PROVE Basic'
  BY <1>1, ChatBasic, CancelBasic, RefuseBasic, CloseBasic DEF Client
<1>2. ASSUME NEW c \in Conns, RunLoop(c) PROVE Basic'
  BY <1>2, RunLoopBasic
<1>3. ASSUME IoStep PROVE Basic'
  BY <1>3, DrainBasic, AddTransferFailsBasic, AddTransferBasic, TokenSendBasic, DoneSendBasic,
     ErrorSendBasic, QueueEraseBasic, ReapedBasic, ReapOkBasic, ReapFailedBasic DEF IoStep
<1>4. ASSUME NEW r \in Requests, Token(r) \/ Fragment(r) \/ Finish(r) \/ Done(r) \/ ServerEnd(r)
      PROVE Basic'
  BY <1>4, TokenBasic, FragmentBasic, FinishBasic, DoneBasic, ServerEndBasic
<1> QED
  BY <1>1, <1>2, <1>3, <1>4, StutterBasic DEF Next

\* Steps of the I/O thread leave the loops of the connections alone.
LEMMA IoLeavesLoops ==
    ASSUME IoStep \/ UNCHANGED vars
              \/ \E r \in Requests : Token(r) \/ Fragment(r) \/ Finish(r) \/ Done(r) \/ ServerEnd(r)
    PROVE  UNCHANGED loopVars
  BY DEF IoStep, Drain, AddTransferFails, AddTransfer, TokenSend, DoneSend, ErrorSend, QueueErase,
         Reaped, ReapOk, ReapFailed, Token, Fragment, Finish, Done, ServerEnd, vars

\* Every step keeps the active requests made.
LEMMA StepInFlightUsed ==
    ASSUME Basic, InFlightUsed, [Next]_vars
    PROVE  InFlightUsed'
<1>1. ASSUME UNCHANGED <<req, active>> PROVE InFlightUsed'
  BY <1>1 DEF InFlightUsed, Used
<1>2. ASSUME NEW c \in Conns, NEW id \in Ids, Chat(c, id) PROVE InFlightUsed'
  <2> DEFINE r == Number
  <2>1. /\ r \in Requests /\ r \notin Used /\ Used' = Used \cup {r}
        /\ req'[r] = [conn |-> c, id |-> id]
        /\ \A x \in Requests \ {r} : req'[x] = req[x]
    BY <1>2, NewRequest DEF Chat, Number
  <2>2. active' = IF c \in Http THEN active ELSE [active EXCEPT ![c][id] = r]
    BY <1>2 DEF Chat, Number
  <2>3. active \in [Conns -> [Ids -> Requests \cup {None}]]
    BY DEF Basic, Kinds
  <2> HIDE DEF r
  <2>4. \A d \in Conns, i \in Ids : active'[d][i] = active[d][i] \/ (d = c /\ i = id /\ active'[d][i] = r)
    BY <2>2, <2>3
  <2>5. \A x \in Used : x # r /\ x \in Requests
    BY <2>1 DEF Used
  <2> SUFFICES ASSUME NEW d \in Conns, NEW i \in Ids, active'[d][i] # None
               PROVE  active'[d][i] \in Used' /\ req'[active'[d][i]] = [conn |-> d, id |-> i]
    BY DEF InFlightUsed
  <2>6. CASE active'[d][i] = active[d][i]
    BY <2>1, <2>5, <2>6 DEF InFlightUsed
  <2>7. CASE d = c /\ i = id /\ active'[d][i] = r
    BY <2>1, <2>7
  <2> QED
    BY <2>4, <2>6, <2>7
<1>3. ASSUME NEW c \in Conns, NEW id \in Ids, NEW type \in {"error", "abort"}, Refuse(c, id, type)
      PROVE  InFlightUsed'
  <2> DEFINE r == Number
  <2>1. /\ r \notin Used /\ Used' = Used \cup {r}
        /\ \A x \in Requests \ {r} : req'[x] = req[x]
    BY <1>3, NewRequest DEF Refuse, Number
  <2>2. active' = active
    BY <1>3 DEF Refuse
  <2> HIDE DEF r
  <2>3. \A x \in Used : x # r /\ x \in Requests
    BY <2>1 DEF Used
  <2> QED
    BY <2>1, <2>2, <2>3 DEF InFlightUsed
<1>4. ASSUME NEW c \in Conns, RunLoop(c) PROVE InFlightUsed'
  <2>1. active' = [active EXCEPT ![c] = [id \in Ids |-> IF id \in Erased(c) THEN None ELSE @[id]]]
        /\ req' = req
    BY <1>4 DEF RunLoop
  <2>2. active \in [Conns -> [Ids -> Requests \cup {None}]]
    BY DEF Basic, Kinds
  <2>3. \A d \in Conns, i \in Ids : active'[d][i] = active[d][i] \/ active'[d][i] = None
    BY <2>1, <2>2
  <2> QED
    BY <2>1, <2>3 DEF InFlightUsed, Used
<1>5. CASE \E c \in Conns : Client(c)
  <2>1. ASSUME NEW c \in Conns, (\E id \in Ids : Cancel(c, id)) \/ Close(c) PROVE InFlightUsed'
    BY <2>1, <1>1 DEF Cancel, Close
  <2> QED
    BY <1>2, <1>3, <1>5, <2>1 DEF Client
<1>6. CASE UNCHANGED loopVars
  BY <1>1, <1>6 DEF loopVars
<1> QED
  BY <1>4, <1>5, <1>6, IoLeavesLoops DEF Next

\* The behaviours of Spec, their fairness set aside.
LEMMA Steps == Spec => Init /\ [][Next]_vars
  BY PTL DEF Spec

\* Types hold always.
LEMMA AlwaysBasic == Spec => [](Basic /\ InFlightUsed)
<1>1. Init => Basic /\ InFlightUsed
  BY InitBasic DEF Init, InFlightUsed
<1>2. Basic /\ InFlightUsed /\ [Next]_vars => (Basic /\ InFlightUsed)'
  BY StepBasic, StepInFlightUsed
<1> QED
  BY <1>1, <1>2, Steps, PTL

\* Every variable stays in its domain; a request is submitted, taken and transferred once
\* and is in one of the three places only; the I/O thread is only ever in a callback of a
\* request that was made, and a parser holds tool calls of requests in transfer only.
THEOREM TypeCorrect == Spec => []TypeOK
<1>1. Basic => TypeOK
  BY TypeParts DEF Basic
<1> QED
  BY <1>1, AlwaysBasic, PTL

-----------------------------------------------------------------------------
(* Cancelled requests fall silent.                                         *)

\* Steps that queue no token, after which a cancelled request is in the callback of one only
\* if it was before.
LEMMA QuietLate ==
    ASSUME LateOnce, late' = late, cancelled \subseteq cancelled',
           \A r \in cancelled : InCallback(r, {"token"})' => InCallback(r, {"token"})
    PROVE  LateOnce'
  BY DEF LateOnce

\* on_token sends a token once after the flag was set.
LEMMA TokenSendLate ==
    ASSUME Basic, LateOnce, NEW keep \in BOOLEAN, TokenSend(keep)
    PROVE  LateOnce'
<1>1. io # None /\ io.step = "token" /\ io.req \in Requests /\ io' = None /\ cancelled' = cancelled
  BY IoFacts DEF Basic, TokenSend, loopVars
<1>2. late' = [late EXCEPT ![io.req] = IF keep /\ io.req \in cancelled THEN @ + 1 ELSE @]
  BY DEF TokenSend
<1>3. late \in [Requests -> {0, 1}] /\ late[io.req] = 0
  BY <1>1 DEF LateOnce, InCallback
<1> QED
  BY <1>1, <1>2, <1>3 DEF LateOnce, InCallback

\* Every step keeps late tokens to one.
LEMMA StepLateOnce ==
    ASSUME Basic, LateOnce, [Next]_vars
    PROVE  LateOnce'
<1>1. ASSUME late' = late, cancelled \subseteq cancelled', io' = io PROVE LateOnce'
  BY <1>1, QuietLate DEF InCallback
<1>2. ASSUME late' = late, cancelled' = cancelled, io' = None \/ io'.step # "token" PROVE LateOnce'
  BY <1>2, QuietLate DEF InCallback
<1>3. CASE UNCHANGED vars
  BY <1>1, <1>3 DEF vars, loopVars, ioVars, history
<1>4. CASE \E c \in Conns : Client(c) \/ RunLoop(c)
  BY <1>1, <1>4 DEF Client, Chat, Refuse, Cancel, Close, RunLoop, ioVars, history
<1>5. CASE IoStep
  <2>1. CASE Drain \/ \E s \in Streams : AddTransfer(s)
    BY <1>1, <2>1 DEF Drain, AddTransfer, loopVars, history
  <2>2. CASE AddTransferFails
    <3>1. io'.step # "token"
      BY <2>2, NextSubmission, OnErrorType DEF AddTransferFails
    <3> QED
      BY <1>2, <2>2, <3>1 DEF AddTransferFails, loopVars, history
  <2>3. CASE DoneSend
    <3>1. io' = None \/ io'.step # "token"
      BY <2>3, NextStepType DEF DoneSend, Basic
    <3> QED
      BY <1>2, <2>3, <3>1 DEF DoneSend, loopVars
  <2>4. CASE ErrorSend
    <3>1. io' = None \/ io'.step # "token"
      BY <2>4, NextStepType, IoFacts DEF ErrorSend, Basic, Callbacks
    <3> QED
      BY <1>2, <2>4, <3>1 DEF ErrorSend, loopVars
  <2>5. CASE QueueErase
    <3>1. io' = None \/ io' = [io EXCEPT !.step = "reap"]
      BY <2>5 DEF QueueErase
    <3>2. io \in Callbacks
      BY <2>5, IoFacts DEF Basic, QueueErase
    <3>3. io' = None \/ io'.step = "reap"
      BY <3>1, <3>2 DEF Callbacks
    <3> QED
      BY <1>2, <2>5, <3>3 DEF QueueErase, loopVars, history
  <2>6. CASE Reaped
    BY <1>2, <2>6 DEF Reaped, loopVars, history
  <2>7. ASSUME NEW r \in Requests, ReapOk(r) PROVE LateOnce'
    BY <1>1, <2>7 DEF ReapOk, loopVars, history
  <2>8. ASSUME NEW r \in Requests, ReapFailed(r) PROVE LateOnce'
    <3>1. io'.step # "token"
      BY <2>8, OnErrorType DEF ReapFailed, Basic, Kinds
    <3> QED
      BY <1>2, <2>8, <3>1 DEF ReapFailed, loopVars, history
  <2> QED
    BY <1>5, <2>1, <2>2, <2>3, <2>4, <2>5, <2>6, <2>7, <2>8, TokenSendLate DEF IoStep
<1>6. ASSUME NEW r \in Requests, Token(r) PROVE LateOnce'
  <2>1. late' = late /\ cancelled' = cancelled
    BY <1>6 DEF Token, loopVars, history
  <2>2. \/ r \in cancelled /\ io' = None
        \/ r \notin cancelled /\ io' = [step |-> "token", req |-> r, send |-> TRUE, reap |-> FALSE]
    BY <1>6 DEF Token
  <2>3. \A x \in cancelled : ~InCallback(x, {"token"})'
    BY <2>2 DEF InCallback
  <2> QED
    BY <2>1, <2>3, QuietLate
<1>7. ASSUME NEW r \in Requests, Finish(r) \/ Done(r) PROVE LateOnce'
  <2>1. r \in Used
    BY <1>7, NextLineFacts DEF Basic, Finish, Done
  <2>2. io'.step # "token"
    BY <1>7, <2>1, OnDoneType DEF Finish, Done
  <2> QED
    BY <1>2, <1>7, <2>2 DEF Finish, Done, loopVars, history
<1>8. ASSUME NEW r \in Requests, Fragment(r) \/ ServerEnd(r) PROVE LateOnce'
  BY <1>1, <1>8 DEF Fragment, ServerEnd, loopVars, history
<1> QED
  BY <1>3, <1>4, <1>5, <1>6, <1>7, <1>8 DEF Next

\* Once the cancel flag of a request is set, at most one more of its tokens is queued: the
\* one whose callback had read the flag (on_token, cancel, handleConnectionClosed).
THEOREM CancelledFallSilent == Spec => []CancelQuiets
<1>1. Init => LateOnce
  BY DEF Init, LateOnce
<1>2. Basic /\ LateOnce /\ [Next]_vars => LateOnce'
  BY StepLateOnce
<1>3. LateOnce => CancelQuiets
  BY DEF LateOnce, CancelQuiets
<1> QED
  BY <1>1, <1>2, <1>3, AlwaysBasic, Steps, PTL

-----------------------------------------------------------------------------
(* Requests in flight can be cancelled.                                    *)

\* What a step may do to the queues of the loops, and to the callback of the I/O thread.
LEMMA QuietErase ==
    ASSUME ErasedAfterEnd, finished \subseteq finished', Used \subseteq Used',
           \A x \in Used : req'[x] = req[x],
           \A d \in Conns : \A job \in ToSet(queue'[d]) :
              \/ job \in ToSet(queue[d])
              \/ /\ job.req \in Used /\ Conn(job.req) = d
                 /\ job.type = "erase" => job.req \in finished',
           io' # None /\ io'.step = "erase" => io'.req \in finished'
    PROVE  ErasedAfterEnd'
<1>1. \A d \in Conns : \A job \in ToSet(queue'[d]) :
         job.req \in Used /\ req[job.req].conn = d /\ (job.type = "erase" => job.req \in finished')
  BY DEF ErasedAfterEnd, Conn
<1>2. \A d \in Conns : \A job \in ToSet(queue'[d]) : job.req \in Used' /\ req'[job.req].conn = d
  BY <1>1
<1> QED
  BY <1>1, <1>2 DEF ErasedAfterEnd, Conn

\* Steps that queue nothing and end no request.
LEMMA QuietQueue ==
    ASSUME ErasedAfterEnd, queue' = queue, finished' = finished, req' = req,
           io' = io \/ io' = None \/ io'.step # "erase"
    PROVE  ErasedAfterEnd'
<1>1. Used' = Used
  BY DEF Used
<1>2. io' # None /\ io'.step = "erase" => io'.req \in finished'
  BY DEF ErasedAfterEnd
<1> QED
  BY <1>1, <1>2, QuietErase

\* Steps of an event loop
LEMMA LoopErase ==
    ASSUME Basic, ErasedAfterEnd, NEW c \in Conns, Client(c) \/ RunLoop(c)
    PROVE  ErasedAfterEnd'
<1>1. ASSUME NEW id \in Ids, Chat(c, id) PROVE ErasedAfterEnd'
  <2>1. /\ Used \subseteq Used' /\ \A x \in Used : x # Number /\ x \in Requests
        /\ \A x \in Requests \ {Number} : req'[x] = req[x]
    BY <1>1, NewRequest DEF Chat, Number, Used
  <2>2. queue' = queue /\ io' = io /\ finished' = finished
    BY <1>1 DEF Chat, ioVars, history
  <2> QED
    BY <2>1, <2>2, QuietErase DEF ErasedAfterEnd
<1>2. ASSUME NEW id \in Ids, NEW type \in {"error", "abort"}, Refuse(c, id, type)
      PROVE  ErasedAfterEnd'
  <2>1. /\ Used \subseteq Used' /\ \A x \in Used : x # Number /\ x \in Requests
        /\ \A x \in Requests \ {Number} : req'[x] = req[x]
    BY <1>2, NewRequest DEF Refuse, Number, Used
  <2>2. queue' = queue /\ io' = io /\ finished \subseteq finished'
    BY <1>2 DEF Refuse, ioVars
  <2>3. io' # None /\ io'.step = "erase" => io'.req \in finished'
    BY <2>2 DEF ErasedAfterEnd
  <2> QED
    BY <2>1, <2>2, <2>3, QuietErase
<1>3. ASSUME (\E id \in Ids : Cancel(c, id)) \/ Close(c) PROVE ErasedAfterEnd'
  BY <1>3, QuietQueue DEF Cancel, Close, ioVars, history
<1>4. ASSUME RunLoop(c) PROVE ErasedAfterEnd'
  <2>1. queue' = [queue EXCEPT ![c] = <<>>] /\ io' = io /\ finished' = finished /\ req' = req
    BY <1>4 DEF RunLoop, ioVars, history
  <2>2. queue \in [Conns -> Seq(Jobs)] /\ ToSet(<<>>) = {}
    BY DEF Basic, Kinds, ToSet
  <2>3. \A d \in Conns : ToSet(queue'[d]) \subseteq ToSet(queue[d])
    BY <2>1, <2>2
  <2>4. Used' = Used
    BY <2>1 DEF Used
  <2> QED
    BY <2>1, <2>3, <2>4, QuietErase DEF ErasedAfterEnd
<1> QED
  BY <1>1, <1>2, <1>3, <1>4 DEF Client

\* Callbacks that send a message other than an erasure
LEMMA CallbackErase ==
    ASSUME Basic, ErasedAfterEnd, io # None, req' = req, NEW job \in Jobs,
           job.req = io.req, job.type # "erase",
           Sent(io.req, job) \/ UNCHANGED <<queue, out>>, finished \subseteq finished',
           io' # None /\ io'.step = "erase" => io'.req \in finished'
    PROVE  ErasedAfterEnd'
<1>1. io.req \in Used
  BY IoFacts DEF Basic
<1>2. \A d \in Conns : \A x \in ToSet(queue'[d]) :
         x \in ToSet(queue[d]) \/ (x = job /\ d = Conn(io.req))
  <2>1. CASE Sent(io.req, job)
    BY <1>1, <2>1, SentFacts DEF Basic
  <2>2. CASE UNCHANGED <<queue, out>>
    BY <2>2
  <2> QED
    BY <2>1, <2>2
<1>3. Used' = Used
  BY DEF Used
<1>4. \A d \in Conns : \A x \in ToSet(queue'[d]) :
         \/ x \in ToSet(queue[d])
         \/ x.req \in Used /\ Conn(x.req) = d /\ (x.type = "erase" => x.req \in finished')
  BY <1>1, <1>2
<1> QED
  BY <1>3, <1>4, QuietErase

\* Steps of the I/O thread
LEMMA IoErase ==
    ASSUME Basic, ErasedAfterEnd, IoStep
    PROVE  ErasedAfterEnd'
<1>1. CASE Drain \/ (\E s \in Streams : AddTransfer(s)) \/ Reaped \/ (\E r \in Requests : ReapOk(r))
  BY <1>1, QuietQueue DEF Drain, AddTransfer, Reaped, ReapOk, loopVars, history
<1>2. CASE AddTransferFails
  <2>1. io'.step # "erase"
    BY <1>2, NextSubmission, OnErrorType DEF AddTransferFails
  <2> QED
    BY <1>2, <2>1, QuietQueue DEF AddTransferFails, loopVars, history
<1>3. ASSUME NEW r \in Requests, ReapFailed(r) PROVE ErasedAfterEnd'
  <2>1. io'.step # "erase"
    BY <1>3, OnErrorType DEF ReapFailed, Basic, Kinds
  <2> QED
    BY <1>3, <2>1, QuietQueue DEF ReapFailed, loopVars, history
<1>4. ASSUME NEW keep \in BOOLEAN, TokenSend(keep) PROVE ErasedAfterEnd'
  <2> DEFINE job == Job(io.req, "token", pos[io.req])
  <2>1. io # None /\ io.req \in Requests /\ pos[io.req] \in Nat
    BY <1>4, IoFacts DEF Basic, TokenSend
  <2>2. job \in Jobs /\ job.req = io.req /\ job.type # "erase"
    BY <2>1, JobType DEF Types
  <2>3. /\ Sent(io.req, job) \/ UNCHANGED <<queue, out>>
        /\ io' = None /\ finished' = finished /\ req' = req
    BY <1>4 DEF TokenSend, loopVars
  <2> HIDE DEF job
  <2> QED
    BY <2>1, <2>2, <2>3, CallbackErase
<1>5. CASE DoneSend
  <2> DEFINE job == Job(io.req, "done", pos[io.req])
  <2>1. io # None /\ io.req \in Requests /\ pos[io.req] \in Nat
    BY <1>5, IoFacts DEF Basic, DoneSend
  <2>2. job \in Jobs /\ job.req = io.req /\ job.type # "erase"
    BY <2>1, JobType DEF Types
  <2>3. Sent(io.req, job) /\ finished' = finished \cup {io.req} /\ req' = req
    BY <1>5 DEF DoneSend, loopVars
  <2>4. io' # None => io'.req = io.req
    BY <1>5, NextStepType DEF DoneSend, Basic
  <2> HIDE DEF job
  <2> QED
    BY <2>1, <2>2, <2>3, <2>4, CallbackErase
<1>6. CASE ErrorSend
  <2> DEFINE job == Job(io.req, "error", pos[io.req] + 1)
  <2>1. io # None /\ io.req \in Requests /\ pos[io.req] \in Nat /\ io.reap \in BOOLEAN
    BY <1>6, IoFacts DEF Basic, ErrorSend, Callbacks
  <2>2. job \in Jobs /\ job.req = io.req /\ job.type # "erase"
    BY <2>1, JobType DEF Types
  <2>3. /\ Sent(io.req, job) \/ UNCHANGED <<queue, out>>
        /\ finished' = finished \cup {io.req} /\ req' = req
    BY <1>6 DEF ErrorSend, loopVars
  <2>4. io' # None => io'.req = io.req
    BY <1>6, <2>1, NextStepType DEF ErrorSend, Basic
  <2> HIDE DEF job
  <2> QED
    BY <2>1, <2>2, <2>3, <2>4, CallbackErase
<1>7. CASE QueueErase
  <2> DEFINE job == Job(io.req, "erase", 0)
  <2>1. io # None /\ io \in Callbacks /\ io.req \in Used /\ io.req \in Requests
    BY <1>7, IoFacts DEF Basic, QueueErase
  <2>2. job \in Jobs /\ job.req = io.req
    BY <2>1, JobType DEF Types
  <2>3. Queued(io.req, job) /\ finished' = finished /\ req' = req
    BY <1>7 DEF QueueErase, loopVars, history
  <2>4. io.req \in finished
    BY <1>7 DEF QueueErase, ErasedAfterEnd
  <2>5. io' = None \/ io' = [io EXCEPT !.step = "reap"]
    BY <1>7 DEF QueueErase
  <2>6. io' = None \/ io'.step # "erase"
    BY <2>1, <2>5 DEF Callbacks
  <2> HIDE DEF job
  <2>7. \A d \in Conns : \A x \in ToSet(queue'[d]) :
           x \in ToSet(queue[d]) \/ (x = job /\ d = Conn(io.req))
    BY <2>1, <2>2, <2>3, QueuedInto DEF Basic
  <2>8. Used' = Used
    BY <2>3 DEF Used
  <2>9. \A d \in Conns : \A x \in ToSet(queue'[d]) :
           \/ x \in ToSet(queue[d])
           \/ x.req \in Used /\ Conn(x.req) = d /\ (x.type = "erase" => x.req \in finished')
    BY <2>1, <2>2, <2>3, <2>4, <2>7
  <2> QED
    BY <2>3, <2>6, <2>8, <2>9, QuietErase
<1> QED
  BY <1>1, <1>2, <1>3, <1>4, <1>5, <1>6, <1>7 DEF IoStep

\* Every step erases only what has ended.
LEMMA StepErase ==
    ASSUME Basic, ErasedAfterEnd, [Next]_vars
    PROVE  ErasedAfterEnd'
<1>1. CASE UNCHANGED vars
  BY <1>1, QuietQueue DEF vars, loopVars, ioVars, history
<1>2. ASSUME NEW r \in Requests, Token(r) \/ Fragment(r) \/ ServerEnd(r) PROVE ErasedAfterEnd'
  <2>1. io' = io \/ io' = None \/ io' = [step |-> "token", req |-> r, send |-> TRUE, reap |-> FALSE]
    BY <1>2 DEF Token, Fragment, ServerEnd
  <2>2. io' = io \/ io' = None \/ io'.step # "erase"
    BY <2>1
  <2>3. queue' = queue /\ finished' = finished /\ req' = req
    BY <1>2 DEF Token, Fragment, ServerEnd, loopVars, history
  <2> QED
    BY <2>2, <2>3, QuietQueue
<1>3. ASSUME NEW r \in Requests, Done(r) PROVE ErasedAfterEnd'
  <2>1. io'.step # "erase"
    BY <1>3, NextLineFacts, OnDoneType DEF Basic, Done
  <2> QED
    BY <1>3, <2>1, QuietQueue DEF Done, loopVars, history
<1>4. ASSUME NEW r \in Requests, Finish(r) PROVE ErasedAfterEnd'
  <2> DEFINE job == Job(r, "tool_call", pos[r] + 1)
  <2>1. r \in Used /\ pos[r] \in Nat
    BY <1>4, NextLineFacts DEF Basic, Finish
  <2>2. job \in Jobs /\ job.req = r /\ job.type # "erase"
    BY <2>1, JobType DEF Types
  <2>3. Queued(r, job) \/ queue' = queue
    BY <1>4 DEF Finish
  <2>4. finished' = finished /\ req' = req /\ io'.step # "erase"
    BY <1>4, <2>1, OnDoneType DEF Finish, loopVars, history
  <2> HIDE DEF job
  <2>5. \A d \in Conns : \A x \in ToSet(queue'[d]) :
           \/ x \in ToSet(queue[d])
           \/ x.req \in Used /\ Conn(x.req) = d /\ (x.type = "erase" => x.req \in finished')
    <3>1. CASE Queued(r, job)
      <4>1. \A d \in Conns : \A x \in ToSet(queue'[d]) :
               x \in ToSet(queue[d]) \/ (x = job /\ d = Conn(r))
        BY <2>1, <2>2, <3>1, QueuedInto DEF Basic
      <4> QED
        BY <2>1, <2>2, <4>1
    <3> QED
      BY <2>3, <3>1
  <2>6. Used' = Used
    BY <2>4 DEF Used
  <2> QED
    BY <2>4, <2>5, <2>6, QuietErase
<1> QED
  BY <1>1, <1>2, <1>3, <1>4, LoopErase, IoErase DEF Next

\* Where clients do not use a request_id again, no two requests share connection and id.
LEMMA StepDistinctIds ==
    ASSUME ~ReuseIds, Basic, DistinctIds, [Next]_vars
    PROVE  DistinctIds'
<1>1. ASSUME req' = req PROVE DistinctIds'
  BY <1>1 DEF DistinctIds, Used
<1>2. ASSUME NEW c \in Conns, NEW id \in Ids, MayUse(c, id), Cardinality(Used) < MaxRequests,
             req' = [req EXCEPT ![Number] = [conn |-> c, id |-> id]]
      PROVE  DistinctIds'
  <2>1. /\ Number \notin Used /\ Used' = Used \cup {Number}
        /\ req'[Number] = [conn |-> c, id |-> id]
        /\ \A x \in Requests \ {Number} : req'[x] = req[x]
    BY <1>2, NewRequest
  <2>2. \A x \in Used : x \in Requests \ {Number} /\ req[x] # [conn |-> c, id |-> id]
    BY <1>2, <2>1 DEF MayUse, Used
  <2>3. \A x \in Used : req'[x] = req[x] /\ req'[x] # req'[Number]
    BY <2>1, <2>2
  <2> QED
    BY <2>1, <2>3 DEF DistinctIds
<1>3. ASSUME NEW c \in Conns, Client(c) \/ RunLoop(c) PROVE DistinctIds'
  <2>1. ASSUME NEW id \in Ids, Chat(c, id) PROVE DistinctIds'
    BY <1>2, <2>1 DEF Chat, Number
  <2>2. ASSUME NEW id \in Ids, NEW type \in {"error", "abort"}, Refuse(c, id, type)
        PROVE DistinctIds'
    BY <1>2, <2>2 DEF Refuse, Number
  <2>3. ASSUME (\E id \in Ids : Cancel(c, id)) \/ Close(c) \/ RunLoop(c) PROVE req' = req
    BY <2>3 DEF Cancel, Close, RunLoop
  <2> QED
    BY <1>1, <1>3, <2>1, <2>2, <2>3 DEF Client
<1>4. CASE UNCHANGED loopVars
  BY <1>1, <1>4 DEF loopVars
<1> QED
  BY <1>3, <1>4, IoLeavesLoops DEF Next

\* The loop of a connection erases a request from active_requests only after its end.
LEMMA StepCancellable ==
    ASSUME ~ReuseIds, Basic, ErasedAfterEnd, DistinctIds, InFlightCancellable, [Next]_vars
    PROVE  InFlightCancellable'
<1>1. /\ req \in [Requests -> Rec \cup {None}]
      /\ active \in [Conns -> [Ids -> Requests \cup {None}]]
  BY DEF Basic, Kinds
<1>2. \A r \in Used : r \in Requests /\ req[r].conn \in Conns /\ req[r].id \in Ids
  BY UsedFacts DEF Basic, Conn
<1>3. InFlightCancellable <=>
         \A r \in Used : r \notin finished /\ req[r].conn \notin Http
                            => active[req[r].conn][req[r].id] = r
  BY DEF InFlightCancellable, OnHttp, Conn
<1>4. ASSUME req' = req, active' = active, finished \subseteq finished'
      PROVE  InFlightCancellable'
  BY <1>3, <1>4 DEF InFlightCancellable, OnHttp, Conn, Used
<1>5. ASSUME NEW c \in Conns, NEW id \in Ids, Chat(c, id) PROVE InFlightCancellable'
  <2> DEFINE r == Number
  <2>1. /\ Used' = Used \cup {r} /\ req'[r] = [conn |-> c, id |-> id]
        /\ req'[r].conn = c /\ req'[r].id = id /\ r \notin Used
        /\ \A x \in Requests \ {r} : req'[x] = req[x]
    BY <1>5, NewRequest DEF Chat, Number
  <2>2. /\ active' = IF c \in Http THEN active ELSE [active EXCEPT ![c][id] = r]
        /\ finished' = finished
    BY <1>5 DEF Chat, Number, history
  <2>3. \A x \in Used : x \in Requests \ {r} /\ req[x] # [conn |-> c, id |-> id]
    BY <1>5, <2>1, <1>2 DEF Chat, MayUse
  <2> HIDE DEF r
  <2>4. \A x \in Used : req[x].conn # c \/ req[x].id # id
    BY <1>1, <1>2, <2>3 DEF Used, Rec
  <2>5. c \notin Http => active'[c][id] = r
    BY <1>1, <2>2
  <2>6. \A d \in Conns, i \in Ids : d # c \/ i # id => active'[d][i] = active[d][i]
    BY <1>1, <2>2
  <2> SUFFICES ASSUME NEW x \in Used', x \notin finished', req'[x].conn \notin Http
               PROVE  active'[req'[x].conn][req'[x].id] = x
    BY DEF InFlightCancellable, OnHttp, Conn
  <2>7. CASE x = r
    BY <2>1, <2>5, <2>7
  <2>8. CASE x \in Used
    BY <1>2, <1>3, <2>1, <2>2, <2>3, <2>4, <2>6, <2>8
  <2> QED
    BY <2>1, <2>7, <2>8
<1>6. ASSUME NEW c \in Conns, NEW id \in Ids, NEW type \in {"error", "abort"}, Refuse(c, id, type)
      PROVE  InFlightCancellable'
  <2> DEFINE r == Number
  <2>1. /\ Used' = Used \cup {r} /\ r \notin Used
        /\ \A x \in Requests \ {r} : req'[x] = req[x]
    BY <1>6, NewRequest DEF Refuse, Number
  <2>2. active' = active /\ finished' = finished \cup {r}
    BY <1>6 DEF Refuse, Number
  <2>3. \A x \in Used : x \in Requests \ {r}
    BY <2>1, <1>2
  <2> HIDE DEF r
  <2> QED
    BY <1>3, <2>1, <2>2, <2>3 DEF InFlightCancellable, OnHttp, Conn
<1>7. ASSUME NEW c \in Conns, RunLoop(c) PROVE InFlightCancellable'
  <2>1. /\ active' = [active EXCEPT ![c] = [id \in Ids |-> IF id \in Erased(c) THEN None ELSE @[id]]]
        /\ req' = req /\ finished' = finished
    BY <1>7 DEF RunLoop, history
  <2>2. queue[c] \in Seq(Jobs)
    BY DEF Basic, Kinds
  <2> SUFFICES ASSUME NEW r \in Used, r \notin finished, req[r].conn \notin Http
               PROVE  active'[req[r].conn][req[r].id] = r
    BY <2>1 DEF InFlightCancellable, OnHttp, Conn, Used
  <2>3. active[req[r].conn][req[r].id] = r
    BY <1>3
  <2>4. ASSUME req[r].conn = c PROVE req[r].id \notin Erased(c)
    <3>1. SUFFICES ASSUME NEW j \in 1..Len(queue[c]), queue[c][j].type = "erase",
                          req[queue[c][j].req].id = req[r].id
                   PROVE  FALSE
      BY DEF Erased
    <3>2. queue[c][j] \in ToSet(queue[c])
      BY <2>2, <3>1, LenProperties DEF ToSet
    <3>3. /\ queue[c][j].req \in Used /\ req[queue[c][j].req].conn = c
          /\ queue[c][j].req \in finished
      BY <3>1, <3>2 DEF ErasedAfterEnd, Conn
    <3>4. req[queue[c][j].req] \in Rec /\ req[r] \in Rec
      BY <3>3, UsedFacts DEF Basic
    <3>5. req[queue[c][j].req] = req[r]
      BY <2>4, <3>1, <3>3, <3>4 DEF Rec
    <3> QED
      BY <3>3, <3>5 DEF DistinctIds
  <2>5. CASE req[r].conn = c
    BY <1>1, <1>2, <2>1, <2>3, <2>4, <2>5
  <2>6. CASE req[r].conn # c
    BY <1>1, <1>2, <2>1, <2>3, <2>6
  <2> QED
    BY <2>5, <2>6
<1>8. ASSUME NEW c \in Conns, (\E id \in Ids : Cancel(c, id)) \/ Close(c)
      PROVE  req' = req /\ active' = active /\ finished \subseteq finished'
  BY <1>8 DEF Cancel, Close, history
<1>9. CASE \E c \in Conns : Client(c) \/ RunLoop(c)
  BY <1>4, <1>5, <1>6, <1>7, <1>8, <1>9 DEF Client
<1>10. CASE \/ IoStep \/ UNCHANGED vars
            \/ \E r \in Requests : Token(r) \/ Fragment(r) \/ Finish(r) \/ Done(r) \/ ServerEnd(r)
  <2>1. req' = req /\ active' = active
    BY <1>10, IoLeavesLoops DEF loopVars
  <2>2. finished \subseteq finished'
    BY <1>10 DEF IoStep, Drain, AddTransferFails, AddTransfer, TokenSend, DoneSend, ErrorSend,
       QueueErase, Reaped, ReapOk, ReapFailed, Token, Fragment, Finish, Done, ServerEnd, vars, history
  <2> QED
    BY <1>4, <2>1, <2>2
<1> QED
  BY <1>9, <1>10 DEF Next

\* As long as neither on_done nor on_error has been called for a WebSocket's request, its
\* client can cancel it (process_chat, the erase functors), if clients do not use a
\* request_id again: the erasure of the earlier request would take the later one's flag.
THEOREM CancelReaches == ASSUME ~ReuseIds PROVE Spec => []InFlightCancellable
<1>1. Init => ErasedAfterEnd /\ DistinctIds /\ InFlightCancellable
  <2>1. ToSet(<<>>) = {}
    BY DEF ToSet
  <2>2. Init => Used = {}
    BY DEF Init, Used
  <2> QED
    BY <2>1, <2>2 DEF Init, ErasedAfterEnd, DistinctIds, InFlightCancellable
<1>2. Basic /\ ErasedAfterEnd /\ [Next]_vars => ErasedAfterEnd'
  BY StepErase
<1>3. Basic /\ DistinctIds /\ [Next]_vars => DistinctIds'
  BY StepDistinctIds
<1>4. Basic /\ ErasedAfterEnd /\ DistinctIds /\ InFlightCancellable /\ [Next]_vars
         => InFlightCancellable'
  BY StepCancellable
<1> QED
  BY <1>1, <1>2, <1>3, <1>4, AlwaysBasic, Steps, PTL

-----------------------------------------------------------------------------
(* The gauge of active requests.                                           *)

\* The lines that end an answer, and the streams that hold one where they end well and none
\* where they fail.
EndLines(s) == {p \in 1..Len(s.events) : s.events[p] \in {"finish", "done"}}
Clean(s) == IF s.end = "ok" THEN \E p \in 1..Len(s.events) : EndLines(s) = {p} ELSE EndLines(s) = {}

EndParsed(r) == \E p \in EndLines(stream[r]) : p <= pos[r]
Waiting      == ToSet(pending) \cup ToSet(local)

\* reap_finished has called on_error of r, and the error message is behind it.
Reaping(r) == InCallback(r, {"erase", "reap"}) /\ io.reap

\* A request in transfer has ended once the line is parsed that ends its answer, or once
\* reap_finished has called on_error.
Transfer(r) ==
    /\ stream[r] \in Streams
    /\ pos[r] \in 0..Len(stream[r].events)
    /\ r \in ended => pos[r] = Len(stream[r].events)
    /\ r \in finished <=> (EndParsed(r) /\ ~InCallback(r, {"done"})) \/ Reaping(r)

\* The request of the callback the I/O thread is in.
InHand ==
    io # None =>
        /\ io.step \in {"token", "done"} => io.req \in transfers /\ ~io.reap
        /\ io.step = "done" => EndParsed(io.req)
        /\ io.step \in {"done", "error"} => io.req \notin finished
        /\ io.step \in {"erase", "reap"} => io.req \in finished
        /\ io.step = "reap" => io.reap
        /\ io.step = "error" /\ ~io.reap => io.req \notin transfers
        /\ io.reap => io.req \in transfers

\* Where a request is: submitted, in transfer, in a callback of the I/O thread, or ended.
Whereabouts ==
    /\ finished \subseteq Used
    /\ \A r \in Requests \ Used : pos[r] = 0
    /\ \A r \in Waiting :
          pos[r] = 0 /\ r \notin finished /\ r \notin ended /\ (io # None => io.req # r)
    /\ \A r \in Used \ finished : r \in Waiting \cup transfers \/ (io # None /\ io.req = r)
    /\ \A r \in transfers : Transfer(r)
    /\ InHand

\* The gauge counts the requests that have not ended and, a second time, the transfers.
Total   == Cardinality(Used \ finished) + Cardinality(transfers)
Counted == metric.active = Total % Word

\* A step after which a transfer of r is as it was.
LEMMA SameTransfer ==
    ASSUME NEW r \in Requests, Transfer(r), stream'[r] = stream[r], pos'[r] = pos[r],
           r \in ended' => r \in ended, r \in finished' <=> r \in finished,
           InCallback(r, {"done"})' <=> InCallback(r, {"done"}), Reaping(r)' <=> Reaping(r)
    PROVE  Transfer(r)'
  BY DEF Transfer, EndParsed

\* Steps that touch no transfer.
LEMMA QuietWhere ==
    ASSUME Whereabouts, UNCHANGED <<req, local, pending, transfers, ended, stream, pos, io, finished>>
    PROVE  Whereabouts'
<1>1. \A r \in transfers : Transfer(r)'
  BY DEF Whereabouts, Transfer, EndParsed, InCallback, Reaping
<1>2. InHand'
  BY DEF Whereabouts, InHand, EndParsed
<1> QED
  BY <1>1, <1>2 DEF Whereabouts, Waiting, Used

\* A request that is submitted or refused.
LEMMA NewWhere ==
    ASSUME Basic, Whereabouts, NEW c \in Conns, NEW id \in Ids, Cardinality(Used) < MaxRequests,
           req' = [req EXCEPT ![Number] = [conn |-> c, id |-> id]],
           UNCHANGED <<local, transfers, ended, stream, pos, io>>,
           \/ pending' = Append(pending, Number) /\ finished' = finished
           \/ pending' = pending /\ finished' = finished \cup {Number}
    PROVE  Whereabouts'
<1> DEFINE n == Number
<1>1. n \in Requests /\ n \notin Used /\ Used' = Used \cup {n}
  BY NewRequest
<1>2. \/ pending' = Append(pending, n) /\ finished' = finished
      \/ pending' = pending /\ finished' = finished \cup {n}
  OBVIOUS
<1> HIDE DEF n
<1>3. transfers \subseteq Used /\ ended \subseteq Used /\ (io # None => io.req \in Used)
  BY DEF Basic, Kinds
<1>4. \A r \in transfers : Transfer(r)'
  <2> SUFFICES ASSUME NEW r \in transfers PROVE Transfer(r)'
    OBVIOUS
  <2>1. r \in Requests /\ Transfer(r) /\ r # n
    BY <1>1, <1>3 DEF Whereabouts, Used
  <2>2. r \in finished' <=> r \in finished
    BY <1>2, <2>1
  <2> QED
    BY <2>1, <2>2, SameTransfer DEF InCallback, Reaping
<1>5. InHand'
  BY <1>1, <1>2, <1>3 DEF Whereabouts, InHand, EndParsed
<1>6. CASE pending' = Append(pending, n) /\ finished' = finished
  <2>1. pending \in Seq(Used') /\ n \in Used'
    BY <1>1, SeqMonotonic DEF Basic, Hands
  <2>2. ToSet(pending') = ToSet(pending) \cup {n}
    BY <1>6, <2>1, ToSetAppend
  <2>3. Waiting' = Waiting \cup {n}
    BY <2>2 DEF Waiting
  <2> QED
    BY <1>1, <1>3, <1>4, <1>5, <1>6, <2>3 DEF Whereabouts
<1>7. CASE pending' = pending /\ finished' = finished \cup {n}
  <2>1. Waiting' = Waiting /\ n \notin Waiting
    <3>1. Waiting \subseteq Used
      BY ElementOfSeq, LenProperties DEF Waiting, ToSet, Basic, Hands
    <3> QED
      BY <1>1, <1>7, <3>1 DEF Waiting
  <2> QED
    BY <1>1, <1>3, <1>4, <1>5, <1>7, <2>1 DEF Whereabouts
<1> QED
  BY <1>2, <1>6, <1>7

\* Steps of an event loop
LEMMA LoopWhere ==
    ASSUME Basic, Whereabouts, NEW c \in Conns, Client(c) \/ RunLoop(c)
    PROVE  Whereabouts'
<1>1. ASSUME NEW id \in Ids, Chat(c, id) PROVE Whereabouts'
  BY <1>1, NewWhere DEF Chat, Number, ioVars, history
<1>2. ASSUME NEW id \in Ids, NEW type \in {"error", "abort"}, Refuse(c, id, type)
      PROVE Whereabouts'
  BY <1>2, NewWhere DEF Refuse, Number, ioVars
<1>3. ASSUME (\E id \in Ids : Cancel(c, id)) \/ Close(c) \/ RunLoop(c) PROVE Whereabouts'
  BY <1>3, QuietWhere DEF Cancel, Close, RunLoop, ioVars, history
<1> QED
  BY <1>1, <1>2, <1>3 DEF Client

\* A step of the I/O thread on the request in its hands: the transfers of the others are as
\* they were.
LEMMA OtherTransfers ==
    ASSUME Whereabouts, NEW r, io = None \/ io.req = r, io' = None \/ io'.req = r,
           \A x \in Requests \ {r} : /\ stream'[x] = stream[x] /\ pos'[x] = pos[x]
                                     /\ x \in ended' <=> x \in ended
                                     /\ x \in finished' <=> x \in finished
    PROVE  \A x \in (transfers \cap Requests) \ {r} : Transfer(x)'
<1> SUFFICES ASSUME NEW x \in (transfers \cap Requests) \ {r} PROVE Transfer(x)'
  OBVIOUS
<1>1. Transfer(x)
  BY DEF Whereabouts
<1> QED
  BY <1>1, SameTransfer DEF InCallback, Reaping

\* add_transfer
LEMMA AddTransferWhere ==
    ASSUME Basic, Whereabouts, NEW s \in Streams, AddTransfer(s),
           NEW h \in Requests, h = Head(local)
    PROVE  Whereabouts'
<1>1. transfers \subseteq Used /\ transfers \subseteq Requests
  BY DEF Basic, Kinds, Used
<1>2. /\ h \in Used /\ h \notin ToSet(pending) \cup transfers
      /\ ToSet(local) = {h} \cup ToSet(Tail(local)) /\ h \notin ToSet(Tail(local))
      /\ h \in Waiting
  BY NextSubmission DEF Waiting, AddTransfer
<1>4. /\ local # <<>> /\ io = None /\ io' = None /\ local' = Tail(local)
      /\ transfers' = transfers \cup {h} /\ stream' = [stream EXCEPT ![h] = s]
      /\ UNCHANGED <<req, pending, ended, pos, finished>>
  BY DEF AddTransfer, loopVars, history
<1>5. Waiting' = Waiting \ {h} /\ h \in Waiting /\ Used' = Used
  BY <1>2, <1>4 DEF Waiting, Used
<1>6. stream'[h] = s /\ \A x \in Requests \ {h} : stream'[x] = stream[x]
  BY <1>2, <1>4 DEF Basic, Kinds
<1>7. \A r \in transfers : Transfer(r)'
  BY <1>1, <1>2, <1>4, <1>6, OtherTransfers
<1>8. Transfer(h)'
  <2>1. pos[h] = 0 /\ h \notin finished /\ h \notin ended
    BY <1>5 DEF Whereabouts
  <2>2. s.events \in Seq(Lines)
    BY StreamAssumption
  <2>3. 0 \in 0..Len(s.events) /\ EndLines(s) \subseteq 1..Len(s.events)
    BY <2>2, LenProperties DEF EndLines
  <2>4. ~EndParsed(h)'
    <3>1. \A p \in EndLines(s) : ~(p <= 0)
      BY <2>3
    <3> QED
      BY <1>4, <1>6, <2>1, <3>1 DEF EndParsed
  <2> QED
    BY <1>4, <1>6, <2>1, <2>3, <2>4 DEF Transfer, InCallback, Reaping
<1>9. InHand'
  BY <1>4 DEF InHand
<1>10. \A x \in transfers' : Transfer(x)'
  BY <1>4, <1>7, <1>8
<1>11. \A x \in Waiting' : pos'[x] = 0 /\ x \notin finished' /\ x \notin ended' /\ io' = None
  BY <1>4, <1>5 DEF Whereabouts
<1>12. \A x \in Used' \ finished' : x \in Waiting' \cup transfers'
  BY <1>4, <1>5 DEF Whereabouts
<1> QED
  BY <1>4, <1>5, <1>9, <1>10, <1>11, <1>12 DEF Whereabouts

\* Steps of the submissions' way into the transfers
LEMMA SubmissionWhere ==
    ASSUME Basic, Whereabouts, Drain \/ AddTransferFails \/ \E s \in Streams : AddTransfer(s)
    PROVE  Whereabouts'
<1>1. transfers \subseteq Used /\ transfers \subseteq Requests
  BY DEF Basic, Kinds, Used
<1>2. CASE Drain
  <2>1. ToSet(<<>>) = {} /\ io = None /\ io' = None
    BY <1>2 DEF ToSet, Drain
  <2>2. Waiting' = Waiting /\ Used' = Used
    BY <1>2, <2>1 DEF Drain, Waiting, Used, loopVars
  <2>3. \A r \in transfers : Transfer(r)'
    BY <1>2 DEF Drain, Whereabouts, Transfer, EndParsed, InCallback, Reaping, history
  <2> QED
    BY <1>2, <2>1, <2>2, <2>3 DEF Drain, Whereabouts, InHand, history
<1> DEFINE h == Head(local)
<1>3. ASSUME local # <<>>
      PROVE  /\ h \in Used /\ h \in Requests /\ h \notin ToSet(pending) \cup transfers
             /\ ToSet(local) = {h} \cup ToSet(Tail(local)) /\ h \notin ToSet(Tail(local))
             /\ h \in Waiting
  BY <1>3, NextSubmission DEF Waiting
<1>4. CASE AddTransferFails
  <2>1. /\ local # <<>> /\ io = None /\ OnError(h, FALSE) /\ local' = Tail(local)
        /\ UNCHANGED <<req, pending, transfers, ended, stream, pos, finished>>
    BY <1>4 DEF AddTransferFails, loopVars, history
  <2>2. io' \in Callbacks /\ io'.req = h /\ io'.step = "error" /\ io'.reap = FALSE /\ io' # None
    BY <1>3, <2>1, OnErrorType
  <2> HIDE DEF h
  <2>3. Waiting' = Waiting \ {h} /\ h \in Waiting /\ Used' = Used
    BY <1>3, <2>1 DEF Waiting, Used
  <2>4. \A r \in transfers : Transfer(r)'
    BY <1>1, <1>3, <2>1, <2>2, OtherTransfers
  <2>5. InHand'
    BY <1>3, <2>1, <2>2, <2>3 DEF InHand, Whereabouts
  <2> QED
    BY <1>3, <2>1, <2>2, <2>3, <2>4, <2>5 DEF Whereabouts
<1>5. ASSUME NEW s \in Streams, AddTransfer(s) PROVE Whereabouts'
  BY <1>3, <1>5, AddTransferWhere DEF AddTransfer
<1> QED
  BY <1>2, <1>4, <1>5

\* What a line of a stream does to the end of its answer
LEMMA NextLineWhere ==
    ASSUME Basic, Whereabouts, NEW r \in Requests, NEW l \in Lines, NextLine(r, l)
    PROVE  /\ r \in transfers /\ r \in Used /\ r \notin ended /\ io = None /\ stream[r] \in Streams
           /\ pos[r] \in Nat /\ pos'[r] = pos[r] + 1 /\ pos'[r] \in 1..Len(stream[r].events)
           /\ \A x \in Requests \ {r} : pos'[x] = pos[x]
           /\ pos'[r] \in EndLines(stream[r]) <=> l \in {"finish", "done"}
           /\ r \in finished <=> EndParsed(r)
<1>1. /\ r \in transfers /\ r \in Used /\ r \notin ended /\ io = None
      /\ pos[r] \in Nat /\ pos'[r] = pos[r] + 1 /\ \A x \in Requests \ {r} : pos'[x] = pos[x]
  BY NextLineFacts DEF NextLine, Basic
<1>2. Transfer(r)
  BY <1>1 DEF Whereabouts
<1>3. stream[r] \in Streams /\ (r \in finished <=> EndParsed(r))
  BY <1>1, <1>2 DEF Transfer, InCallback, Reaping
<1>4. stream[r].events \in Seq(Lines) /\ pos[r] < Len(stream[r].events)
      /\ stream[r].events[pos[r] + 1] = l
  BY <1>3, StreamAssumption DEF NextLine
<1>5. Len(stream[r].events) \in Nat
  BY <1>4, LenProperties
<1>6. pos'[r] \in 1..Len(stream[r].events)
  BY <1>1, <1>4, <1>5
<1>7. pos'[r] \in EndLines(stream[r]) <=> l \in {"finish", "done"}
  BY <1>1, <1>4, <1>6 DEF EndLines
<1> QED
  BY <1>1, <1>3, <1>6, <1>7

\* Lines that end no answer
LEMMA LineWhere ==
    ASSUME Basic, Whereabouts, NEW r \in Requests, Token(r) \/ Fragment(r)
    PROVE  Whereabouts'
<1>1. PICK l \in {"token", "fragment"} : NextLine(r, l)
  BY DEF Token, Fragment
<1>2. /\ r \in transfers /\ r \in Used /\ r \notin ended /\ io = None /\ stream[r] \in Streams
      /\ pos[r] \in Nat /\ pos'[r] = pos[r] + 1 /\ pos'[r] \in 1..Len(stream[r].events)
      /\ \A x \in Requests \ {r} : pos'[x] = pos[x]
      /\ pos'[r] \notin EndLines(stream[r])
      /\ r \in finished <=> EndParsed(r)
  BY <1>1, NextLineWhere DEF Lines
<1>3. UNCHANGED <<req, pending, local, transfers, ended, stream, finished>>
  BY DEF Token, Fragment, loopVars, history
<1>4. io' = None \/ io' = [step |-> "token", req |-> r, send |-> TRUE, reap |-> FALSE]
  BY <1>2 DEF Token, Fragment
<1>5. io' = None \/ (io'.step = "token" /\ io'.req = r /\ io'.reap = FALSE)
  BY <1>4
<1>6. transfers \subseteq Requests /\ Waiting' = Waiting /\ Used' = Used
  BY <1>3 DEF Basic, Kinds, Used, Waiting
<1>7. Transfer(r)'
  <2>1. EndLines(stream[r]) \subseteq 1..Len(stream[r].events)
    BY DEF EndLines
  <2>2. Len(stream[r].events) \in Nat
    BY <1>2, StreamAssumption, LenProperties
  <2>3. EndParsed(r)' <=> EndParsed(r)
    <3>1. \A p \in EndLines(stream[r]) : p \in Int /\ p # pos[r] + 1
      BY <1>2, <2>1
    <3>2. \A p \in EndLines(stream[r]) : p <= pos[r] + 1 <=> p <= pos[r]
      BY <1>2, <3>1
    <3> QED
      BY <1>2, <1>3, <3>2 DEF EndParsed
  <2>4. r \in finished' <=> (EndParsed(r)' /\ ~InCallback(r, {"done"})') \/ Reaping(r)'
    BY <1>2, <1>3, <1>5, <2>3 DEF InCallback, Reaping
  <2>5. pos'[r] \in 0..Len(stream[r].events)
    BY <1>2, <2>2
  <2> QED
    BY <1>2, <1>3, <2>4, <2>5 DEF Transfer
<1>8. \A x \in transfers \ {r} : Transfer(x)'
  BY <1>2, <1>3, <1>5, <1>6, OtherTransfers
<1>9. InHand'
  BY <1>2, <1>3, <1>5 DEF InHand
<1>10. \A x \in Waiting : x \in Requests \ {r}
  <2>1. Waiting \subseteq Used
    BY ElementOfSeq, LenProperties DEF Waiting, ToSet, Basic, Hands
  <2>2. r \notin Waiting
    BY <1>2 DEF Waiting, Basic, Hands
  <2> QED
    BY <2>1, <2>2 DEF Used
<1> QED
  BY <1>2, <1>3, <1>5, <1>6, <1>7, <1>8, <1>9, <1>10 DEF Whereabouts

\* Lines that end an answer: of a clean stream there is one.
LEMMA EndWhere ==
    ASSUME \A s \in Streams : Clean(s), Basic, Whereabouts, NEW r \in Requests, Finish(r) \/ Done(r)
    PROVE  Whereabouts'
<1>1. PICK l \in {"finish", "done"} : NextLine(r, l)
  BY DEF Finish, Done
<1>2. /\ r \in transfers /\ r \in Used /\ r \notin ended /\ io = None /\ stream[r] \in Streams
      /\ pos[r] \in Nat /\ pos'[r] = pos[r] + 1 /\ pos'[r] \in 1..Len(stream[r].events)
      /\ \A x \in Requests \ {r} : pos'[x] = pos[x]
      /\ pos'[r] \in EndLines(stream[r])
      /\ r \in finished <=> EndParsed(r)
  BY <1>1, NextLineWhere DEF Lines
<1>3. UNCHANGED <<req, pending, local, transfers, ended, stream, finished>>
  BY DEF Finish, Done, loopVars, history
<1>4. io'.req = r /\ io'.step = "done" /\ io'.reap = FALSE /\ io' # None
  BY <1>2, OnDoneType DEF Finish, Done
<1>5. transfers \subseteq Requests /\ Waiting' = Waiting /\ Used' = Used
  BY <1>3 DEF Basic, Kinds, Used, Waiting
<1>6. r \notin finished
  <2>1. PICK p \in 1..Len(stream[r].events) : EndLines(stream[r]) = {p}
    BY <1>2 DEF Clean
  <2>2. p = pos[r] + 1
    BY <1>2, <2>1
  <2>3. ~(p <= pos[r])
    BY <1>2, <2>2
  <2> QED
    BY <1>2, <2>1, <2>3 DEF EndParsed
<1>7. EndParsed(r)'
  <2>1. pos'[r] <= pos'[r]
    BY <1>2
  <2> QED
    BY <1>2, <1>3, <2>1 DEF EndParsed
<1>8. Transfer(r)'
  <2>1. Len(stream[r].events) \in Nat
    BY <1>2, StreamAssumption, LenProperties
  <2>2. pos'[r] \in 0..Len(stream[r].events)
    BY <1>2, <2>1
  <2> QED
    BY <1>2, <1>3, <1>4, <1>6, <2>2 DEF Transfer, InCallback, Reaping
<1>9. \A x \in transfers \ {r} : Transfer(x)'
  BY <1>2, <1>3, <1>4, <1>5, OtherTransfers
<1>10. InHand'
  BY <1>2, <1>3, <1>4, <1>6, <1>7 DEF InHand
<1>11. \A x \in Waiting : x \in Requests \ {r}
  <2>1. Waiting \subseteq Used
    BY ElementOfSeq, LenProperties DEF Waiting, ToSet, Basic, Hands
  <2>2. r \notin Waiting
    BY <1>2 DEF Waiting, Basic, Hands
  <2> QED
    BY <2>1, <2>2 DEF Used
<1> QED
  BY <1>2, <1>3, <1>4, <1>5, <1>8, <1>9, <1>10, <1>11 DEF Whereabouts

\* What is known of the callback the I/O thread is in
LEMMA InHandFacts ==
    ASSUME Basic, Whereabouts, NEW r, io # None, io.req = r
    PROVE  /\ r \in Used /\ r \in Requests /\ io.reap \in BOOLEAN
           /\ io.step \in {"token", "done", "error", "erase", "reap"}
           /\ r \notin Waiting /\ InHand /\ (r \in transfers => Transfer(r))
           /\ transfers \subseteq Requests /\ Waiting \subseteq Requests
<1>1. Waiting \subseteq Used
  BY ElementOfSeq, LenProperties DEF Waiting, ToSet, Basic, Hands
<1>2. io \in Callbacks /\ r \in Used
  BY IoFacts DEF Basic
<1> QED
  BY <1>1, <1>2 DEF Callbacks, Whereabouts, Basic, Kinds, Used

\* A step of a callback that leaves the streams and the transfers as they are, ends no other
\* request, and leaves what it ends ended.
LEMMA CallbackWhere ==
    ASSUME Basic, Whereabouts, NEW r, io # None, io.req = r,
           UNCHANGED <<req, pending, local, transfers, ended, stream, pos>>,
           finished' \in {finished, finished \cup {r}},
           io' = None \/ io'.req = r, InHand',
           r \notin finished' => r \in transfers,
           r \in transfers => Transfer(r)'
    PROVE  Whereabouts'
<1>1. r \in Used /\ r \notin Waiting /\ transfers \subseteq Requests /\ Waiting \subseteq Requests
  BY InHandFacts
<1>2. Used' = Used /\ Waiting' = Waiting
  BY DEF Used, Waiting
<1>3. \A x \in transfers \ {r} : Transfer(x)'
  BY <1>1, OtherTransfers
<1>4. \A x \in Waiting : x # r /\ pos'[x] = 0 /\ x \notin finished' /\ x \notin ended'
  BY <1>1 DEF Whereabouts
<1>5. \A x \in Used \ finished' : x \in Waiting \cup transfers
  BY <1>1 DEF Whereabouts
<1>6. finished' \subseteq Used /\ \A x \in Requests \ Used : pos'[x] = 0
  BY <1>1 DEF Whereabouts
<1> QED
  BY <1>1, <1>2, <1>3, <1>4, <1>5, <1>6 DEF Whereabouts

\* on_token sends its message.
LEMMA TokenSendWhere ==
    ASSUME Basic, Whereabouts, NEW keep \in BOOLEAN, TokenSend(keep)
    PROVE  Whereabouts'
<1>1. PICK r : r = io.req
  OBVIOUS
<1>2. /\ io # None /\ io.step = "token" /\ io' = None
      /\ UNCHANGED <<req, pending, local, transfers, ended, stream, pos, finished>>
  BY DEF TokenSend, loopVars
<1>3. r \in Requests /\ r \in transfers /\ Transfer(r)
  BY <1>1, <1>2, InHandFacts DEF InHand
<1>4. Transfer(r)'
  BY <1>2, <1>3, SameTransfer DEF InCallback, Reaping
<1>5. InHand'
  BY <1>2 DEF InHand
<1> QED
  BY <1>1, <1>2, <1>3, <1>4, <1>5, CallbackWhere

\* on_done sends its message.
LEMMA DoneSendWhere ==
    ASSUME Basic, Whereabouts, DoneSend
    PROVE  Whereabouts'
<1>1. PICK r : r = io.req
  OBVIOUS
<1>2. /\ io # None /\ io.step = "done" /\ finished' = finished \cup {r}
      /\ UNCHANGED <<req, pending, local, transfers, ended, stream, pos>>
  BY <1>1 DEF DoneSend, loopVars
<1>3. r \in Requests /\ r \in transfers /\ Transfer(r) /\ EndParsed(r) /\ ~io.reap
  BY <1>1, <1>2, InHandFacts DEF InHand
<1>4. io' # None => io'.req = r /\ io'.step = "erase" /\ ~io'.reap
  BY <1>1, <1>2, <1>3, NextStepType DEF DoneSend, Basic
<1>5. EndParsed(r)'
  BY <1>2, <1>3 DEF EndParsed
<1>6. Transfer(r)'
  BY <1>2, <1>3, <1>4, <1>5 DEF Transfer, InCallback
<1>7. InHand'
  BY <1>2, <1>4 DEF InHand
<1> QED
  BY <1>1, <1>2, <1>3, <1>4, <1>6, <1>7, CallbackWhere

\* on_error sends its message.
LEMMA ErrorSendWhere ==
    ASSUME Basic, Whereabouts, ErrorSend
    PROVE  Whereabouts'
<1>1. PICK r : r = io.req
  OBVIOUS
<1>2. /\ io # None /\ io.step = "error" /\ finished' = finished \cup {r}
      /\ UNCHANGED <<req, pending, local, transfers, ended, stream, pos>>
  BY <1>1 DEF ErrorSend, loopVars
<1>3. /\ r \in Requests /\ io.reap \in BOOLEAN /\ (r \in transfers <=> io.reap)
      /\ r \in transfers => Transfer(r)
  BY <1>1, <1>2, InHandFacts DEF InHand
<1>4. /\ io' # None => /\ io'.req = r /\ io'.reap = io.reap
                       /\ io'.step = "erase" \/ (io'.step = "reap" /\ io.reap)
      /\ io' = None => ~io.reap
  BY <1>1, <1>2, <1>3, NextStepType DEF ErrorSend, Basic
<1>5. r \in transfers => Transfer(r)'
  <2> SUFFICES ASSUME r \in transfers PROVE Transfer(r)'
    OBVIOUS
  <2>1. Reaping(r)'
    BY <1>3, <1>4 DEF Reaping, InCallback
  <2> QED
    BY <1>2, <1>3, <2>1 DEF Transfer
<1>6. InHand'
  BY <1>2, <1>3, <1>4 DEF InHand
<1> QED
  BY <1>1, <1>2, <1>4, <1>5, <1>6, CallbackWhere

\* on_done and on_error end.
LEMMA QueueEraseWhere ==
    ASSUME Basic, Whereabouts, QueueErase
    PROVE  Whereabouts'
<1>1. PICK r : r = io.req
  OBVIOUS
<1>2. /\ io # None /\ io.step = "erase"
      /\ UNCHANGED <<req, pending, local, transfers, ended, stream, pos, finished>>
      /\ io' = IF io.reap THEN [io EXCEPT !.step = "reap"] ELSE None
  BY DEF QueueErase, loopVars, history
<1>3. /\ r \in Requests /\ io.reap \in BOOLEAN /\ (io.reap => r \in transfers)
      /\ r \in transfers => Transfer(r)
      /\ r \in finished
  BY <1>1, <1>2, InHandFacts DEF InHand
<1>4. io \in Callbacks
  BY <1>2, IoFacts DEF Basic
<1>5. [io EXCEPT !.step = "reap"] # None
  <2>1. [io EXCEPT !.step = "reap"] \in Callbacks
    BY <1>4 DEF Callbacks
  <2> QED
    BY <2>1, NoneIsNothing
<1>6. \/ io' = None /\ ~io.reap
      \/ io' # None /\ io.reap /\ io'.req = r /\ io'.reap = io.reap /\ io'.step = "reap"
  BY <1>1, <1>2, <1>3, <1>4, <1>5 DEF Callbacks
<1>7. r \in transfers => Transfer(r)'
  <2>1. Reaping(r)' <=> Reaping(r)
    BY <1>1, <1>2, <1>6 DEF Reaping, InCallback
  <2>2. InCallback(r, {"done"})' <=> InCallback(r, {"done"})
    BY <1>2, <1>6 DEF InCallback
  <2> QED
    BY <1>2, <1>3, <2>1, <2>2, SameTransfer
<1>8. InHand'
  BY <1>2, <1>3, <1>6 DEF InHand
<1> QED
  BY <1>1, <1>2, <1>3, <1>6, <1>7, <1>8, CallbackWhere

\* reap_finished calls on_error: the answer has not ended, for no line of a clean stream
\* that fails ends it.
LEMMA ReapFailedWhere ==
    ASSUME \A s \in Streams : Clean(s), Basic, Whereabouts, NEW r \in Requests, ReapFailed(r)
    PROVE  Whereabouts'
<1>1. /\ io = None /\ r \in transfers /\ stream[r].end # "ok"
      /\ UNCHANGED <<req, pending, local, transfers, ended, stream, pos, finished>>
  BY DEF ReapFailed, loopVars, history
<1>2. Transfer(r) /\ r \in Used
  BY <1>1 DEF Whereabouts, Basic, Kinds
<1>3. io' # None /\ io'.req = r /\ io'.step = "error" /\ io'.reap = TRUE
  BY <1>2, OnErrorType DEF ReapFailed
<1>4. EndLines(stream[r]) = {}
  BY <1>1, <1>2 DEF Transfer, Clean
<1>5. ~EndParsed(r) /\ ~EndParsed(r)'
  BY <1>1, <1>4 DEF EndParsed
<1>6. r \notin finished
  BY <1>1, <1>2, <1>5 DEF Transfer, InCallback, Reaping
<1>7. Transfer(r)'
  BY <1>1, <1>2, <1>3, <1>5, <1>6 DEF Transfer, InCallback, Reaping
<1>8. InHand'
  BY <1>1, <1>3, <1>6 DEF InHand
<1>9. transfers \subseteq Requests /\ Used' = Used /\ Waiting' = Waiting /\ r \notin Waiting
  BY <1>1 DEF Basic, Hands, Kinds, Used, Waiting
<1>10. \A x \in transfers \ {r} : Transfer(x)'
  BY <1>1, <1>3, <1>9, OtherTransfers
<1>11. \A x \in Waiting : pos'[x] = 0 /\ x \notin finished' /\ x \notin ended' /\ x # r
  BY <1>1, <1>9 DEF Whereabouts
<1>12. \A x \in Used \ finished' : x \in Waiting \cup transfers
  BY <1>1 DEF Whereabouts
<1> QED
  BY <1>1, <1>3, <1>7, <1>8, <1>9, <1>10, <1>11, <1>12 DEF Whereabouts

\* Transfers that leave: their requests have ended.
LEMMA LeaveWhere ==
    ASSUME Basic, Whereabouts, NEW r \in finished, io = None \/ io.req = r, io' = None,
           transfers' = transfers \ {r},
           UNCHANGED <<req, pending, local, ended, stream, pos, finished>>
    PROVE  Whereabouts'
<1>1. transfers \subseteq Requests /\ Used' = Used /\ Waiting' = Waiting
  BY DEF Basic, Kinds, Used, Waiting
<1>2. \A x \in transfers \ {r} : Transfer(x)'
  BY <1>1, OtherTransfers
<1>3. \A x \in Used \ finished' : x \in Waiting \cup transfers'
  BY DEF Whereabouts
<1> QED
  BY <1>1, <1>2, <1>3 DEF Whereabouts, InHand

\* reap_finished after a clean stream that ended well: its answer has ended.
LEMMA ReapOkWhere ==
    ASSUME \A s \in Streams : Clean(s), Basic, Whereabouts, NEW r \in Requests, ReapOk(r)
    PROVE  Whereabouts'
<1>1. /\ io = None /\ io' = None /\ r \in transfers \cap ended /\ stream[r].end = "ok"
      /\ transfers' = transfers \ {r}
      /\ UNCHANGED <<req, pending, local, ended, stream, pos, finished>>
  BY DEF ReapOk, loopVars, history
<1>2. Transfer(r)
  BY <1>1 DEF Whereabouts
<1>3. PICK p \in 1..Len(stream[r].events) : EndLines(stream[r]) = {p}
  BY <1>1, <1>2 DEF Transfer, Clean
<1>4. pos[r] = Len(stream[r].events) /\ Len(stream[r].events) \in Nat
  BY <1>1, <1>2, StreamAssumption, LenProperties DEF Transfer
<1>5. EndParsed(r)
  BY <1>3, <1>4 DEF EndParsed
<1>6. r \in finished
  BY <1>1, <1>2, <1>5 DEF Transfer, InCallback
<1> QED
  BY <1>1, <1>6, LeaveWhere

\* reap_finished after on_error
LEMMA ReapedWhere ==
    ASSUME Basic, Whereabouts, Reaped
    PROVE  Whereabouts'
<1>1. PICK r : r = io.req
  OBVIOUS
<1>2. /\ io # None /\ io.step = "reap" /\ io' = None /\ transfers' = transfers \ {r}
      /\ UNCHANGED <<req, pending, local, ended, stream, pos, finished>>
  BY <1>1 DEF Reaped, loopVars, history
<1>3. r \in finished
  BY <1>1, <1>2, InHandFacts DEF InHand
<1> QED
  BY <1>1, <1>2, <1>3, LeaveWhere

\* The transfer ends.
LEMMA ServerEndWhere ==
    ASSUME Basic, Whereabouts, NEW r \in Requests, ServerEnd(r)
    PROVE  Whereabouts'
<1>1. /\ io = None /\ io' = None /\ r \in transfers /\ pos[r] = Len(stream[r].events)
      /\ ended' = ended \cup {r}
      /\ UNCHANGED <<req, pending, local, transfers, stream, pos, finished>>
  BY DEF ServerEnd, loopVars, history
<1>2. transfers \subseteq Requests /\ Used' = Used /\ Waiting' = Waiting /\ r \notin Waiting
  BY <1>1 DEF Basic, Hands, Kinds, Used, Waiting
<1>3. \A x \in transfers \ {r} : Transfer(x)'
  BY <1>1, <1>2, OtherTransfers
<1>4. Transfer(r)'
  BY <1>1 DEF Whereabouts, Transfer, EndParsed, InCallback, Reaping
<1> QED
  BY <1>1, <1>2, <1>3, <1>4 DEF Whereabouts, InHand

\* Every step keeps track of the requests, if the streams are clean.
LEMMA StepWhere ==
    ASSUME \A s \in Streams : Clean(s), Basic, Whereabouts, [Next]_vars
    PROVE  Whereabouts'
<1>1. CASE UNCHANGED vars
  BY <1>1, QuietWhere DEF vars, loopVars, ioVars, history
<1>2. CASE IoStep
  BY <1>2, SubmissionWhere, TokenSendWhere, DoneSendWhere, ErrorSendWhere, QueueEraseWhere,
     ReapedWhere, ReapOkWhere, ReapFailedWhere DEF IoStep
<1> QED
  BY <1>1, <1>2, LoopWhere, LineWhere, EndWhere, ServerEndWhere DEF Next

-----------------------------------------------------------------------------
(* Counting modulo Word.                                                   *)

\* Quotient and remainder
LEMMA Division ==
    ASSUME NEW n \in Int
    PROVE  n % Word \in 0..(Word - 1) /\ n \div Word \in Int /\ n = Word * (n \div Word) + (n % Word)
  BY BoundAssumption

\* The remainder is the only one.
LEMMA UniqueRemainder ==
    ASSUME NEW q \in Int, NEW p \in Int, NEW x \in 0..(Word - 1), NEW y \in 0..(Word - 1),
           Word * q + x = Word * p + y
    PROVE  x = y
<1>1. Word * (q - p) = y - x
  BY BoundAssumption
<1>2. CASE q = p
  BY <1>1, <1>2, BoundAssumption
<1>3. CASE q > p
  <2>1. PICK d \in Nat : q - p = 1 + d
    BY <1>3
  <2>2. Word * (q - p) = Word + Word * d /\ Word * d >= 0
    BY <2>1, BoundAssumption
  <2> QED
    BY <1>1, <2>2, BoundAssumption
<1>4. CASE q < p
  <2>1. PICK d \in Nat : p - q = 1 + d
    BY <1>4
  <2>2. Word * (q - p) = -Word - Word * d /\ Word * d >= 0
    BY <2>1, BoundAssumption
  <2> QED
    BY <1>1, <2>2, BoundAssumption
<1> QED
  BY <1>2, <1>3, <1>4

\* A counter that is raised or lowered counts one more or one less.
LEMMA PlusCounts ==
    ASSUME NEW n \in Int, NEW m \in {-1, 1}
    PROVE  Plus(n % Word, m) = (n + m) % Word
<1> DEFINE a == (n % Word) + m
<1>1. n % Word \in 0..(Word - 1) /\ n \div Word \in Int /\ n = Word * (n \div Word) + (n % Word)
  BY Division
<1>2. a \in Int /\ a % Word \in 0..(Word - 1) /\ a \div Word \in Int /\ a = Word * (a \div Word) + (a % Word)
  BY <1>1, Division
<1>3. /\ (n + m) % Word \in 0..(Word - 1) /\ (n + m) \div Word \in Int
      /\ n + m = Word * ((n + m) \div Word) + ((n + m) % Word)
  BY Division
<1>4. n + m = Word * (n \div Word) + a
  BY <1>1, BoundAssumption
<1>5. Word * (n \div Word) + Word * (a \div Word) = Word * ((n \div Word) + (a \div Word))
  BY <1>1, <1>2, BoundAssumption
<1> HIDE DEF a
<1>6. Word * ((n \div Word) + (a \div Word)) + (a % Word) = Word * ((n + m) \div Word) + ((n + m) % Word)
  BY <1>1, <1>2, <1>3, <1>4, <1>5, BoundAssumption
<1>7. (n \div Word) + (a \div Word) \in Int
  BY <1>1, <1>2
<1>8. a % Word = (n + m) % Word
  BY <1>2, <1>3, <1>6, <1>7, UniqueRemainder
<1> QED
  BY <1>8 DEF a, Plus

\* What the gauge counts is finite.
LEMMA TotalFinite ==
    ASSUME Basic
    PROVE  /\ IsFiniteSet(Used) /\ IsFiniteSet(Used \ finished) /\ IsFiniteSet(transfers)
           /\ Cardinality(Used \ finished) \in Nat /\ Cardinality(transfers) \in Nat
           /\ Total \in Nat
<1>1. PICK k \in 0..MaxRequests : Used = 1..k
  BY DEF Basic, Numbered
<1>2. IsFiniteSet(Used)
  BY <1>1, FS_Interval, BoundAssumption
<1>3. IsFiniteSet(Used \ finished) /\ IsFiniteSet(transfers)
  BY <1>2, FS_Subset DEF Basic, Kinds
<1> QED
  BY <1>2, <1>3, FS_CardinalityType DEF Total

\* Steps that change neither the gauge nor what it counts
LEMMA SameCount ==
    ASSUME Counted, metric' = metric, (Used \ finished)' = Used \ finished, transfers' = transfers
    PROVE  Counted'
  BY DEF Counted, Total

\* Steps that raise or lower the gauge
LEMMA GaugeMoves ==
    ASSUME Basic, Counted, NEW m \in {-1, 1}, metric'.active = Plus(metric.active, m),
           Total' = Total + m
    PROVE  Counted'
<1>1. Total \in Int
  BY TotalFinite
<1>2. Plus(Total % Word, m) = (Total + m) % Word
  BY <1>1, PlusCounts
<1> QED
  BY <1>2 DEF Counted

\* One more request, one fewer, one more transfer, one fewer
LEMMA TotalMoves ==
    ASSUME Basic
    PROVE  /\ \A r : r \notin Used \ finished /\ (Used \ finished)' = (Used \ finished) \cup {r}
                       /\ transfers' = transfers => Total' = Total + 1
           /\ \A r \in Used \ finished : (Used \ finished)' = (Used \ finished) \ {r}
                       /\ transfers' = transfers => Total' = Total - 1
           /\ \A r : r \notin transfers /\ transfers' = transfers \cup {r}
                       /\ (Used \ finished)' = Used \ finished => Total' = Total + 1
           /\ \A r \in transfers : transfers' = transfers \ {r}
                       /\ (Used \ finished)' = Used \ finished => Total' = Total - 1
<1>1. /\ IsFiniteSet(Used \ finished) /\ IsFiniteSet(transfers)
      /\ Cardinality(Used \ finished) \in Nat /\ Cardinality(transfers) \in Nat
  BY TotalFinite
<1>2. ASSUME NEW S, IsFiniteSet(S), Cardinality(S) \in Nat
      PROVE  /\ \A r : r \notin S => Cardinality(S \cup {r}) = Cardinality(S) + 1
             /\ \A r \in S : Cardinality(S \ {r}) = Cardinality(S) - 1
  BY <1>2, FS_AddElement, FS_RemoveElement
<1>3. /\ \A r : r \notin Used \ finished
                  => Cardinality((Used \ finished) \cup {r}) = Cardinality(Used \ finished) + 1
      /\ \A r \in Used \ finished :
            Cardinality((Used \ finished) \ {r}) = Cardinality(Used \ finished) - 1
  BY <1>1, <1>2
<1>4. /\ \A r : r \notin transfers
                  => Cardinality(transfers \cup {r}) = Cardinality(transfers) + 1
      /\ \A r \in transfers : Cardinality(transfers \ {r}) = Cardinality(transfers) - 1
  BY <1>1, <1>2
<1>5. ASSUME NEW r, r \notin Used \ finished, (Used \ finished)' = (Used \ finished) \cup {r},
             transfers' = transfers
      PROVE  Total' = Total + 1
  <2>1. Cardinality((Used \ finished)') = Cardinality(Used \ finished) + 1
    BY <1>3, <1>5
  <2> QED
    BY <1>1, <1>5, <2>1 DEF Total
<1>6. ASSUME NEW r \in Used \ finished, (Used \ finished)' = (Used \ finished) \ {r},
             transfers' = transfers
      PROVE  Total' = Total - 1
  <2>1. Cardinality((Used \ finished)') = Cardinality(Used \ finished) - 1
    BY <1>3, <1>6
  <2> QED
    BY <1>1, <1>6, <2>1 DEF Total
<1>7. ASSUME NEW r, r \notin transfers, transfers' = transfers \cup {r},
             (Used \ finished)' = Used \ finished
      PROVE  Total' = Total + 1
  <2>1. Cardinality((Used \ finished)') = Cardinality(Used \ finished)
    BY <1>7
  <2> QED
    BY <1>1, <1>4, <1>7, <2>1 DEF Total
<1>8. ASSUME NEW r \in transfers, transfers' = transfers \ {r},
             (Used \ finished)' = Used \ finished
      PROVE  Total' = Total - 1
  <2>1. Cardinality((Used \ finished)') = Cardinality(Used \ finished)
    BY <1>8
  <2> QED
    BY <1>1, <1>4, <1>8, <2>1 DEF Total
<1> QED
  BY <1>5, <1>6, <1>7, <1>8

\* Every step counts what it makes, starts, ends or reaps.
LEMMA StepCounted ==
    ASSUME \A s \in Streams : Clean(s), Basic, Whereabouts, Counted, [Next]_vars
    PROVE  Counted'
<1>1. /\ metric \in [total : Counter, active : Counter, success : Counter, errors : Counter]
      /\ transfers \subseteq Used /\ finished \subseteq Used
  BY DEF Basic, Kinds, Whereabouts
<1>2. ASSUME metric' = metric, req' = req, finished' = finished, transfers' = transfers
      PROVE  Counted'
  BY <1>2, SameCount DEF Used
<1>3. ASSUME NEW c \in Conns, NEW id \in Ids, Chat(c, id) PROVE Counted'
  <2>1. Number \notin Used /\ Used' = Used \cup {Number}
    BY <1>3, NewRequest DEF Chat, Number
  <2>2. /\ finished' = finished /\ transfers' = transfers
        /\ metric' = [metric EXCEPT !.total = Plus(@, 1), !.active = Plus(@, 1)]
    BY <1>3 DEF Chat, ioVars, history
  <2>3. metric'.active = Plus(metric.active, 1)
    BY <1>1, <2>2
  <2>4. (Used \ finished)' = (Used \ finished) \cup {Number} /\ Number \notin Used \ finished
    BY <1>1, <2>1, <2>2
  <2>5. Total' = Total + 1
    BY <2>2, <2>4, TotalMoves
  <2> QED
    BY <2>3, <2>5, GaugeMoves
<1>4. ASSUME NEW c \in Conns, NEW id \in Ids, NEW type \in {"error", "abort"}, Refuse(c, id, type)
      PROVE  Counted'
  <2>1. Number \notin Used /\ Used' = Used \cup {Number}
    BY <1>4, NewRequest DEF Refuse, Number
  <2>2. finished' = finished \cup {Number} /\ transfers' = transfers /\ metric' = metric
    BY <1>4 DEF Refuse, Number, ioVars
  <2>3. (Used \ finished)' = Used \ finished
    BY <1>1, <2>1, <2>2
  <2> QED
    BY <2>2, <2>3, SameCount
<1>5. ASSUME NEW c \in Conns, (\E id \in Ids : Cancel(c, id)) \/ Close(c) \/ RunLoop(c)
      PROVE  Counted'
  BY <1>2, <1>5 DEF Cancel, Close, RunLoop, ioVars, history
<1>6. ASSUME NEW s \in Streams, AddTransfer(s) PROVE Counted'
  <2>1. /\ finished' = finished /\ req' = req /\ transfers' = transfers \cup {Head(local)}
        /\ metric' = [metric EXCEPT !.active = Plus(@, 1)]
        /\ Head(local) \notin transfers
    BY <1>6, NextSubmission DEF AddTransfer, loopVars, history
  <2>2. metric'.active = Plus(metric.active, 1)
    BY <1>1, <2>1
  <2>3. (Used \ finished)' = Used \ finished
    BY <2>1 DEF Used
  <2>4. Total' = Total + 1
    BY <2>1, <2>3, TotalMoves
  <2> QED
    BY <2>2, <2>4, GaugeMoves
<1>7. CASE DoneSend \/ ErrorSend
  <2>1. /\ io # None /\ io.step \in {"done", "error"} /\ transfers' = transfers /\ req' = req
        /\ finished' = finished \cup {io.req}
        /\ \/ metric' = [metric EXCEPT !.success = Plus(@, 1), !.active = Plus(@, -1)]
           \/ metric' = [metric EXCEPT !.errors = Plus(@, 1), !.active = Plus(@, -1)]
    BY <1>7 DEF DoneSend, ErrorSend, loopVars
  <2>2. metric'.active = Plus(metric.active, -1)
    BY <1>1, <2>1
  <2>3. io.req \in Used \ finished
    BY <2>1, InHandFacts DEF InHand
  <2>4. (Used \ finished)' = (Used \ finished) \ {io.req}
    BY <2>1 DEF Used
  <2>5. Total' = Total - 1
    BY <2>1, <2>3, <2>4, TotalMoves
  <2>6. Total' = Total + (-1)
    BY <2>5, TotalFinite
  <2> QED
    BY <2>2, <2>6, GaugeMoves
<1>8. ASSUME NEW r, r \in transfers, transfers' = transfers \ {r}, req' = req, finished' = finished,
             \/ metric' = [metric EXCEPT !.success = Plus(@, 1), !.active = Plus(@, -1)]
             \/ metric' = [metric EXCEPT !.errors = Plus(@, 1), !.active = Plus(@, -1)]
      PROVE  Counted'
  <2>1. metric'.active = Plus(metric.active, -1)
    BY <1>1, <1>8
  <2>2. (Used \ finished)' = Used \ finished
    BY <1>8 DEF Used
  <2>3. Total' = Total - 1
    BY <1>8, <2>2, TotalMoves
  <2>4. Total' = Total + (-1)
    BY <2>3, TotalFinite
  <2> QED
    BY <2>1, <2>4, GaugeMoves
<1>9. ASSUME NEW r \in Requests, ReapOk(r) PROVE Counted'
  BY <1>8, <1>9 DEF ReapOk, loopVars, history
<1>10. CASE Reaped
  <2>1. io.req \in transfers
    BY <1>10, InHandFacts DEF InHand, Reaped
  <2> QED
    BY <1>8, <1>10, <2>1 DEF Reaped, loopVars, history
<1>11. CASE \/ Drain \/ AddTransferFails \/ (\E keep \in BOOLEAN : TokenSend(keep)) \/ QueueErase
            \/ (\E r \in Requests : ReapFailed(r)) \/ UNCHANGED vars
  BY <1>2, <1>11 DEF Drain, AddTransferFails, TokenSend, QueueErase, ReapFailed, vars, loopVars,
     ioVars, history
<1>12. ASSUME NEW r \in Requests, Token(r) \/ Fragment(r) \/ Finish(r) \/ Done(r) \/ ServerEnd(r)
       PROVE  Counted'
  BY <1>2, <1>12 DEF Token, Fragment, Finish, Done, ServerEnd, loopVars, history
<1>13. CASE IoStep
  BY <1>6, <1>7, <1>9, <1>10, <1>11, <1>13 DEF IoStep
<1>14. CASE \E c \in Conns : Client(c) \/ RunLoop(c)
  BY <1>3, <1>4, <1>5, <1>14 DEF Client
<1> QED
  BY <1>11, <1>12, <1>13, <1>14 DEF Next

\* When nothing is submitted or being transferred, the gauge active_requests is back at zero,
\* for counters of any width, if every stream holds one end where it ends well and none where
\* it fails: its two increments and two decrements per request balance (process_chat,
\* add_transfer, on_done, on_error, reap_finished).
THEOREM GaugeBalances == ASSUME \A s \in Streams : Clean(s) PROVE Spec => []GaugeSettles
<1>1. Init => Whereabouts /\ Counted
  <2> SUFFICES ASSUME Init PROVE Whereabouts /\ Counted
    OBVIOUS
  <2>1. ToSet(<<>>) = {}
    BY DEF ToSet
  <2>2. Used = {} /\ transfers = {} /\ metric.active = 0
    BY DEF Init, Used
  <2>3. Whereabouts
    BY <2>1, <2>2 DEF Init, Whereabouts, InHand, Waiting
  <2>4. Used \ finished = {} /\ Cardinality({}) = 0
    BY <2>2, FS_EmptySet
  <2>5. Total = 0
    BY <2>2, <2>4 DEF Total
  <2>6. 0 % Word = 0
    BY BoundAssumption
  <2> QED
    BY <2>2, <2>3, <2>5, <2>6 DEF Counted
<1>2. Basic /\ Whereabouts /\ [Next]_vars => Whereabouts'
  BY StepWhere
<1>3. Basic /\ Whereabouts /\ Counted /\ [Next]_vars => Counted'
  BY StepCounted
<1>4. Whereabouts /\ Counted => GaugeSettles
  <2> SUFFICES ASSUME Whereabouts, Counted, Quiet PROVE metric.active = 0
    BY DEF GaugeSettles
  <2>1. ToSet(<<>>) = {}
    BY DEF ToSet
  <2>2. Used \ finished = {} /\ transfers = {}
    BY <2>1 DEF Whereabouts, Waiting, Quiet
  <2>3. Cardinality({}) = 0
    BY FS_EmptySet
  <2>4. Total = 0 /\ 0 % Word = 0
    BY <2>2, <2>3, BoundAssumption DEF Total
  <2> QED
    BY <2>4 DEF Counted
<1> QED
  BY <1>1, <1>2, <1>3, <1>4, AlwaysBasic, Steps, PTL

-----------------------------------------------------------------------------
(* Reply.                                                                  *)

\* The streams that are clean and send no token after the line that ends the answer.
Tidy(s) == Clean(s) /\ \A p \in EndLines(s), q \in 1..Len(s.events) : s.events[q] = "token" => q < p

\* The line that ends the answer to r has been parsed.
EndSeen(r) == \E p \in 1..pos[r] : stream[r].events[p] \in {"done", "finish"}

Stopped(r) == r \in cancelled \/ Conn(r) \notin connected

\* The pieces of r that its loop has still to send, and all that the I/O thread has handed out.
Coming(r)    == PiecesIn(queue[Conn(r)], r)
Delivered(r) == HeardPieces(r) \o Coming(r)

\* The line that began the callback of the I/O thread was the last one parsed.
AtHand ==
    io # None =>
        /\ io.step = "token" => /\ pos[io.req] >= 1 /\ stream[io.req].events[pos[io.req]] = "token"
                                /\ io.req \notin finished
        /\ io.step = "done" => EndSeen(io.req)
        /\ io.step = "error" => ~EndSeen(io.req)

\* A parser holds a tool call from its first fragment to the line that finishes it.
Fragments == \A r \in transfers : r \in fragment <=> FromFragment(r, pos[r] + 1)

\* A token is swallowed after it was parsed, at the end of its callback.
SwallowedOnce ==
    /\ swallowed \subseteq Requests \X Nat
    /\ \A x \in swallowed : /\ x[2] <= pos[x[1]]
                            /\ ~(InCallback(x[1], {"token"}) /\ x[2] = pos[x[1]])

\* Messages are about requests that were made; nothing is queued for an HTTP request.
Addressed ==
    /\ \A c \in Conns : \A m \in ToSet(out[c]) : m.req \in Used
    /\ \A c \in Http : queue[c] = <<>>
    /\ io # None /\ io.step = "erase" => ~OnHttp(io.req)

\* The pieces that were handed out are those of the answer, in order; some may be missing
\* once the client has stopped the request.
Delivering(r) ==
    /\ Rising(Delivered(r)) /\ ToSet(Delivered(r)) \subseteq ToSet(Pieces(r))
    /\ ~Stopped(r) => Delivered(r) = Pieces(r)

\* The ends of r that its client has received, and those that its loop has still to send.
EndsHeard(r) == EndsIn(out[Conn(r)], r)
EndsNext(r)  == EndsIn(queue[Conn(r)], r)

\* An end is handed out once the answer has ended, and as it did; what the client hears of
\* it comes after all pieces.
Ending(r) ==
    /\ r \notin finished => EndsHeard(r) = <<>> /\ EndsNext(r) = <<>>
    /\ \A m \in ToSet(EndsHeard(r)) \cup ToSet(EndsNext(r)) : m.type = "done" <=> EndSeen(r)
    /\ EndsHeard(r) # <<>> => Coming(r) = <<>>

Parsing   == AtHand /\ Fragments /\ SwallowedOnce
Answering == Addressed /\ \A r \in Used : Delivering(r) /\ Ending(r)

\* The numbers of the pieces among messages.
LEMMA PiecesInDef ==
    ASSUME NEW s \in Seq(Jobs), NEW r
    PROVE  /\ Keep(s, PieceJobs(r)) \in Seq(Jobs) /\ PiecesIn(s, r) \in Seq(Nat)
           /\ Len(PiecesIn(s, r)) = Len(Keep(s, PieceJobs(r)))
           /\ \A i \in 1..Len(Keep(s, PieceJobs(r))) : PiecesIn(s, r)[i] = Keep(s, PieceJobs(r))[i].at
<1> DEFINE ms == Keep(s, PieceJobs(r))
<1>1. ms \in Seq(Jobs)
  BY KeepFacts
<1>2. Len(ms) \in Nat /\ DOMAIN ms = 1..Len(ms) /\ \A i \in 1..Len(ms) : ms[i] \in Jobs
  BY <1>1, LenProperties, ElementOfSeq
<1>3. PiecesIn(s, r) = [i \in 1..Len(ms) |-> ms[i].at]
  BY <1>2 DEF PiecesIn
<1> HIDE DEF ms
<1>4. \A i \in 1..Len(ms) : ms[i].at \in Nat
  BY <1>2 DEF Jobs
<1>5. PiecesIn(s, r) \in [1..Len(ms) -> Nat] /\ \A i \in 1..Len(ms) : PiecesIn(s, r)[i] = ms[i].at
  BY <1>3, <1>4
<1>6. PiecesIn(s, r) \in Seq(Nat) /\ Len(PiecesIn(s, r)) = Len(ms)
  BY <1>2, <1>5, FunctionIsSeq
<1> QED
  BY <1>1, <1>5, <1>6 DEF ms

\* There are none among no messages.
LEMMA InNothing == ASSUME NEW r PROVE PiecesIn(<<>>, r) = <<>> /\ EndsIn(<<>>, r) = <<>>
<1>1. <<>> \in Seq(Jobs) /\ Len(<<>>) = 0 /\ Keep(<<>>, PieceJobs(r)) = <<>>
  BY EmptySeq, KeepEmpty
<1>2. PiecesIn(<<>>, r) \in Seq(Nat) /\ Len(PiecesIn(<<>>, r)) = 0
  BY <1>1, PiecesInDef
<1> QED
  BY <1>2, EmptySeq, KeepEmpty DEF EndsIn

\* One more message
LEMMA InAppend ==
    ASSUME NEW s \in Seq(Jobs), NEW job \in Jobs, NEW r
    PROVE  /\ PiecesIn(Append(s, job), r) = IF job \in PieceJobs(r) THEN Append(PiecesIn(s, r), job.at)
                                            ELSE PiecesIn(s, r)
           /\ EndsIn(Append(s, job), r) = IF job \in EndJobs(r) THEN Append(EndsIn(s, r), job)
                                          ELSE EndsIn(s, r)
<1> DEFINE T == PieceJobs(r)
           a == Append(s, job)
<1>1. a \in Seq(Jobs) /\ Keep(a, T) = IF job \in T THEN Append(Keep(s, T), job) ELSE Keep(s, T)
  BY AppendAt, KeepAppend
<1>2. EndsIn(a, r) = IF job \in EndJobs(r) THEN Append(EndsIn(s, r), job) ELSE EndsIn(s, r)
  BY KeepAppend DEF EndsIn
<1>3. CASE job \notin T
  <2>1. PiecesIn(a, r) = PiecesIn(s, r)
    BY <1>1, <1>3 DEF PiecesIn
  <2> QED
    BY <1>2, <1>3, <2>1
<1>4. CASE job \in T
  <2> DEFINE ms == Keep(s, T)
             ns == Keep(a, T)
             p  == PiecesIn(s, r)
             q  == PiecesIn(a, r)
  <2>1. ms \in Seq(Jobs) /\ p \in Seq(Nat) /\ Len(p) = Len(ms) /\ \A i \in 1..Len(ms) : p[i] = ms[i].at
    BY PiecesInDef
  <2>2. q \in Seq(Nat) /\ Len(q) = Len(ns) /\ \A i \in 1..Len(ns) : q[i] = ns[i].at
    BY <1>1, PiecesInDef
  <2>3. ns = Append(ms, job) /\ job.at \in Nat
    BY <1>1, <1>4 DEF Jobs
  <2> HIDE DEF a, T, ms, ns, p, q
  <2>4. /\ Len(ns) = Len(ms) + 1 /\ Len(ms) \in Nat /\ ns[Len(ms) + 1] = job
        /\ \A i \in 1..Len(ms) : ns[i] = ms[i]
    BY <2>1, <2>3, AppendAt, LenProperties
  <2>5. /\ Append(p, job.at) \in Seq(Nat) /\ Len(Append(p, job.at)) = Len(p) + 1
        /\ Append(p, job.at)[Len(p) + 1] = job.at /\ \A i \in 1..Len(p) : Append(p, job.at)[i] = p[i]
    BY <2>1, <2>3, AppendAt
  <2>6. \A i \in 1..Len(q) : i \in 1..Len(ms) \/ i = Len(ms) + 1
    BY <2>2, <2>4
  <2>7. \A i \in 1..Len(q) : q[i] = Append(p, job.at)[i]
    BY <2>1, <2>2, <2>4, <2>5, <2>6
  <2>8. Len(q) = Len(Append(p, job.at))
    BY <2>1, <2>2, <2>4, <2>5
  <2>9. q = Append(p, job.at)
    BY <2>2, <2>5, <2>7, <2>8, SeqEqual
  <2> QED
    BY <1>2, <1>4, <2>9 DEF T, a, p, q
<1> QED
  BY <1>3, <1>4

\* The messages of a queue, after those that were sent
LEMMA InConcat ==
    ASSUME NEW s \in Seq(Jobs), NEW t \in Seq(Jobs), NEW r \in Requests
    PROVE  /\ s \o Keep(t, Told) \in Seq(Jobs)
           /\ PiecesIn(s \o Keep(t, Told), r) = PiecesIn(s, r) \o PiecesIn(t, r)
           /\ EndsIn(s \o Keep(t, Told), r) = EndsIn(s, r) \o EndsIn(t, r)
<1> DEFINE k == Keep(t, Told)
           u == s \o k
<1>1. k \in Seq(Jobs) /\ u \in Seq(Jobs)
  BY KeepFacts, ConcatProperties
<1>2. PieceJobs(r) \subseteq Told /\ EndJobs(r) \subseteq Told
  BY DEF PieceJobs, EndJobs, Told, Types, Terminal
<1>3. Keep(k, PieceJobs(r)) = Keep(t, PieceJobs(r)) /\ Keep(k, EndJobs(r)) = Keep(t, EndJobs(r))
  BY <1>2, KeepKeep
<1> HIDE DEF k
<1>4. /\ Keep(u, PieceJobs(r)) = Keep(s, PieceJobs(r)) \o Keep(t, PieceJobs(r))
      /\ Keep(u, EndJobs(r)) = Keep(s, EndJobs(r)) \o Keep(t, EndJobs(r))
  <2>1. Keep(u, PieceJobs(r)) = Keep(s, PieceJobs(r)) \o Keep(k, PieceJobs(r))
    BY <1>1, KeepConcat
  <2>2. Keep(u, EndJobs(r)) = Keep(s, EndJobs(r)) \o Keep(k, EndJobs(r))
    BY <1>1, KeepConcat
  <2> QED
    BY <1>3, <2>1, <2>2
<1> DEFINE ms == Keep(s, PieceJobs(r))
           ns == Keep(t, PieceJobs(r))
           ls == Keep(u, PieceJobs(r))
           p  == PiecesIn(s, r)
           q  == PiecesIn(t, r)
           l  == PiecesIn(u, r)
<1>5. ms \in Seq(Jobs) /\ p \in Seq(Nat) /\ Len(p) = Len(ms) /\ \A i \in 1..Len(ms) : p[i] = ms[i].at
  BY PiecesInDef
<1>6. ns \in Seq(Jobs) /\ q \in Seq(Nat) /\ Len(q) = Len(ns) /\ \A i \in 1..Len(ns) : q[i] = ns[i].at
  BY PiecesInDef
<1>7. l \in Seq(Nat) /\ Len(l) = Len(ls) /\ \A i \in 1..Len(ls) : l[i] = ls[i].at
  BY <1>1, PiecesInDef
<1>8. ls = ms \o ns
  BY <1>4
<1>9. EndsIn(u, r) = EndsIn(s, r) \o EndsIn(t, r)
  BY <1>4 DEF EndsIn
<1> HIDE DEF ms, ns, ls, p, q, l, u
<1>10. /\ Len(ls) = Len(ms) + Len(ns) /\ Len(ms) \in Nat /\ Len(ns) \in Nat
       /\ \A i \in 1..(Len(ms) + Len(ns)) : ls[i] = IF i <= Len(ms) THEN ms[i] ELSE ns[i - Len(ms)]
  BY <1>5, <1>6, <1>8, ConcatProperties, LenProperties
<1>11. /\ p \o q \in Seq(Nat) /\ Len(p \o q) = Len(p) + Len(q)
       /\ \A i \in 1..(Len(p) + Len(q)) : (p \o q)[i] = IF i <= Len(p) THEN p[i] ELSE q[i - Len(p)]
  <2>1. p \in Seq(Nat) /\ q \in Seq(Nat)
    BY <1>5, <1>6
  <2> QED
    BY <2>1, ConcatProperties
<1>12. Len(l) = Len(p \o q)
  BY <1>5, <1>6, <1>7, <1>10, <1>11
<1>13. ASSUME NEW i \in 1..Len(l) PROVE l[i] = (p \o q)[i]
  <2>0. l[i] = ls[i].at /\ i \in 1..(Len(ms) + Len(ns)) /\ i \in 1..(Len(p) + Len(q))
    BY <1>5, <1>6, <1>7, <1>10
  <2>1. CASE i <= Len(ms)
    <3>1. i \in 1..Len(ms) /\ i <= Len(p)
      BY <1>5, <1>10, <2>0, <2>1
    <3>2. ls[i] = ms[i] /\ (p \o q)[i] = p[i] /\ p[i] = ms[i].at
      BY <1>5, <1>10, <1>11, <2>0, <3>1
    <3> QED
      BY <2>0, <3>2
  <2>2. CASE ~(i <= Len(ms))
    <3>1. i - Len(ms) \in 1..Len(ns) /\ ~(i <= Len(p)) /\ Len(p) = Len(ms)
      BY <1>5, <1>7, <1>10, <2>2
    <3>2. ls[i] = ns[i - Len(ms)] /\ (p \o q)[i] = q[i - Len(p)] /\ q[i - Len(ms)] = ns[i - Len(ms)].at
      BY <1>6, <1>10, <1>11, <2>0, <2>2, <3>1
    <3> QED
      BY <2>0, <3>1, <3>2
  <2> QED
    BY <2>1, <2>2
<1>14. l = p \o q
  BY <1>7, <1>11, <1>12, <1>13, SeqEqual
<1> QED
  BY <1>1, <1>9, <1>14 DEF l, p, q, u, k

\* The lines of r that are pieces of its answer, of those that were parsed
PieceLines(r) == {p \in 1..pos[r] : IsPiece(r, p)}

\* The pieces of an answer are its piece lines, in order.
LEMMA PiecesFacts ==
    ASSUME NEW r, pos[r] \in Nat
    PROVE  /\ Pieces(r) = Keep(Numbers(pos[r]), PieceLines(r))
           /\ Pieces(r) \in Seq(Nat) /\ Rising(Pieces(r)) /\ ToSet(Pieces(r)) = PieceLines(r)
<1>1. Pieces(r) = Keep(Numbers(pos[r]), PieceLines(r))
  BY DEF Pieces, Numbers, PieceLines
<1>2. 1..pos[r] \cap PieceLines(r) = PieceLines(r)
  BY DEF PieceLines
<1> QED
  BY <1>1, <1>2, KeepRising

\* The answer to r is as it was.
SameAnswer(r) == Pieces(r)' = Pieces(r) /\ AnswerEnd(r)' = AnswerEnd(r) /\ (EndSeen(r)' <=> EndSeen(r))

\* The answer to r has failed, unless it ended before.
Failing(r) == r \in finished \/ InCallback(r, {"error"})

\* How an answer may end
LEMMA AnswerEnds ==
    ASSUME NEW r
    PROVE  /\ AnswerEnd(r) = IF EndSeen(r) THEN "done" ELSE IF Failing(r) THEN "failed" ELSE "open"
           /\ AnswerEnd(r)' = IF EndSeen(r)' THEN "done" ELSE IF Failing(r)' THEN "failed" ELSE "open"
  BY DEF AnswerEnd, EndSeen, InCallback, Failing

\* Steps that parse no line of r and do not touch its callback
LEMMA AnswerStays ==
    ASSUME NEW r \in Requests, pos[r] \in Nat, req'[r] = req[r], pos'[r] = pos[r],
           stream'[r] = stream[r] \/ pos[r] = 0,
           \A p \in 1..pos[r] : <<r, p>> \in swallowed' <=> <<r, p>> \in swallowed,
           InCallback(r, {"token"})' <=> InCallback(r, {"token"})
    PROVE  /\ Pieces(r)' = Pieces(r) /\ (EndSeen(r)' <=> EndSeen(r))
           /\ (Failing(r)' <=> Failing(r)) => AnswerEnd(r)' = AnswerEnd(r)
<1>1. ASSUME NEW p \in 1..pos[r] PROVE IsPiece(r, p)' <=> IsPiece(r, p)
  <2>1. stream'[r] = stream[r]
    BY <1>1
  <2>2. OnHttp(r)' <=> OnHttp(r)
    BY DEF OnHttp, Conn
  <2>3. FromFragment(r, p)' <=> FromFragment(r, p)
    BY <2>1 DEF FromFragment
  <2>4. /\ IsPiece(r, p) <=> \/ /\ stream[r].events[p] = "token" /\ <<r, p>> \notin swallowed
                                /\ ~InCallback(r, {"token"}) \/ p < pos[r]
                             \/ stream[r].events[p] = "finish" /\ ~OnHttp(r) /\ FromFragment(r, p)
        /\ IsPiece(r, p)' <=> \/ /\ stream'[r].events[p] = "token" /\ <<r, p>> \notin swallowed'
                                 /\ ~InCallback(r, {"token"})' \/ p < pos'[r]
                              \/ stream'[r].events[p] = "finish" /\ ~OnHttp(r)' /\ FromFragment(r, p)'
    BY DEF IsPiece, InCallback
  <2> QED
    BY <1>1, <2>1, <2>2, <2>3, <2>4
<1>2. PieceLines(r)' = PieceLines(r)
  BY <1>1 DEF PieceLines
<1>3. Pieces(r)' = Keep(Numbers(pos'[r]), PieceLines(r)') /\ Pieces(r) = Keep(Numbers(pos[r]), PieceLines(r))
  BY DEF Pieces, Numbers, PieceLines
<1>4. EndSeen(r)' <=> EndSeen(r)
  BY DEF EndSeen
<1> QED
  BY <1>2, <1>3, <1>4, AnswerEnds

\* A step that parses a line of r, when the I/O thread is in no callback
LEMMA LineParsed ==
    ASSUME NEW r \in Requests, NEW n \in Nat, pos[r] = n, pos'[r] = n + 1, io = None,
           req'[r] = req[r], stream'[r] = stream[r],
           \A p \in 1..n : <<r, p>> \in swallowed' <=> <<r, p>> \in swallowed
    PROVE  /\ Pieces(r)' = IF IsPiece(r, n + 1)' THEN Append(Pieces(r), n + 1) ELSE Pieces(r)
           /\ EndSeen(r)' <=> EndSeen(r) \/ stream[r].events[n + 1] \in {"done", "finish"}
<1>1. ASSUME NEW p \in 1..n PROVE IsPiece(r, p)' <=> IsPiece(r, p)
  <2>1. OnHttp(r)' <=> OnHttp(r)
    BY DEF OnHttp, Conn
  <2>2. FromFragment(r, p)' <=> FromFragment(r, p)
    BY DEF FromFragment
  <2>3. p < pos'[r]
    BY <1>1
  <2> QED
    BY <1>1, <2>1, <2>2, <2>3 DEF IsPiece
<1>2. n + 1 \in Nat /\ n + 1 \notin 1..n /\ \A p : p \in 1..(n + 1) <=> p \in 1..n \/ p = n + 1
  OBVIOUS
<1>3. /\ Pieces(r)' = Keep(Numbers(n + 1), PieceLines(r)')
      /\ Pieces(r) = Keep(Numbers(n), PieceLines(r))
  BY DEF Pieces, Numbers, PieceLines
<1>4. \A p \in 1..n : p \in PieceLines(r)' <=> p \in PieceLines(r)
  BY <1>1, <1>2 DEF PieceLines
<1>5. n + 1 \in PieceLines(r)' <=> IsPiece(r, n + 1)'
  BY <1>2 DEF PieceLines
<1>6. EndSeen(r)' <=> EndSeen(r) \/ stream[r].events[n + 1] \in {"done", "finish"}
  BY <1>2 DEF EndSeen
<1>7. Pieces(r)' = IF n + 1 \in PieceLines(r)' THEN Append(Pieces(r), n + 1) ELSE Pieces(r)
  <2>1. Keep(Numbers(n + 1), PieceLines(r)')
           = IF n + 1 \in PieceLines(r)' THEN Append(Keep(Numbers(n), PieceLines(r)), n + 1)
             ELSE Keep(Numbers(n), PieceLines(r))
    BY <1>4, KeepNumbers
  <2> QED
    BY <1>3, <2>1
<1> QED
  BY <1>5, <1>6, <1>7

\* The step that ends the callback of a token: what the plugins leave of it is a piece.
LEMMA TokenKept ==
    ASSUME NEW r \in Requests, NEW n \in Nat, pos[r] = n + 1, InCallback(r, {"token"}), io' = None,
           UNCHANGED <<req, pos, stream>>, stream[r].events[n + 1] = "token",
           <<r, n + 1>> \notin swallowed,
           \A p \in 1..n : <<r, p>> \in swallowed' <=> <<r, p>> \in swallowed
    PROVE  /\ Pieces(r)' = IF <<r, n + 1>> \notin swallowed' THEN Append(Pieces(r), n + 1)
                           ELSE Pieces(r)
           /\ \A p \in ToSet(Pieces(r)) : p < n + 1
<1>1. \A p : p \in 1..(n + 1) <=> p \in 1..n \/ p = n + 1
  OBVIOUS
<1>2. ASSUME NEW p \in 1..n PROVE IsPiece(r, p)' <=> IsPiece(r, p)
  <2>1. (OnHttp(r)' <=> OnHttp(r)) /\ (FromFragment(r, p)' <=> FromFragment(r, p))
    BY DEF OnHttp, Conn, FromFragment
  <2>2. p < pos[r] /\ p < pos'[r]
    BY <1>1, <1>2
  <2> QED
    BY <1>2, <2>1, <2>2 DEF IsPiece
<1>3. ~IsPiece(r, n + 1)
  BY <1>1 DEF IsPiece, InCallback
<1>4. IsPiece(r, n + 1)' <=> <<r, n + 1>> \notin swallowed'
  BY <1>1 DEF IsPiece
<1>5. /\ Pieces(r)' = Keep(Numbers(n + 1), PieceLines(r)')
      /\ Pieces(r) = Keep(Numbers(n + 1), PieceLines(r))
  BY <1>1 DEF Pieces, Numbers, PieceLines
<1>6. \A p \in 1..n : p \in PieceLines(r)' <=> p \in PieceLines(r)
  BY <1>1, <1>2 DEF PieceLines
<1>7. /\ n + 1 \in PieceLines(r)' <=> <<r, n + 1>> \notin swallowed'
      /\ n + 1 \notin PieceLines(r)
  BY <1>1, <1>3, <1>4 DEF PieceLines
<1>8. /\ Pieces(r)' = IF n + 1 \in PieceLines(r)' THEN Append(Keep(Numbers(n), PieceLines(r)), n + 1)
                      ELSE Keep(Numbers(n), PieceLines(r))
      /\ Pieces(r) = Keep(Numbers(n), PieceLines(r))
  <2>1. Keep(Numbers(n + 1), PieceLines(r)')
           = IF n + 1 \in PieceLines(r)' THEN Append(Keep(Numbers(n), PieceLines(r)), n + 1)
             ELSE Keep(Numbers(n), PieceLines(r))
    BY <1>6, KeepNumbers
  <2>2. Keep(Numbers(n + 1), PieceLines(r)) = Keep(Numbers(n), PieceLines(r))
    BY <1>7, KeepNumbers
  <2> QED
    BY <1>5, <2>1, <2>2
<1>9. ToSet(Pieces(r)) = PieceLines(r)
  BY PiecesFacts
<1>10. \A p \in PieceLines(r) : p < n + 1
  BY <1>1, <1>7 DEF PieceLines
<1> QED
  BY <1>7, <1>8, <1>9, <1>10

\* Steps that parse no line
LEMMA NothingParsed ==
    ASSUME Basic, Parsing, UNCHANGED <<pos, stream, swallowed>>,
           transfers' \subseteq transfers, fragment' = fragment \cap transfers',
           \A x \in Requests : InCallback(x, {"token"})' => InCallback(x, {"token"})
    PROVE  Fragments' /\ SwallowedOnce'
<1>1. ASSUME NEW x \in transfers' PROVE x \in fragment' <=> FromFragment(x, pos[x] + 1)'
  <2>1. x \in fragment <=> FromFragment(x, pos[x] + 1)
    BY <1>1 DEF Parsing, Fragments
  <2> QED
    BY <1>1, <2>1 DEF FromFragment
<1>2. SwallowedOnce'
  <2>1. \A x \in swallowed : x[1] \in Requests
    BY DEF Parsing, SwallowedOnce
  <2> QED
    BY <2>1 DEF Parsing, SwallowedOnce
<1> QED
  BY <1>1, <1>2 DEF Fragments

\* Steps that leave the I/O thread and its parsers alone
LEMMA QuietParsing ==
    ASSUME Basic, Parsing, UNCHANGED <<pos, stream, swallowed, transfers, fragment, io>>,
           io # None => (io.req \in finished' <=> io.req \in finished)
    PROVE  Parsing'
<1>1. Fragments' /\ SwallowedOnce'
  BY NothingParsed DEF InCallback, Basic, Kinds
<1>2. AtHand'
  BY DEF Parsing, AtHand, EndSeen
<1> QED
  BY <1>1, <1>2 DEF Parsing

\* Where the end of a clean stream is, it was not seen before, or there is none.
LEMMA NoEndSeen ==
    ASSUME Whereabouts, Basic, NEW r \in transfers
    PROVE  EndSeen(r) <=> EndParsed(r)
<1>1. Transfer(r)
  BY DEF Whereabouts
<1>2. stream[r] \in Streams /\ pos[r] \in 0..Len(stream[r].events) /\ Len(stream[r].events) \in Nat
  BY <1>1, StreamAssumption, LenProperties DEF Transfer
<1>3. \A p : p \in 1..pos[r] <=> p \in 1..Len(stream[r].events) /\ p <= pos[r]
  BY <1>2
<1> QED
  BY <1>3 DEF EndSeen, EndParsed, EndLines

\* The steps of callbacks but the one that keeps or swallows a token, and those between
LEMMA CallbackParsing ==
    ASSUME \A s \in Streams : Clean(s), Basic, Whereabouts, Parsing,
           \/ DoneSend \/ ErrorSend \/ QueueErase \/ Reaped \/ AddTransferFails
           \/ \E r \in Requests : ReapOk(r) \/ ReapFailed(r)
    PROVE  Parsing'
<1>1. UNCHANGED <<pos, stream, swallowed>>
  BY DEF DoneSend, ErrorSend, QueueErase, Reaped, AddTransferFails, ReapOk, ReapFailed, ioVars, history
<1>2. fragment \subseteq transfers /\ (io # None => io \in Callbacks)
  BY DEF Basic, Kinds
<1>3. ASSUME DoneSend \/ ErrorSend \/ QueueErase \/ Reaped \/ \E r \in Requests : ReapOk(r)
      PROVE  io' = None \/ io'.step \in {"erase", "reap"}
  BY <1>2, <1>3 DEF DoneSend, ErrorSend, QueueErase, Reaped, ReapOk, NextStep, Callbacks
<1>4. transfers' \subseteq transfers /\ fragment' = fragment \cap transfers'
  BY <1>2 DEF DoneSend, ErrorSend, QueueErase, Reaped, AddTransferFails, ReapOk, ReapFailed
<1>5. ASSUME AddTransferFails
      PROVE  io' # None /\ io'.step = "error" /\ ~EndSeen(io.req)'
  <2>1. /\ local # <<>> /\ Head(local) \in Used /\ Head(local) \in Waiting
        /\ OnError(Head(local), FALSE)
    BY <1>5, NextSubmission DEF AddTransferFails, Waiting
  <2>2. io' \in Callbacks /\ io'.req = Head(local) /\ io'.step = "error" /\ io' # None
    BY <2>1, OnErrorType
  <2>3. pos[Head(local)] = 0
    BY <2>1 DEF Whereabouts
  <2> QED
    BY <1>1, <2>2, <2>3 DEF EndSeen
<1>6. ASSUME NEW r \in Requests, ReapFailed(r)
      PROVE  io' # None /\ io'.step = "error" /\ ~EndSeen(io.req)'
  <2>1. r \in transfers /\ r \in Used /\ OnError(r, TRUE) /\ stream[r].end # "ok"
    BY <1>6 DEF ReapFailed, Basic, Kinds
  <2>2. io' \in Callbacks /\ io'.req = r /\ io'.step = "error" /\ io' # None
    BY <2>1, OnErrorType
  <2>3. stream[r] \in Streams
    BY <2>1 DEF Whereabouts, Transfer
  <2>4. ~EndParsed(r)
    BY <2>1, <2>3 DEF Clean, EndParsed
  <2>5. ~EndSeen(r)
    BY <2>1, <2>4, NoEndSeen
  <2> QED
    BY <1>1, <2>2, <2>5 DEF EndSeen
<1>7. /\ \A x \in Requests : InCallback(x, {"token"})' => InCallback(x, {"token"})
      /\ AtHand'
  BY <1>3, <1>5, <1>6 DEF InCallback, AtHand
<1>8. Fragments' /\ SwallowedOnce'
  BY <1>1, <1>4, <1>7, NothingParsed
<1> QED
  BY <1>7, <1>8 DEF Parsing

\* add_transfer: the parser is new.
LEMMA AddTransferParsing ==
    ASSUME Basic, Whereabouts, Parsing, NEW s \in Streams, AddTransfer(s)
    PROVE  Parsing'
<1>1. PICK h : h = Head(local)
  OBVIOUS
<1>2. /\ local # <<>> /\ io = None /\ io' = None
      /\ transfers' = transfers \cup {h} /\ stream' = [stream EXCEPT ![h] = s]
      /\ UNCHANGED <<pos, fragment, swallowed>>
  BY <1>1 DEF AddTransfer, history
<1>3. h \in Requests /\ h \notin transfers /\ h \in Waiting
  BY <1>1, <1>2, NextSubmission DEF Waiting, Used
<1>4. /\ fragment \subseteq transfers /\ transfers \subseteq Requests
      /\ stream \in [Requests -> Streams \cup {None}]
  BY DEF Basic, Kinds, Used
<1>5. ASSUME NEW x \in transfers PROVE x \in fragment' <=> FromFragment(x, pos[x] + 1)'
  <2>1. x \in fragment <=> FromFragment(x, pos[x] + 1)
    BY DEF Parsing, Fragments
  <2>2. stream'[x] = stream[x]
    BY <1>2, <1>3, <1>4
  <2> QED
    BY <1>2, <2>1, <2>2 DEF FromFragment
<1>6. h \notin fragment' /\ ~FromFragment(h, pos[h] + 1)'
  <2>1. pos'[h] = 0
    BY <1>2, <1>3 DEF Whereabouts
  <2> QED
    BY <1>2, <1>3, <1>4, <2>1 DEF FromFragment
<1>7. Fragments'
  BY <1>2, <1>5, <1>6 DEF Fragments
<1>8. SwallowedOnce' /\ AtHand'
  BY <1>2 DEF Parsing, SwallowedOnce, AtHand, InCallback
<1> QED
  BY <1>7, <1>8 DEF Parsing

\* The fragments among one more line
LEMMA FragmentNext ==
    ASSUME NEW r, NEW n \in Nat
    PROVE  FromFragment(r, n + 2) <=> \/ stream[r].events[n + 1] = "fragment"
                                      \/ stream[r].events[n + 1] # "finish" /\ FromFragment(r, n + 1)
<1>1. (n + 2) - 1 = n + 1 /\ (n + 1) - 1 = n /\ n + 1 \in 1..(n + 1)
  OBVIOUS
<1>2. FromFragment(r, n + 2) <=> \E q \in 1..(n + 1) : /\ stream[r].events[q] = "fragment"
                                                       /\ \A i \in q..(n + 1) : stream[r].events[i] # "finish"
  BY <1>1 DEF FromFragment
<1>3. FromFragment(r, n + 1) <=> \E q \in 1..n : /\ stream[r].events[q] = "fragment"
                                                 /\ \A i \in q..n : stream[r].events[i] # "finish"
  BY <1>1 DEF FromFragment
<1>4. ASSUME NEW q \in 1..n
      PROVE  /\ q \in 1..(n + 1)
             /\ \A i : i \in q..(n + 1) <=> i \in q..n \/ i = n + 1
  BY <1>4
<1>5. \A i : i \in (n + 1)..(n + 1) <=> i = n + 1
  OBVIOUS
<1>6. \A q \in 1..(n + 1) : q \in 1..n \/ q = n + 1
  OBVIOUS
<1>7. ASSUME FromFragment(r, n + 2), stream[r].events[n + 1] # "fragment"
      PROVE  stream[r].events[n + 1] # "finish" /\ FromFragment(r, n + 1)
  BY <1>1, <1>2, <1>3, <1>4, <1>6, <1>7
<1>8. ASSUME stream[r].events[n + 1] = "fragment" PROVE FromFragment(r, n + 2)
  BY <1>1, <1>2, <1>5, <1>8
<1>9. ASSUME stream[r].events[n + 1] # "finish", FromFragment(r, n + 1) PROVE FromFragment(r, n + 2)
  BY <1>2, <1>3, <1>4, <1>9
<1> QED
  BY <1>7, <1>8, <1>9

\* A line is parsed.
LEMMA LineParsing ==
    ASSUME \A s \in Streams : Tidy(s), Basic, Whereabouts, Parsing, NEW r \in Requests,
           Token(r) \/ Fragment(r) \/ Finish(r) \/ Done(r)
    PROVE  Parsing'
<1>1. PICK l \in Lines : /\ NextLine(r, l)
                         /\ \/ l = "token" /\ Token(r)
                            \/ l = "fragment" /\ Fragment(r)
                            \/ l = "finish" /\ Finish(r)
                            \/ l = "done" /\ Done(r)
  BY DEF Token, Fragment, Finish, Done, Lines
<1>2. /\ r \in transfers /\ r \in Used /\ io = None /\ stream[r] \in Streams
      /\ pos[r] \in Nat /\ pos'[r] = pos[r] + 1 /\ pos'[r] \in 1..Len(stream[r].events)
      /\ \A x \in Requests \ {r} : pos'[x] = pos[x]
      /\ r \in finished <=> EndParsed(r)
  BY <1>1, NextLineWhere
<1>3. PICK n \in Nat : n = pos[r]
  BY <1>2
<1>4. stream[r].events[n + 1] = l
  BY <1>1, <1>3 DEF NextLine
<1>5. UNCHANGED <<transfers, stream, swallowed, finished>>
  BY DEF Token, Fragment, Finish, Done, history
<1>6. transfers \subseteq Requests /\ fragment \subseteq transfers
  BY DEF Basic, Kinds, Used
<1>7. fragment' = IF l = "fragment" THEN fragment \cup {r}
                  ELSE IF l = "finish" THEN fragment \ {r} ELSE fragment
  BY <1>1 DEF Token, Fragment, Finish, Done
<1>8. Fragments'
  <2>1. ASSUME NEW x \in transfers, x # r PROVE x \in fragment' <=> FromFragment(x, pos[x] + 1)'
    <3>1. x \in fragment <=> FromFragment(x, pos[x] + 1)
      BY DEF Parsing, Fragments
    <3>2. pos'[x] = pos[x]
      BY <1>2, <1>6, <2>1
    <3> QED
      BY <1>5, <1>7, <2>1, <3>1, <3>2 DEF FromFragment
  <2>2. r \in fragment <=> FromFragment(r, n + 1)
    BY <1>2, <1>3 DEF Parsing, Fragments
  <2>3. pos'[r] + 1 = n + 2
    BY <1>2, <1>3
  <2>4. FromFragment(r, n + 2) <=> l = "fragment" \/ (l # "finish" /\ FromFragment(r, n + 1))
    BY <1>4, FragmentNext
  <2>5. FromFragment(r, pos[r] + 1)' <=> FromFragment(r, n + 2)
    BY <1>5, <2>3 DEF FromFragment
  <2>6. r \in fragment' <=> FromFragment(r, pos[r] + 1)'
    BY <1>7, <2>2, <2>4, <2>5
  <2> QED
    BY <1>5, <2>1, <2>6 DEF Fragments
<1>9. io' = None \/ (io'.req = r /\ io'.step \in {"token", "done"})
  BY <1>1, <1>2 DEF Token, Fragment, Finish, Done, OnDone
<1>10. SwallowedOnce'
  <2>1. swallowed \subseteq Requests \X Nat /\ pos \in [Requests -> Nat]
    BY DEF Parsing, SwallowedOnce, Basic, Kinds
  <2> SUFFICES ASSUME NEW x \in swallowed
               PROVE  x[2] <= pos'[x[1]] /\ ~(InCallback(x[1], {"token"})' /\ x[2] = pos'[x[1]])
    BY <1>5, <2>1 DEF SwallowedOnce, InCallback
  <2>2. x[1] \in Requests /\ x[2] \in Nat /\ x[2] <= pos[x[1]] /\ pos[x[1]] \in Nat
    BY <2>1 DEF Parsing, SwallowedOnce
  <2>3. CASE x[1] = r
    BY <1>2, <2>2, <2>3
  <2>4. CASE x[1] # r
    BY <1>2, <1>9, <2>2, <2>4 DEF InCallback
  <2> QED
    BY <2>3, <2>4
<1>11. ASSUME l = "token" PROVE r \notin finished
  <2> SUFFICES ASSUME EndParsed(r) PROVE FALSE
    BY <1>2
  <2>1. PICK p \in EndLines(stream[r]) : p <= n
    BY <1>3 DEF EndParsed
  <2>2. n + 1 \in 1..Len(stream[r].events)
    BY <1>2, <1>3
  <2>3. n + 1 < p /\ p \in Int
    BY <1>2, <1>4, <1>11, <2>2 DEF Tidy, EndLines
  <2> QED
    BY <2>1, <2>3
<1>12. AtHand'
  <2>1. CASE l = "token"
    <3>1. io' = None \/ io'.step = "token"
      BY <1>1, <2>1 DEF Token
    <3>2. pos'[r] >= 1 /\ stream'[r].events[pos'[r]] = "token" /\ r \notin finished'
      BY <1>2, <1>3, <1>4, <1>5, <1>11, <2>1
    <3> QED
      BY <1>9, <3>1, <3>2 DEF AtHand
  <2>2. CASE l = "fragment"
    BY <1>1, <1>2, <2>2 DEF Fragment, AtHand
  <2>3. CASE l \in {"finish", "done"}
    <3>1. io'.step = "done"
      BY <1>1, <1>2, <2>3, OnDoneType DEF Finish, Done
    <3>2. n + 1 \in 1..pos'[r] /\ stream'[r].events[n + 1] \in {"done", "finish"}
      BY <1>2, <1>3, <1>4, <1>5, <2>3
    <3> QED
      BY <1>9, <3>1, <3>2 DEF AtHand, EndSeen
  <2> QED
    BY <2>1, <2>2, <2>3 DEF Lines
<1> QED
  BY <1>8, <1>10, <1>12 DEF Parsing

\* The callback of a token ends.
LEMMA TokenSendParsing ==
    ASSUME Basic, Whereabouts, Parsing, NEW keep \in BOOLEAN, TokenSend(keep)
    PROVE  Parsing'
<1>1. PICK r : r = io.req
  OBVIOUS
<1>2. /\ io # None /\ io.step = "token" /\ io' = None
      /\ swallowed' = IF keep THEN swallowed ELSE swallowed \cup {<<r, pos[r]>>}
      /\ UNCHANGED <<pos, stream, transfers, fragment>>
  BY <1>1 DEF TokenSend
<1>3. r \in Requests /\ pos[r] \in Nat
  BY <1>1, <1>2, IoFacts DEF Basic
<1>4. AtHand'
  BY <1>2 DEF AtHand
<1>5. Fragments'
  BY <1>2 DEF Parsing, Fragments, FromFragment
<1>6. SwallowedOnce'
  <2>1. \A x \in swallowed' : x \in swallowed \/ (x[1] = r /\ x[2] = pos[r])
    BY <1>2
  <2>2. swallowed' \subseteq Requests \X Nat
    BY <1>2, <1>3 DEF Parsing, SwallowedOnce
  <2>3. \A x \in swallowed : x[2] <= pos[x[1]]
    BY DEF Parsing, SwallowedOnce
  <2>4. \A x \in swallowed' : x[2] <= pos'[x[1]]
    BY <1>2, <1>3, <2>1, <2>3
  <2> QED
    BY <1>2, <2>2, <2>4 DEF SwallowedOnce, InCallback
<1> QED
  BY <1>4, <1>5, <1>6 DEF Parsing

\* Every step keeps them.
LEMMA StepParsing ==
    ASSUME \A s \in Streams : Tidy(s), Basic, Whereabouts, Parsing, [Next]_vars
    PROVE  Parsing'
<1>0. \A s \in Streams : Clean(s)
  BY DEF Tidy
<1>1. ASSUME NEW c \in Conns, Client(c) \/ RunLoop(c) PROVE Parsing'
  <2>1. UNCHANGED <<pos, stream, swallowed, transfers, fragment, io>>
    BY <1>1 DEF Client, Chat, Refuse, Cancel, Close, RunLoop, ioVars, history
  <2>2. finished' = finished \/ finished' = finished \cup {Number}
    BY <1>1 DEF Client, Chat, Refuse, Cancel, Close, RunLoop, history, Number
  <2>3. finished' # finished => Number \notin Used
    BY <1>1, NewRequest DEF Client, Chat, Refuse, Cancel, Close, RunLoop, history, Number
  <2>4. io # None => io.req \in Used
    BY DEF Basic, Kinds
  <2> QED
    BY <2>1, <2>2, <2>3, <2>4, QuietParsing
<1>2. ASSUME Drain \/ UNCHANGED vars \/ \E r \in Requests : ServerEnd(r) PROVE Parsing'
  BY <1>2, QuietParsing DEF Drain, ServerEnd, vars, ioVars, history
<1>3. CASE IoStep
  BY <1>0, <1>2, <1>3, AddTransferParsing, TokenSendParsing, CallbackParsing DEF IoStep
<1> QED
  BY <1>1, <1>2, <1>3, LineParsing DEF Next

\* Nothing is handed out of r's answer, and its client hears nothing.
SameMail(r) == /\ HeardPieces(r)' = HeardPieces(r) /\ Coming(r)' = Coming(r)
               /\ EndsHeard(r)' = EndsHeard(r) /\ EndsNext(r)' = EndsNext(r)

\* What a step does to the answer to r, and to what its client hears of it
Grows(r) ==
    \/ Pieces(r)' = Pieces(r) /\ AnswerEnd(r)' = AnswerEnd(r)
    \/ /\ AnswerEnd(r) = "open"
       /\ Pieces(r)' = Pieces(r) \/ \E p \in Nat : Pieces(r)' = Append(Pieces(r), p)
Hears(r) ==
    /\ \E u \in Seq(Nat) : HeardPieces(r)' = HeardPieces(r) \o u
    /\ EndsHeard(r) # <<>> \/ (Stopped(r)' /\ ~Stopped(r))
          => HeardPieces(r)' = HeardPieces(r) /\ HeardEnd(r)' = HeardEnd(r)
Step(r) == Delivering(r)' /\ Ending(r)' /\ Grows(r) /\ Hears(r)

\* What the client hears of the end
LEMMA HeardEnds ==
    ASSUME NEW r
    PROVE  /\ HeardEnd(r) = IF EndsHeard(r) = <<>> THEN "open"
                            ELSE IF Head(EndsHeard(r)).type = "done" THEN "done" ELSE "failed"
           /\ HeardEnd(r)' = IF EndsHeard(r)' = <<>> THEN "open"
                             ELSE IF Head(EndsHeard(r)').type = "done" THEN "done" ELSE "failed"
  BY DEF HeardEnd, EndsHeard

\* The messages of r
LEMMA MailTypes ==
    ASSUME Kinds, NEW r \in Used
    PROVE  /\ out[Conn(r)] \in Seq(Jobs) /\ queue[Conn(r)] \in Seq(Jobs)
           /\ HeardPieces(r) \in Seq(Nat) /\ Coming(r) \in Seq(Nat) /\ Delivered(r) \in Seq(Nat)
           /\ EndsHeard(r) \in Seq(Jobs) /\ EndsNext(r) \in Seq(Jobs)
<1>1. out[Conn(r)] \in Seq(Jobs) /\ queue[Conn(r)] \in Seq(Jobs)
  BY UsedFacts DEF Kinds
<1>2. HeardPieces(r) \in Seq(Nat) /\ Coming(r) \in Seq(Nat)
  BY <1>1, PiecesInDef DEF HeardPieces, Coming
<1>3. EndsHeard(r) \in Seq(Jobs) /\ EndsNext(r) \in Seq(Jobs)
  BY <1>1, KeepFacts DEF EndsHeard, EndsNext, EndsIn
<1>4. Delivered(r) \in Seq(Nat)
  BY <1>2, ConcatProperties DEF Delivered
<1> QED
  BY <1>1, <1>2, <1>3, <1>4

\* Steps that hand out nothing of r
LEMMA StepStays ==
    ASSUME Kinds, NEW r \in Used, Delivering(r), Ending(r), SameMail(r), Pieces(r)' = Pieces(r),
           r \in finished' <=> r \in finished, Stopped(r) => Stopped(r)',
           SameAnswer(r) \/ AnswerEnd(r) = "open"
    PROVE  Step(r)
<1>1. Delivered(r)' = Delivered(r)
  BY DEF SameMail, Delivered
<1>2. Delivering(r)'
  BY <1>1 DEF Delivering
<1>3. HeardPieces(r) \in Seq(Nat) /\ <<>> \in Seq(Nat) /\ HeardPieces(r)' = HeardPieces(r) \o <<>>
  <2>1. HeardPieces(r) \in Seq(Nat)
    BY MailTypes
  <2> QED
    BY <2>1, ConcatEmptySeq, EmptySeq DEF SameMail
<1>4. HeardEnd(r)' = HeardEnd(r)
  BY HeardEnds DEF SameMail
<1>5. Hears(r)
  BY <1>3, <1>4 DEF Hears, SameMail
<1>6. Grows(r)
  BY DEF Grows, SameAnswer
<1>7. CASE SameAnswer(r)
  <2>1. Ending(r)'
    BY <1>7 DEF Ending, SameMail, SameAnswer
  <2> QED
    BY <1>2, <1>5, <1>6, <2>1 DEF Step
<1>8. CASE AnswerEnd(r) = "open"
  <2>1. r \notin finished
    BY <1>8, AnswerEnds DEF Failing
  <2>2. EndsHeard(r) = <<>> /\ EndsNext(r) = <<>> /\ ToSet(<<>>) = {}
    BY <2>1 DEF Ending, ToSet
  <2>3. Ending(r)'
    BY <2>1, <2>2 DEF Ending, SameMail
  <2> QED
    BY <1>2, <1>5, <1>6, <2>3 DEF Step
<1> QED
  BY <1>7, <1>8

\* One more piece of r, which is handed out unless the client has stopped the request
LEMMA StepPiece ==
    ASSUME Kinds, NEW r \in Used, Delivering(r), Ending(r), AnswerEnd(r) = "open", NEW n \in Nat,
           Pieces(r) \in Seq(Nat), \A p \in ToSet(Pieces(r)) : p < n, Pieces(r)' = Append(Pieces(r), n),
           EndsHeard(r)' = EndsHeard(r), EndsNext(r)' = EndsNext(r),
           r \in finished' <=> r \in finished, Stopped(r)' <=> Stopped(r),
           \/ Coming(r)' = Append(Coming(r), n) /\ HeardPieces(r)' = HeardPieces(r)
           \/ /\ Coming(r)' = Coming(r) /\ Coming(r) = <<>>
              /\ HeardPieces(r)' = Append(HeardPieces(r), n)
           \/ Coming(r)' = Coming(r) /\ HeardPieces(r)' = HeardPieces(r) /\ Stopped(r)
    PROVE  Step(r)
<1>1. HeardPieces(r) \in Seq(Nat) /\ Coming(r) \in Seq(Nat) /\ Delivered(r) \in Seq(Nat)
  BY MailTypes
<1>2. \/ Delivered(r)' = Append(Delivered(r), n)
      \/ Delivered(r)' = Delivered(r) /\ Stopped(r)
  <2>1. ASSUME Coming(r)' = Append(Coming(r), n), HeardPieces(r)' = HeardPieces(r)
        PROVE  Delivered(r)' = Append(Delivered(r), n)
    BY <1>1, <2>1, ConcatAppend DEF Delivered
  <2>2. ASSUME Coming(r)' = <<>>, Coming(r) = <<>>, HeardPieces(r)' = Append(HeardPieces(r), n)
        PROVE  Delivered(r)' = Append(Delivered(r), n)
    <3>1. Append(HeardPieces(r), n) \in Seq(Nat)
      BY <1>1, AppendAt
    <3> QED
      BY <1>1, <2>2, <3>1, ConcatEmptySeq DEF Delivered
  <2> QED
    BY <2>1, <2>2 DEF Delivered
<1>3. ToSet(Append(Pieces(r), n)) = ToSet(Pieces(r)) \cup {n}
  BY ToSetAppend
<1>4. Delivering(r)'
  <2>1. CASE Delivered(r)' = Append(Delivered(r), n)
    <3>1. ToSet(Append(Delivered(r), n)) = ToSet(Delivered(r)) \cup {n}
      <4> DEFINE s == Delivered(r)
      <4>1. s \in Seq(Nat)
        BY <1>1
      <4> HIDE DEF s
      <4>2. ToSet(Append(s, n)) = ToSet(s) \cup {n}
        BY <4>1, ToSetAppend
      <4> QED
        BY <4>2 DEF s
    <3>2. \A p \in ToSet(Delivered(r)) : p < n
      BY DEF Delivering
    <3>3. Rising(Append(Delivered(r), n))
      BY <1>1, <3>2, RisingAppend DEF Delivering
    <3> QED
      BY <1>3, <2>1, <3>1, <3>3 DEF Delivering
  <2>2. CASE Delivered(r)' = Delivered(r) /\ Stopped(r)
    BY <1>3, <2>2 DEF Delivering
  <2> QED
    BY <1>2, <2>1, <2>2
<1>5. r \notin finished
  BY AnswerEnds DEF Failing
<1>6. EndsHeard(r) = <<>> /\ EndsNext(r) = <<>> /\ ToSet(<<>>) = {}
  BY <1>5 DEF Ending, ToSet
<1>7. Ending(r)'
  BY <1>5, <1>6 DEF Ending
<1>8. \E u \in Seq(Nat) : HeardPieces(r)' = HeardPieces(r) \o u
  <2>1. HeardPieces(r) = HeardPieces(r) \o <<>> /\ <<>> \in Seq(Nat)
    BY <1>1, ConcatEmptySeq, EmptySeq
  <2>2. <<n>> \in Seq(Nat)
    OBVIOUS
  <2>3. Append(HeardPieces(r), n) = HeardPieces(r) \o <<n>>
    BY <1>1, AppendIsConcat
  <2> QED
    BY <2>1, <2>2, <2>3
<1>9. Hears(r)
  BY <1>6, <1>8 DEF Hears
<1>10. Grows(r)
  BY DEF Grows
<1> QED
  BY <1>4, <1>7, <1>9, <1>10 DEF Step

\* The end of r is handed out, unless the client has stopped the request.
LEMMA StepEnd ==
    ASSUME Kinds, NEW r \in Used, Delivering(r), Ending(r), SameAnswer(r),
           HeardPieces(r)' = HeardPieces(r), Coming(r)' = Coming(r),
           r \notin finished, r \in finished', Stopped(r)' <=> Stopped(r),
           NEW job \in Jobs, job.type = "done" <=> EndSeen(r),
           \/ EndsHeard(r)' = EndsHeard(r) /\ EndsNext(r)' = EndsNext(r)
           \/ EndsHeard(r)' = EndsHeard(r) /\ EndsNext(r)' = Append(EndsNext(r), job)
           \/ /\ EndsHeard(r)' = Append(EndsHeard(r), job) /\ EndsNext(r)' = EndsNext(r)
              /\ Coming(r) = <<>>
    PROVE  Step(r)
<1>1. EndsHeard(r) = <<>> /\ EndsNext(r) = <<>> /\ ToSet(<<>>) = {}
  BY DEF Ending, ToSet
<1>2. Append(<<>>, job) \in Seq(Jobs) /\ ToSet(Append(<<>>, job)) = {job}
  <2>1. EndsNext(r) \in Seq(Jobs)
    BY MailTypes
  <2>2. Append(EndsNext(r), job) \in Seq(Jobs)
    BY <2>1, AppendAt
  <2>3. ToSet(Append(EndsNext(r), job)) = ToSet(EndsNext(r)) \cup {job}
    BY <2>1, ToSetAppend
  <2> QED
    BY <1>1, <2>2, <2>3
<1>3. EndSeen(r)' <=> EndSeen(r)
  BY DEF SameAnswer
<1>4. \A m \in ToSet(EndsHeard(r)') \cup ToSet(EndsNext(r)') : m = job
  BY <1>1, <1>2
<1>5. Ending(r)'
  BY <1>1, <1>3, <1>4 DEF Ending
<1>6. Delivering(r)'
  BY DEF Delivering, Delivered, SameAnswer
<1>7. HeardPieces(r) = HeardPieces(r) \o <<>> /\ <<>> \in Seq(Nat)
  <2>1. HeardPieces(r) \in Seq(Nat)
    BY MailTypes
  <2> QED
    BY <2>1, ConcatEmptySeq, EmptySeq
<1>8. Hears(r)
  BY <1>1, <1>7 DEF Hears
<1>9. Grows(r)
  BY DEF Grows, SameAnswer
<1> QED
  BY <1>5, <1>6, <1>8, <1>9 DEF Step

\* The loop of r's connection sends what it has still to send, or drops it if the client is gone.
LEMMA StepLoop ==
    ASSUME Kinds, NEW r \in Used, Delivering(r), Ending(r), SameAnswer(r),
           r \in finished' <=> r \in finished, Stopped(r)' <=> Stopped(r),
           Coming(r)' = <<>>, EndsNext(r)' = <<>>,
           \/ /\ HeardPieces(r)' = HeardPieces(r) \o Coming(r)
              /\ EndsHeard(r)' = EndsHeard(r) \o EndsNext(r)
           \/ HeardPieces(r)' = HeardPieces(r) /\ EndsHeard(r)' = EndsHeard(r) /\ Stopped(r)
    PROVE  Step(r)
<1>1. /\ HeardPieces(r) \in Seq(Nat) /\ Coming(r) \in Seq(Nat) /\ Delivered(r) \in Seq(Nat)
      /\ EndsHeard(r) \in Seq(Jobs) /\ EndsNext(r) \in Seq(Jobs) /\ <<>> \in Seq(Nat)
  BY MailTypes, EmptySeq
<1>2. HeardPieces(r) \o <<>> = HeardPieces(r) /\ Delivered(r) \o <<>> = Delivered(r)
  BY <1>1, ConcatEmptySeq
<1>3. Grows(r)
  BY DEF Grows, SameAnswer
<1>4. ToSet(<<>>) = {}
  BY DEF ToSet
<1>5. CASE /\ HeardPieces(r)' = HeardPieces(r) \o Coming(r)
           /\ EndsHeard(r)' = EndsHeard(r) \o EndsNext(r)
  <2>1. Delivered(r)' = Delivered(r)
    BY <1>2, <1>5 DEF Delivered
  <2>2. Delivering(r)'
    BY <2>1 DEF Delivering, SameAnswer
  <2>3. ToSet(EndsHeard(r)') = ToSet(EndsHeard(r)) \cup ToSet(EndsNext(r))
    BY <1>1, <1>5, Concatenation
  <2>4. r \notin finished => EndsHeard(r)' = <<>>
    <3>1. <<>> \o <<>> = <<>>
      BY <1>1, ConcatEmptySeq
    <3> QED
      BY <1>5, <3>1 DEF Ending
  <2>5. Ending(r)'
    BY <1>4, <2>3, <2>4 DEF Ending, SameAnswer
  <2>6. EndsHeard(r) # <<>> => HeardPieces(r)' = HeardPieces(r) /\ HeardEnd(r)' = HeardEnd(r)
    <3> SUFFICES ASSUME EndsHeard(r) # <<>>
                 PROVE  HeardPieces(r)' = HeardPieces(r) /\ HeardEnd(r)' = HeardEnd(r)
      OBVIOUS
    <3>1. Coming(r) = <<>>
      BY DEF Ending
    <3> DEFINE s == EndsHeard(r)
               t == EndsNext(r)
    <3>2. s \o t \in Seq(Jobs) /\ Len(s \o t) = Len(s) + Len(t) /\ Len(s) \in Nat \ {0} /\ Len(t) \in Nat
      BY <1>1, ConcatProperties, EmptySeq, LenProperties
    <3>3. (s \o t)[1] = s[1] /\ 1 \in 1..(Len(s) + Len(t))
      BY <1>1, <3>2, ConcatProperties
    <3>4. s \o t # <<>>
      BY <3>2, EmptySeq
    <3>5. Head(s \o t) = (s \o t)[1] /\ Head(s) = s[1]
      BY <1>1, <3>2, <3>4, TailAt
    <3>6. HeardEnd(r)' = HeardEnd(r)
      BY <1>5, <3>3, <3>4, <3>5, HeardEnds
    <3> QED
      BY <1>2, <1>5, <3>1, <3>6
  <2>7. Hears(r)
    BY <1>1, <1>5, <2>6 DEF Hears
  <2> QED
    BY <1>3, <2>2, <2>5, <2>7 DEF Step
<1>6. CASE HeardPieces(r)' = HeardPieces(r) /\ EndsHeard(r)' = EndsHeard(r) /\ Stopped(r)
  <2>1. Delivered(r)' = HeardPieces(r)
    BY <1>2, <1>6 DEF Delivered
  <2>2. Rising(HeardPieces(r)) /\ ToSet(HeardPieces(r)) \subseteq ToSet(Delivered(r))
    <3> DEFINE s == HeardPieces(r)
               t == Coming(r)
    <3>1. /\ s \in Seq(Nat) /\ t \in Seq(Nat) /\ Len(s) \in Nat /\ Len(t) \in Nat
          /\ Len(s \o t) = Len(s) + Len(t) /\ \A i \in 1..Len(s) : (s \o t)[i] = s[i]
      BY <1>1, ConcatProperties, LenProperties
    <3>2. Rising(s \o t) /\ ToSet(s \o t) = ToSet(s) \cup ToSet(t)
      BY <1>1, Concatenation DEF Delivering, Delivered
    <3> HIDE DEF s, t
    <3>3. Rising(s)
      <4> SUFFICES ASSUME NEW i \in 2..Len(s) PROVE s[i - 1] < s[i]
        BY DEF Rising
      <4>1. i \in 2..Len(s \o t) /\ i \in 1..Len(s) /\ i - 1 \in 1..Len(s)
        BY <3>1
      <4> QED
        BY <3>1, <3>2, <4>1 DEF Rising
    <3> QED
      BY <3>2, <3>3 DEF s, t, Delivered
  <2>3. Delivering(r)'
    BY <1>6, <2>1, <2>2 DEF Delivering, SameAnswer
  <2>4. Ending(r)'
    BY <1>4, <1>6 DEF Ending, SameAnswer
  <2>5. Hears(r)
    BY <1>1, <1>2, <1>6, HeardEnds DEF Hears
  <2> QED
    BY <1>3, <2>3, <2>4, <2>5 DEF Step
<1> QED
  BY <1>5, <1>6

\* What is sent to the connection of r and queued for it is as it was.
LEMMA SameBoxes ==
    ASSUME NEW r, req'[r] = req[r],
           out'[Conn(r)] = out[Conn(r)], queue'[Conn(r)] = queue[Conn(r)]
    PROVE  SameMail(r)
  BY DEF SameMail, HeardPieces, Coming, EndsHeard, EndsNext, Conn

\* A message of r is none of another request.
LEMMA OthersJob ==
    ASSUME NEW r, NEW job, job.req = r, NEW x, x # r
    PROVE  job \notin PieceJobs(x) /\ job \notin EndJobs(x)
  BY DEF PieceJobs, EndJobs

\* The jobs of r that are pieces, those that are ends, and the others
LEMMA JobSorts ==
    ASSUME NEW job \in Jobs
    PROVE  /\ job \in PieceJobs(job.req) <=> job.type \in {"token", "tool_call"}
           /\ job \in EndJobs(job.req) <=> job.type \in {"done", "error", "abort"}
  BY DEF PieceJobs, EndJobs, Jobs, Terminal

\* A job that is queued for r
LEMMA QueuedMail ==
    ASSUME Kinds, NEW r \in Used, NEW job \in Jobs, job.req = r, req' = req, Queued(r, job)
    PROVE  /\ \A x \in Used \ {r} : SameMail(x)
           /\ HeardPieces(r)' = HeardPieces(r) /\ EndsHeard(r)' = EndsHeard(r)
           /\ Coming(r)' = IF job \in PieceJobs(r) THEN Append(Coming(r), job.at) ELSE Coming(r)
           /\ EndsNext(r)' = IF job \in EndJobs(r) THEN Append(EndsNext(r), job) ELSE EndsNext(r)
<1>1. PICK c \in Conns : c = Conn(r)
  BY UsedFacts
<1>2. /\ out' = out /\ queue'[c] = Append(queue[c], job) /\ queue[c] \in Seq(Jobs)
      /\ \A d \in Conns \ {c} : queue'[d] = queue[d]
  BY <1>1 DEF Queued, Kinds
<1>3. ASSUME NEW x \in Used
      PROVE  /\ Conn(x) \in Conns /\ Conn(x)' = Conn(x)
             /\ HeardPieces(x)' = HeardPieces(x) /\ EndsHeard(x)' = EndsHeard(x)
             /\ Coming(x)' = PiecesIn(queue'[Conn(x)], x) /\ EndsNext(x)' = EndsIn(queue'[Conn(x)], x)
  BY <1>2, UsedFacts DEF HeardPieces, EndsHeard, Coming, EndsNext, Conn
<1>4. ASSUME NEW x
      PROVE  /\ PiecesIn(queue'[c], x) = IF job \in PieceJobs(x) THEN Append(PiecesIn(queue[c], x), job.at)
                                         ELSE PiecesIn(queue[c], x)
             /\ EndsIn(queue'[c], x) = IF job \in EndJobs(x) THEN Append(EndsIn(queue[c], x), job)
                                       ELSE EndsIn(queue[c], x)
  <2>1. PICK q \in Seq(Jobs) : q = queue[c]
    BY <1>2
  <2>2. queue'[c] = Append(q, job)
    BY <1>2, <2>1
  <2>3. /\ PiecesIn(Append(q, job), x) = IF job \in PieceJobs(x) THEN Append(PiecesIn(q, x), job.at)
                                         ELSE PiecesIn(q, x)
        /\ EndsIn(Append(q, job), x) = IF job \in EndJobs(x) THEN Append(EndsIn(q, x), job)
                                       ELSE EndsIn(q, x)
    BY InAppend
  <2> QED
    BY <2>1, <2>2, <2>3
<1>5. ASSUME NEW x \in Used \ {r} PROVE SameMail(x)
  <2>1. CASE Conn(x) = c
    BY <1>3, <1>4, <1>5, <2>1, OthersJob DEF SameMail, Coming, EndsNext
  <2>2. CASE Conn(x) # c
    BY <1>2, <1>3, <1>5, <2>2 DEF SameMail, Coming, EndsNext
  <2> QED
    BY <2>1, <2>2
<1> QED
  BY <1>1, <1>3, <1>4, <1>5 DEF Coming, EndsNext

\* A message that is sent to the client of r at once
LEMMA OutMail ==
    ASSUME Kinds, NEW r \in Used, NEW job \in Jobs, job.req = r, req' = req, queue' = queue,
           out' = [out EXCEPT ![Conn(r)] = Append(@, job)]
    PROVE  /\ \A x \in Used \ {r} : SameMail(x)
           /\ Coming(r)' = Coming(r) /\ EndsNext(r)' = EndsNext(r)
           /\ HeardPieces(r)' = IF job \in PieceJobs(r) THEN Append(HeardPieces(r), job.at)
                                ELSE HeardPieces(r)
           /\ EndsHeard(r)' = IF job \in EndJobs(r) THEN Append(EndsHeard(r), job) ELSE EndsHeard(r)
<1>1. PICK c \in Conns : c = Conn(r)
  BY UsedFacts
<1>2. /\ out'[c] = Append(out[c], job) /\ out[c] \in Seq(Jobs)
      /\ \A d \in Conns \ {c} : out'[d] = out[d]
  BY <1>1 DEF Kinds
<1>3. ASSUME NEW x \in Used
      PROVE  /\ Conn(x) \in Conns /\ Conn(x)' = Conn(x)
             /\ Coming(x)' = Coming(x) /\ EndsNext(x)' = EndsNext(x)
             /\ HeardPieces(x)' = PiecesIn(out'[Conn(x)], x) /\ EndsHeard(x)' = EndsIn(out'[Conn(x)], x)
  BY UsedFacts DEF HeardPieces, EndsHeard, Coming, EndsNext, Conn
<1>4. ASSUME NEW x
      PROVE  /\ PiecesIn(out'[c], x) = IF job \in PieceJobs(x) THEN Append(PiecesIn(out[c], x), job.at)
                                       ELSE PiecesIn(out[c], x)
             /\ EndsIn(out'[c], x) = IF job \in EndJobs(x) THEN Append(EndsIn(out[c], x), job)
                                     ELSE EndsIn(out[c], x)
  <2>1. PICK q \in Seq(Jobs) : q = out[c]
    BY <1>2
  <2>2. out'[c] = Append(q, job)
    BY <1>2, <2>1
  <2>3. /\ PiecesIn(Append(q, job), x) = IF job \in PieceJobs(x) THEN Append(PiecesIn(q, x), job.at)
                                         ELSE PiecesIn(q, x)
        /\ EndsIn(Append(q, job), x) = IF job \in EndJobs(x) THEN Append(EndsIn(q, x), job)
                                       ELSE EndsIn(q, x)
    BY InAppend
  <2> QED
    BY <2>1, <2>2, <2>3
<1>5. ASSUME NEW x \in Used \ {r} PROVE SameMail(x)
  <2>1. CASE Conn(x) = c
    BY <1>3, <1>4, <1>5, <2>1, OthersJob DEF SameMail, HeardPieces, EndsHeard
  <2>2. CASE Conn(x) # c
    BY <1>2, <1>3, <1>5, <2>2 DEF SameMail, HeardPieces, EndsHeard
  <2> QED
    BY <2>1, <2>2
<1> QED
  BY <1>1, <1>3, <1>4, <1>5 DEF HeardPieces, EndsHeard

\* A client that was sent done or error has heard of an end.
LEMMA GotEnd ==
    ASSUME Kinds, NEW r \in Used, Got(r, Terminal)
    PROVE  EndsHeard(r) # <<>>
<1>1. PICK i \in 1..Len(out[Conn(r)]) : /\ out[Conn(r)][i].req = r
                                        /\ out[Conn(r)][i].type \in Terminal
  BY DEF Got
<1>2. out[Conn(r)] \in Seq(Jobs)
  BY MailTypes
<1>3. out[Conn(r)][i] \in Jobs
  BY <1>1, <1>2, ElementOfSeq
<1>4. out[Conn(r)][i] \in EndJobs(r)
  BY <1>1, <1>3 DEF EndJobs, Jobs
<1>5. ToSet(EndsHeard(r)) = ToSet(out[Conn(r)]) \cap EndJobs(r)
  BY <1>2, KeepFacts DEF EndsHeard, EndsIn
<1>6. out[Conn(r)][i] \in ToSet(out[Conn(r)])
  BY <1>1, <1>2, LenProperties DEF ToSet
<1>7. ToSet(<<>>) = {}
  BY DEF ToSet
<1> QED
  BY <1>4, <1>5, <1>6, <1>7

\* No message of r
LEMMA NoMail ==
    ASSUME NEW s \in Seq(Jobs), NEW r, \A m \in ToSet(s) : m.req # r
    PROVE  PiecesIn(s, r) = <<>> /\ EndsIn(s, r) = <<>>
<1>1. ToSet(s) \cap PieceJobs(r) = {} /\ ToSet(s) \cap EndJobs(r) = {}
  BY DEF PieceJobs, EndJobs
<1>2. Keep(s, PieceJobs(r)) = <<>> /\ EndsIn(s, r) = <<>>
  BY <1>1, KeepNone DEF EndsIn
<1>3. PiecesIn(s, r) \in Seq(Nat) /\ Len(PiecesIn(s, r)) = Len(Keep(s, PieceJobs(r)))
  BY PiecesInDef
<1> QED
  BY <1>2, <1>3, EmptySeq

\* A message that a callback of r sends before the end of r: it is queued, written, or lost
\* because the client is gone.
LEMMA SentMail ==
    ASSUME Kinds, Addressed, NEW r \in Used, r \notin finished, Ending(r), NEW job \in Jobs,
           job.req = r, req' = req, Sent(r, job)
    PROVE  /\ \A x \in Used \ {r} : SameMail(x)
           /\ \/ /\ HeardPieces(r)' = HeardPieces(r) /\ EndsHeard(r)' = EndsHeard(r)
                 /\ Coming(r)' = IF job \in PieceJobs(r) THEN Append(Coming(r), job.at) ELSE Coming(r)
                 /\ EndsNext(r)' = IF job \in EndJobs(r) THEN Append(EndsNext(r), job) ELSE EndsNext(r)
              \/ /\ Coming(r) = <<>> /\ Coming(r)' = Coming(r) /\ EndsNext(r)' = EndsNext(r)
                 /\ HeardPieces(r)' = IF job \in PieceJobs(r) THEN Append(HeardPieces(r), job.at)
                                      ELSE HeardPieces(r)
                 /\ EndsHeard(r)' = IF job \in EndJobs(r) THEN Append(EndsHeard(r), job)
                                    ELSE EndsHeard(r)
              \/ SameMail(r) /\ Stopped(r)
<1>1. CASE ~OnHttp(r)
  <2>1. Queued(r, job)
    BY <1>1 DEF Sent
  <2> QED
    BY <2>1, QueuedMail
<1>2. CASE OnHttp(r)
  <2>1. Written(r, job) /\ Conn(r) \in Http
    BY <1>2 DEF Sent, OnHttp
  <2>2. Coming(r) = <<>>
    BY <2>1, InNothing DEF Addressed, Coming
  <2>3. ~Got(r, Terminal)
    BY GotEnd DEF Ending
  <2>4. CASE Conn(r) \in connected
    <3>1. out' = [out EXCEPT ![Conn(r)] = Append(@, job)] /\ queue' = queue
      BY <2>1, <2>3, <2>4 DEF Written
    <3> QED
      BY <2>2, <3>1, OutMail
  <2>5. CASE Conn(r) \notin connected
    <3>1. out' = out /\ queue' = queue
      BY <2>1, <2>5 DEF Written
    <3>2. \A x \in Used : SameMail(x)
      BY <3>1, SameBoxes
    <3> QED
      BY <2>5, <3>2 DEF Stopped
  <2> QED
    BY <2>4, <2>5
<1> QED
  BY <1>1, <1>2

\* A message that is sent or queued keeps the messages addressed.
LEMMA SentAddressed ==
    ASSUME Kinds, Addressed, NEW r \in Used, NEW job \in Jobs, job.req = r, req' = req,
           Sent(r, job) \/ (Queued(r, job) /\ ~OnHttp(r)),
           io' # None /\ io'.step = "erase" => ~OnHttp(io'.req)
    PROVE  Addressed'
<1>1. Conn(r) \in Conns /\ Used' = Used /\ (OnHttp(r) <=> Conn(r) \in Http) /\ Http \subseteq Conns
  BY UsedFacts, ConnAssumption DEF Used, OnHttp
<1>2. CASE OnHttp(r)
  <2>1. Written(r, job)
    BY <1>2 DEF Sent
  <2>2. ASSUME NEW d \in Conns, NEW m \in ToSet(out'[d]) PROVE m.req \in Used
    <3>1. PICK o \in Seq(Jobs) : o = out[d]
      BY DEF Kinds
    <3>2. ToSet(Append(o, job)) = ToSet(o) \cup {job}
      BY ToSetAppend
    <3>3. out'[d] = o \/ out'[d] = Append(o, job)
      BY <2>1, <3>1 DEF Written, Kinds
    <3> QED
      BY <2>2, <3>1, <3>2, <3>3 DEF Addressed
  <2>3. \A d \in Http : queue'[d] = <<>>
    BY <2>1 DEF Written, Addressed
  <2> QED
    BY <1>1, <2>2, <2>3 DEF Addressed, OnHttp, Conn
<1>3. CASE ~OnHttp(r)
  <2>1. Queued(r, job)
    BY <1>3 DEF Sent
  <2>2. \A d \in Http : queue'[d] = <<>>
    BY <1>1, <1>3, <2>1 DEF Queued, Addressed, Kinds
  <2> QED
    BY <1>1, <2>1, <2>2 DEF Addressed, OnHttp, Conn, Queued
<1> QED
  BY <1>2, <1>3

\* Steps that send nothing and queue nothing
LEMMA QuietAddressed ==
    ASSUME Kinds, Addressed, UNCHANGED <<out, queue>>, Used \subseteq Used',
           \A r \in Used : req'[r] = req[r],
           io' = io \/ (io' # None /\ io'.step = "erase" => io'.req \in Used /\ ~OnHttp(io'.req))
    PROVE  Addressed'
<1>1. io # None => io.req \in Used
  BY DEF Kinds
<1> QED
  BY <1>1 DEF Addressed, OnHttp, Conn

\* Steps that hand out nothing of r and parse no line of it
LEMMA StepSame ==
    ASSUME Kinds, NEW r \in Used, Delivering(r), Ending(r), SameMail(r), req'[r] = req[r],
           pos'[r] = pos[r], stream'[r] = stream[r] \/ pos[r] = 0,
           \A p \in 1..pos[r] : <<r, p>> \in swallowed' <=> <<r, p>> \in swallowed,
           InCallback(r, {"token"})' <=> InCallback(r, {"token"}),
           r \in finished' <=> r \in finished, Stopped(r) => Stopped(r)',
           (InCallback(r, {"error"})' <=> InCallback(r, {"error"})) \/ r \in finished
               \/ AnswerEnd(r) = "open"
    PROVE  Step(r)
<1>1. r \in Requests /\ pos[r] \in Nat
  BY DEF Kinds, Used
<1>2. /\ Pieces(r)' = Pieces(r) /\ (EndSeen(r)' <=> EndSeen(r))
      /\ (Failing(r)' <=> Failing(r)) => AnswerEnd(r)' = AnswerEnd(r)
  BY <1>1, AnswerStays
<1>3. SameAnswer(r) \/ AnswerEnd(r) = "open"
  BY <1>2 DEF SameAnswer, Failing
<1> QED
  BY <1>2, <1>3, StepStays

\* When a line of r is parsed that ends its answer, or the callback of its token ends, the
\* answer is open.
LEMMA OpenBefore ==
    ASSUME NEW r, ~EndSeen(r), r \notin finished, ~InCallback(r, {"error"})
    PROVE  AnswerEnd(r) = "open"
  BY AnswerEnds DEF Failing


\* A request that is made: its answer is open, or failed at once, and so has its client heard.
Begun(n) ==
    /\ Pieces(n)' = <<>> /\ HeardPieces(n)' = <<>> /\ Delivering(n)' /\ Ending(n)'
    /\ AnswerEnd(n)' = HeardEnd(n)' /\ AnswerEnd(n)' \in {"open", "failed"}

\* Before it is made there is no message of it and no line.
LEMMA Unheard ==
    ASSUME Basic, Whereabouts, ErasedAfterEnd, Addressed, NEW c \in Conns, NEW id \in Ids,
           Cardinality(Used) < MaxRequests, NEW n, n = Number,
           req' = [req EXCEPT ![n] = [conn |-> c, id |-> id]], UNCHANGED <<pos, io>>
    PROVE  /\ n \in Requests /\ n \notin Used /\ Used' = Used \cup {n} /\ Conn(n)' = c
           /\ \A x \in Used : x \in Requests /\ x # n /\ req'[x] = req[x]
           /\ out[c] \in Seq(Jobs) /\ PiecesIn(out[c], n) = <<>> /\ EndsIn(out[c], n) = <<>>
           /\ PiecesIn(queue[c], n) = <<>> /\ EndsIn(queue[c], n) = <<>>
           /\ Pieces(n)' = <<>> /\ ~EndSeen(n)' /\ n \notin finished
           /\ \A steps : ~InCallback(n, steps)'
<1>1. /\ n \in Requests /\ n \notin Used /\ Used' = Used \cup {n} /\ Conn(n)' = c
      /\ \A x \in Used : x \in Requests /\ x # n /\ req'[x] = req[x]
  BY NewRequest DEF Conn, Used
<1>2. out[c] \in Seq(Jobs) /\ queue[c] \in Seq(Jobs)
  BY DEF Basic, Kinds
<1>3. (\A m \in ToSet(out[c]) : m.req # n) /\ (\A m \in ToSet(queue[c]) : m.req # n)
  BY <1>1 DEF Addressed, ErasedAfterEnd
<1>4. /\ PiecesIn(out[c], n) = <<>> /\ EndsIn(out[c], n) = <<>>
      /\ PiecesIn(queue[c], n) = <<>> /\ EndsIn(queue[c], n) = <<>>
  BY <1>2, <1>3, NoMail
<1>5. pos'[n] = 0 /\ n \notin finished
  BY <1>1 DEF Whereabouts
<1>6. Pieces(n)' = <<>>
  <2>1. Pieces(n)' = Keep(Numbers(0), PieceLines(n)') /\ Numbers(0) = <<>>
    BY <1>5, NumbersFacts, EmptySeq DEF Pieces, Numbers, PieceLines
  <2> QED
    BY <2>1, KeepEmpty
<1>7. ~EndSeen(n)'
  BY <1>5 DEF EndSeen
<1>8. \A steps : ~InCallback(n, steps)'
  BY <1>1 DEF InCallback, Basic, Kinds
<1> QED
  BY <1>1, <1>2, <1>4, <1>5, <1>6, <1>7, <1>8

\* A request without messages, and one whose only message ends it
LEMMA BegunWith ==
    ASSUME NEW n, Pieces(n)' = <<>>, ~EndSeen(n)', ~InCallback(n, {"error"})',
           HeardPieces(n)' = <<>>, Coming(n)' = <<>>, EndsNext(n)' = <<>>,
           \/ EndsHeard(n)' = <<>> /\ n \notin finished'
           \/ /\ n \in finished'
              /\ \E job \in Jobs : job.type # "done" /\ EndsHeard(n)' = <<job>>
    PROVE  Begun(n)
<1>1. <<>> \in Seq(Nat) /\ <<>> \o <<>> = <<>> /\ ToSet(<<>>) = {} /\ Rising(<<>>)
  BY EmptySeq, ConcatEmptySeq DEF ToSet, Rising
<1>2. Delivering(n)'
  BY <1>1 DEF Delivering, Delivered
<1>3. AnswerEnd(n)' = IF n \in finished' THEN "failed" ELSE "open"
  BY AnswerEnds DEF Failing
<1>4. CASE EndsHeard(n)' = <<>> /\ n \notin finished'
  <2>1. Ending(n)' /\ HeardEnd(n)' = "open"
    BY <1>1, <1>4, HeardEnds DEF Ending
  <2> QED
    BY <1>2, <1>3, <1>4, <2>1 DEF Begun
<1>5. ASSUME NEW job \in Jobs, n \in finished', job.type # "done", EndsHeard(n)' = <<job>>
      PROVE  Begun(n)
  <2>1. ToSet(<<job>>) = {job} /\ <<job>> # <<>> /\ Head(<<job>>) = job
    BY DEF ToSet
  <2>2. HeardEnd(n)' = "failed"
    BY <1>5, <2>1, HeardEnds
  <2>3. Ending(n)'
    BY <1>1, <1>5, <2>1 DEF Ending
  <2> QED
    BY <1>2, <1>3, <1>5, <2>2, <2>3 DEF Begun
<1> QED
  BY <1>4, <1>5

\* process_chat and handle_chat: a request is submitted.
LEMMA ChatAnswers ==
    ASSUME Basic, Whereabouts, ErasedAfterEnd, Answering, NEW c \in Conns, NEW id \in Ids, Chat(c, id)
    PROVE  /\ Addressed' /\ \A x \in Used : Step(x)
           /\ \E n : Used' = Used \cup {n} /\ Begun(n)
<1>1. PICK n : n = Number
  OBVIOUS
<1>2. /\ Cardinality(Used) < MaxRequests /\ req' = [req EXCEPT ![n] = [conn |-> c, id |-> id]]
      /\ UNCHANGED <<connected, cancelled, ioVars, queue, out, history>>
  BY <1>1 DEF Chat, Number
<1>3. UNCHANGED <<stream, pos, io, swallowed, finished>> /\ Addressed /\ Kinds
  BY <1>2 DEF ioVars, history, Answering, Basic
<1>4. /\ n \in Requests /\ n \notin Used /\ Used' = Used \cup {n} /\ Conn(n)' = c
      /\ \A x \in Used : x \in Requests /\ x # n /\ req'[x] = req[x]
      /\ PiecesIn(out[c], n) = <<>> /\ EndsIn(out[c], n) = <<>>
      /\ PiecesIn(queue[c], n) = <<>> /\ EndsIn(queue[c], n) = <<>>
      /\ Pieces(n)' = <<>> /\ ~EndSeen(n)' /\ n \notin finished
      /\ ~InCallback(n, {"error"})'
  BY <1>1, <1>2, <1>3, Unheard
<1>5. Addressed'
  BY <1>2, <1>3, <1>4, QuietAddressed
<1>6. ASSUME NEW x \in Used PROVE Step(x)
  <2>1. Delivering(x) /\ Ending(x)
    BY DEF Answering
  <2>2. SameMail(x) /\ (Stopped(x) => Stopped(x)')
    BY <1>2, <1>4, SameBoxes DEF Stopped, Conn
  <2> QED
    BY <1>3, <1>4, <2>1, <2>2, StepSame DEF InCallback
<1>7. Begun(n)
  <2>1. /\ HeardPieces(n)' = <<>> /\ Coming(n)' = <<>>
        /\ EndsHeard(n)' = <<>> /\ EndsNext(n)' = <<>>
    BY <1>2, <1>4 DEF HeardPieces, Coming, EndsHeard, EndsNext
  <2> QED
    BY <1>3, <1>4, <2>1, BegunWith
<1> QED
  BY <1>1, <1>4, <1>5, <1>6, <1>7

\* process_chat and handle_chat: a request is refused.
LEMMA RefuseAnswers ==
    ASSUME Basic, Whereabouts, ErasedAfterEnd, Answering, NEW c \in Conns, NEW id \in Ids,
           NEW type \in {"error", "abort"}, Refuse(c, id, type)
    PROVE  /\ Addressed' /\ \A x \in Used : Step(x)
           /\ \E n : Used' = Used \cup {n} /\ Begun(n)
<1>1. PICK n : n = Number
  OBVIOUS
<1>2. PICK job : job = Job(n, type, 1)
  OBVIOUS
<1>3. /\ Cardinality(Used) < MaxRequests /\ req' = [req EXCEPT ![n] = [conn |-> c, id |-> id]]
      /\ out' = [out EXCEPT ![c] = Append(@, job)] /\ finished' = finished \cup {n}
      /\ UNCHANGED <<connected, cancelled, ioVars, queue, swallowed>>
  BY <1>1, <1>2 DEF Refuse, Number
<1>4. UNCHANGED <<stream, pos, io>> /\ Addressed /\ Kinds
  BY <1>3 DEF ioVars, Answering, Basic
<1>5. /\ n \in Requests /\ n \notin Used /\ Used' = Used \cup {n} /\ Conn(n)' = c
      /\ \A x \in Used : x \in Requests /\ x # n /\ req'[x] = req[x]
      /\ out[c] \in Seq(Jobs) /\ PiecesIn(out[c], n) = <<>> /\ EndsIn(out[c], n) = <<>>
      /\ PiecesIn(queue[c], n) = <<>> /\ EndsIn(queue[c], n) = <<>>
      /\ Pieces(n)' = <<>> /\ ~EndSeen(n)' /\ n \notin finished
      /\ ~InCallback(n, {"error"})'
  BY <1>1, <1>3, <1>4, Unheard
<1>6. /\ job \in Jobs /\ job.req = n /\ job.type = type
      /\ job \in EndJobs(n) /\ job \notin PieceJobs(n)
      /\ \A x \in Used : job \notin PieceJobs(x) /\ job \notin EndJobs(x)
  <2>1. job \in Jobs /\ job.req = n /\ job.type = type
    BY <1>2, <1>5, JobType DEF Types
  <2>2. job \in EndJobs(n) /\ job \notin PieceJobs(n)
    BY <2>1, JobSorts
  <2> QED
    BY <1>5, <2>1, <2>2, OthersJob
<1>7. out'[c] = Append(out[c], job) /\ \A d \in Conns \ {c} : out'[d] = out[d]
  BY <1>3, <1>4 DEF Kinds
<1>8. ASSUME NEW x
      PROVE  /\ PiecesIn(out'[c], x) = IF job \in PieceJobs(x) THEN Append(PiecesIn(out[c], x), job.at)
                                       ELSE PiecesIn(out[c], x)
             /\ EndsIn(out'[c], x) = IF job \in EndJobs(x) THEN Append(EndsIn(out[c], x), job)
                                     ELSE EndsIn(out[c], x)
  <2>1. PICK q \in Seq(Jobs) : q = out[c]
    BY <1>5
  <2>2. out'[c] = Append(q, job)
    BY <1>7, <2>1
  <2>3. /\ PiecesIn(Append(q, job), x) = IF job \in PieceJobs(x) THEN Append(PiecesIn(q, x), job.at)
                                         ELSE PiecesIn(q, x)
        /\ EndsIn(Append(q, job), x) = IF job \in EndJobs(x) THEN Append(EndsIn(q, x), job)
                                       ELSE EndsIn(q, x)
    BY <1>6, InAppend
  <2> QED
    BY <2>1, <2>2, <2>3
<1>9. Addressed'
  <2>1. ASSUME NEW d \in Conns, NEW m \in ToSet(out'[d]) PROVE m.req \in Used'
    <3>1. PICK q \in Seq(Jobs) : q = out[d]
      BY <1>4 DEF Kinds
    <3>2. ToSet(Append(q, job)) = ToSet(q) \cup {job}
      BY <1>6, ToSetAppend
    <3>3. out'[d] = q \/ out'[d] = Append(q, job)
      BY <1>7, <3>1
    <3>4. m \in ToSet(out[d]) \/ m = job
      BY <2>1, <3>1, <3>2, <3>3
    <3> QED
      BY <1>4, <1>5, <1>6, <3>4 DEF Addressed
  <2>2. io # None => io.req \in Used
    BY <1>4 DEF Kinds
  <2> QED
    BY <1>3, <1>4, <1>5, <2>1, <2>2 DEF Addressed, OnHttp, Conn
<1>10. ASSUME NEW x \in Used PROVE Step(x)
  <2>1. Delivering(x) /\ Ending(x)
    BY DEF Answering
  <2>2. Conn(x) \in Conns /\ Conn(x)' = Conn(x)
    BY <1>4, <1>5, UsedFacts DEF Conn
  <2>3. PiecesIn(out'[Conn(x)], x) = PiecesIn(out[Conn(x)], x)
    BY <1>6, <1>7, <1>8, <2>2
  <2>4. EndsIn(out'[Conn(x)], x) = EndsIn(out[Conn(x)], x)
    BY <1>6, <1>7, <1>8, <2>2
  <2>5. SameMail(x)
    BY <1>3, <2>2, <2>3, <2>4 DEF SameMail, HeardPieces, Coming, EndsHeard, EndsNext
  <2>6. Stopped(x) => Stopped(x)'
    BY <1>3, <2>2 DEF Stopped
  <2> QED
    BY <1>3, <1>4, <1>5, <2>1, <2>5, <2>6, StepSame DEF InCallback
<1>11. Begun(n)
  <2>1. HeardPieces(n)' = <<>> /\ Coming(n)' = <<>> /\ EndsNext(n)' = <<>>
    BY <1>3, <1>5, <1>6, <1>8 DEF HeardPieces, Coming, EndsNext
  <2>2. EndsHeard(n)' = Append(<<>>, job)
    BY <1>5, <1>6, <1>8 DEF EndsHeard
  <2>3. EndsHeard(n)' = <<job>>
    BY <2>2
  <2>4. job.type # "done" /\ n \in finished'
    BY <1>3, <1>6
  <2> QED
    BY <1>5, <1>6, <2>1, <2>3, <2>4, BegunWith
<1> QED
  BY <1>1, <1>5, <1>9, <1>10, <1>11


\* cancel: the message that is sent at once is no piece and no end.
LEMMA CancelAnswers ==
    ASSUME Basic, InFlightUsed, Answering, NEW c \in Conns, NEW id \in Ids, Cancel(c, id)
    PROVE  Addressed' /\ \A x \in Used : Step(x)
<1>1. PICK r : r = active[c][id]
  OBVIOUS
<1>2. PICK job : job = Job(r, "cancelled", 0)
  OBVIOUS
<1>3. r \in Used /\ req[r] = [conn |-> c, id |-> id] /\ cancelled' = cancelled \cup {r}
      /\ out' = [out EXCEPT ![c] = Append(@, job)]
      /\ UNCHANGED <<connected, req, ioVars, queue, history>>
  BY <1>1, <1>2 DEF Cancel, InFlightUsed
<1>4. UNCHANGED <<stream, pos, io, swallowed, finished>> /\ Addressed /\ Kinds /\ Conn(r) = c
  BY <1>3 DEF ioVars, history, Answering, Basic, Conn
<1>5. job \in Jobs /\ job.req = r /\ job.type = "cancelled"
  BY <1>2, <1>3, JobType DEF Types, Used
<1>6. \A x \in Used : SameMail(x)
  <2>1. job \notin PieceJobs(r) /\ job \notin EndJobs(r)
    BY <1>5, JobSorts
  <2> QED
    BY <1>3, <1>4, <1>5, <2>1, OutMail DEF SameMail
<1>7. Addressed'
  <2>1. ASSUME NEW d \in Conns, NEW m \in ToSet(out'[d]) PROVE m.req \in Used'
    <3>1. PICK q \in Seq(Jobs) : q = out[d]
      BY <1>4 DEF Kinds
    <3>2. ToSet(Append(q, job)) = ToSet(q) \cup {job}
      BY <1>5, ToSetAppend
    <3>3. out'[d] = q \/ out'[d] = Append(q, job)
      BY <1>3, <1>4, <3>1 DEF Kinds
    <3>4. m \in ToSet(out[d]) \/ m = job
      BY <2>1, <3>1, <3>2, <3>3
    <3> QED
      BY <1>3, <1>4, <1>5, <3>4 DEF Addressed, Used
  <2> QED
    BY <1>3, <1>4, <2>1 DEF Addressed, OnHttp, Conn
<1>8. ASSUME NEW x \in Used PROVE Step(x)
  <2>1. Delivering(x) /\ Ending(x)
    BY DEF Answering
  <2>2. SameMail(x) /\ (Stopped(x) => Stopped(x)')
    BY <1>3, <1>6 DEF Stopped, Conn
  <2> QED
    BY <1>3, <1>4, <2>1, <2>2, StepSame DEF InCallback
<1> QED
  BY <1>7, <1>8

\* Steps that touch neither what is sent and queued nor what is parsed
LEMMA QuietAnswers ==
    ASSUME Basic, Answering,
           UNCHANGED <<req, out, queue, stream, pos, swallowed, finished>>,
           cancelled \subseteq cancelled', connected' \subseteq connected,
           io' = io \/ ((io = None \/ io.step \notin {"token", "error"})
                        /\ (io' = None \/ io'.step \notin {"token", "error", "erase"}))
    PROVE  Addressed' /\ \A x \in Used : Step(x)
<1>1. Addressed'
  BY QuietAddressed DEF Answering, Basic, Used
<1>2. ASSUME NEW x \in Used PROVE Step(x)
  <2>1. Delivering(x) /\ Ending(x) /\ Kinds
    BY DEF Answering, Basic
  <2>2. SameMail(x) /\ (Stopped(x) => Stopped(x)')
    BY SameBoxes DEF Stopped, Conn
  <2>3. /\ InCallback(x, {"token"})' <=> InCallback(x, {"token"})
        /\ InCallback(x, {"error"})' <=> InCallback(x, {"error"})
    BY DEF InCallback
  <2> QED
    BY <2>1, <2>2, <2>3, StepSame
<1> QED
  BY <1>1, <1>2

\* The loop of a connection runs what is queued.
LEMMA RunLoopAnswers ==
    ASSUME Basic, ErasedAfterEnd, Answering, NEW c \in Conns, RunLoop(c)
    PROVE  Addressed' /\ \A x \in Used : Step(x)
<1>1. PICK o \in Seq(Jobs), q \in Seq(Jobs) : o = out[c] /\ q = queue[c]
  BY DEF Basic, Kinds
<1>2. /\ queue' = [queue EXCEPT ![c] = <<>>]
      /\ out' = IF c \in connected THEN [out EXCEPT ![c] = o \o Keep(q, Told)] ELSE out
      /\ UNCHANGED <<connected, req, cancelled, ioVars, history>>
  BY <1>1 DEF RunLoop
<1>3. UNCHANGED <<stream, pos, io, swallowed, finished>> /\ Addressed /\ Kinds
  BY <1>2 DEF ioVars, history, Answering, Basic
<1>4. /\ queue'[c] = <<>> /\ out'[c] = IF c \in connected THEN o \o Keep(q, Told) ELSE o
      /\ \A d \in Conns \ {c} : queue'[d] = queue[d] /\ out'[d] = out[d]
  BY <1>1, <1>2, <1>3 DEF Kinds
<1>5. ToSet(o \o Keep(q, Told)) \subseteq ToSet(o) \cup ToSet(q)
  <2>1. Keep(q, Told) \in Seq(Jobs) /\ ToSet(Keep(q, Told)) \subseteq ToSet(q)
    BY KeepFacts
  <2> QED
    BY <2>1, Concatenation
<1>6. Addressed'
  <2>1. ASSUME NEW d \in Conns, NEW m \in ToSet(out'[d]) PROVE m.req \in Used
    <3>1. m \in ToSet(out[d]) \/ m \in ToSet(queue[d])
      BY <1>1, <1>4, <1>5, <2>1
    <3> QED
      BY <1>3, <3>1 DEF Addressed, ErasedAfterEnd
  <2> QED
    BY <1>2, <1>3, <1>4, <2>1, ConnAssumption DEF Addressed, OnHttp, Conn, Used
<1>7. ASSUME NEW x \in Used, Conn(x) = c PROVE Step(x)
  <2>1. x \in Requests /\ pos[x] \in Nat /\ Delivering(x) /\ Ending(x)
    BY <1>3 DEF Answering, Kinds, Used
  <2>2. SameAnswer(x)
    <3>1. /\ Pieces(x)' = Pieces(x) /\ (EndSeen(x)' <=> EndSeen(x))
          /\ (Failing(x)' <=> Failing(x)) => AnswerEnd(x)' = AnswerEnd(x)
      BY <1>2, <1>3, <2>1, AnswerStays DEF InCallback
    <3> QED
      BY <1>3, <3>1 DEF SameAnswer, Failing, InCallback
  <2>3. /\ HeardPieces(x) = PiecesIn(o, x) /\ EndsHeard(x) = EndsIn(o, x)
        /\ Coming(x) = PiecesIn(q, x) /\ EndsNext(x) = EndsIn(q, x)
    BY <1>1, <1>7 DEF HeardPieces, EndsHeard, Coming, EndsNext
  <2>4. /\ HeardPieces(x)' = PiecesIn(out'[c], x) /\ EndsHeard(x)' = EndsIn(out'[c], x)
        /\ Coming(x)' = PiecesIn(<<>>, x) /\ EndsNext(x)' = EndsIn(<<>>, x)
    BY <1>2, <1>4, <1>7 DEF HeardPieces, EndsHeard, Coming, EndsNext, Conn
  <2>5. Coming(x)' = <<>> /\ EndsNext(x)' = <<>>
    BY <2>4, InNothing
  <2>6. Stopped(x)' <=> Stopped(x)
    BY <1>2 DEF Stopped, Conn
  <2>7. CASE c \in connected
    <3>1. /\ PiecesIn(o \o Keep(q, Told), x) = PiecesIn(o, x) \o PiecesIn(q, x)
          /\ EndsIn(o \o Keep(q, Told), x) = EndsIn(o, x) \o EndsIn(q, x)
      BY <2>1, InConcat
    <3>2. /\ HeardPieces(x)' = HeardPieces(x) \o Coming(x)
          /\ EndsHeard(x)' = EndsHeard(x) \o EndsNext(x)
      BY <1>4, <2>3, <2>4, <2>7, <3>1
    <3> QED
      BY <1>3, <2>1, <2>2, <2>5, <2>6, <3>2, StepLoop
  <2>8. CASE c \notin connected
    <3>1. HeardPieces(x)' = HeardPieces(x) /\ EndsHeard(x)' = EndsHeard(x) /\ Stopped(x)
      BY <1>4, <1>7, <2>3, <2>4, <2>8 DEF Stopped
    <3> QED
      BY <1>3, <2>1, <2>2, <2>5, <2>6, <3>1, StepLoop
  <2> QED
    BY <2>7, <2>8
<1>8. ASSUME NEW x \in Used, Conn(x) # c PROVE Step(x)
  <2>1. Conn(x) \in Conns /\ Delivering(x) /\ Ending(x)
    BY <1>3, UsedFacts DEF Answering
  <2>2. SameMail(x) /\ (Stopped(x) => Stopped(x)')
    BY <1>2, <1>4, <1>8, <2>1, SameBoxes DEF Stopped, Conn
  <2> QED
    BY <1>2, <1>3, <2>1, <2>2, StepSame DEF InCallback
<1> QED
  BY <1>6, <1>7, <1>8


\* add_transfer
LEMMA SubmissionAnswers ==
    ASSUME Basic, Whereabouts, Answering, AddTransferFails \/ \E s \in Streams : AddTransfer(s)
    PROVE  Addressed' /\ \A x \in Used : Step(x)
<1>1. PICK h : h = Head(local)
  OBVIOUS
<1>2. /\ local # <<>> /\ io = None
      /\ UNCHANGED <<connected, cancelled, req, out, queue, pos, swallowed, finished>>
      /\ stream' = stream \/ \E s \in Streams : stream' = [stream EXCEPT ![h] = s]
      /\ io' = None \/ (OnError(h, FALSE) /\ stream' = stream)
  BY <1>1 DEF AddTransferFails, AddTransfer, history, loopVars
<1>3. h \in Used /\ h \in Waiting /\ Kinds /\ Addressed
  BY <1>1, <1>2, NextSubmission DEF Waiting, Basic, Answering
<1>4. pos[h] = 0 /\ h \notin finished
  BY <1>3 DEF Whereabouts
<1>5. io' = None \/ (io' \in Callbacks /\ io'.req = h /\ io'.step = "error" /\ io' # None)
  BY <1>2, <1>3, OnErrorType
<1>6. Addressed'
  BY <1>2, <1>3, <1>5, QuietAddressed DEF Used
<1>7. AnswerEnd(h) = "open"
  BY <1>2, <1>4, OpenBefore DEF EndSeen, InCallback
<1>8. ASSUME NEW x \in Used PROVE Step(x)
  <2>1. Delivering(x) /\ Ending(x) /\ x \in Requests
    BY DEF Answering, Used
  <2>2. SameMail(x) /\ (Stopped(x) => Stopped(x)')
    BY <1>2, SameBoxes DEF Stopped, Conn
  <2>3. stream'[x] = stream[x] \/ pos[x] = 0
    BY <1>2, <1>3, <1>4, <2>1 DEF Kinds
  <2>4. /\ InCallback(x, {"token"})' <=> InCallback(x, {"token"})
        /\ x # h => ~InCallback(x, {"error"})' /\ ~InCallback(x, {"error"})
    BY <1>2, <1>5 DEF InCallback
  <2> QED
    BY <1>2, <1>3, <1>7, <2>1, <2>2, <2>3, <2>4, StepSame
<1> QED
  BY <1>6, <1>8

\* reap_finished calls on_error: no line has ended the answer, and it is open.
LEMMA ReapFailedAnswers ==
    ASSUME \A s \in Streams : Clean(s), Basic, Whereabouts, Answering, NEW r \in Requests, ReapFailed(r)
    PROVE  Addressed' /\ \A x \in Used : Step(x)
<1>1. /\ io = None /\ r \in transfers /\ r \in Used /\ stream[r].end # "ok" /\ OnError(r, TRUE)
      /\ UNCHANGED <<connected, cancelled, req, out, queue, pos, stream, swallowed, finished>>
      /\ Kinds /\ Addressed
  BY DEF ReapFailed, history, loopVars, Basic, Kinds, Answering
<1>2. io' \in Callbacks /\ io'.req = r /\ io'.step = "error" /\ io' # None
  BY <1>1, OnErrorType
<1>3. Transfer(r)
  BY <1>1 DEF Whereabouts
<1>4. ~EndParsed(r)
  BY <1>1, <1>3 DEF Clean, EndParsed, Transfer
<1>5. ~EndSeen(r) /\ r \notin finished
  BY <1>1, <1>3, <1>4, NoEndSeen DEF Transfer, Reaping, InCallback
<1>6. AnswerEnd(r) = "open"
  BY <1>1, <1>5, OpenBefore DEF InCallback
<1>7. Addressed'
  BY <1>1, <1>2, QuietAddressed DEF Used
<1>8. ASSUME NEW x \in Used PROVE Step(x)
  <2>1. Delivering(x) /\ Ending(x)
    BY DEF Answering
  <2>2. SameMail(x) /\ (Stopped(x) => Stopped(x)')
    BY <1>1, SameBoxes DEF Stopped, Conn
  <2>3. /\ InCallback(x, {"token"})' <=> InCallback(x, {"token"})
        /\ x # r => ~InCallback(x, {"error"})' /\ ~InCallback(x, {"error"})
    BY <1>1, <1>2 DEF InCallback
  <2> QED
    BY <1>1, <1>6, <2>1, <2>2, <2>3, StepSame
<1> QED
  BY <1>7, <1>8

\* A line is about to be parsed: the answer is open, unless it is the fragment of a tool call.
LEMMA LineFacts ==
    ASSUME \A s \in Streams : Tidy(s), Basic, Whereabouts, Parsing, NEW r \in Requests, NEW l \in Lines,
           NextLine(r, l)
    PROVE  /\ r \in Used /\ r \in transfers /\ io = None
           /\ pos[r] \in Nat /\ pos'[r] = pos[r] + 1 /\ stream[r].events[pos[r] + 1] = l
           /\ \A x \in Requests \ {r} : pos'[x] = pos[x]
           /\ <<r, pos[r] + 1>> \notin swallowed
           /\ l # "fragment" => AnswerEnd(r) = "open" /\ r \notin finished
<1>1. /\ r \in transfers /\ r \in Used /\ io = None /\ stream[r].events[pos[r] + 1] = l
      /\ pos \in [Requests -> Nat] /\ pos' = [pos EXCEPT ![r] = @ + 1]
      /\ pos[r] < Len(stream[r].events)
  BY DEF NextLine, Basic, Kinds
<1>2. /\ pos[r] \in Nat /\ pos'[r] = pos[r] + 1
      /\ \A x \in Requests \ {r} : pos'[x] = pos[x]
  BY <1>1
<1>3. <<r, pos[r] + 1>> \notin swallowed
  <2> SUFFICES ASSUME <<r, pos[r] + 1>> \in swallowed PROVE FALSE
    OBVIOUS
  <2>1. pos[r] + 1 <= pos[r]
    BY DEF Parsing, SwallowedOnce
  <2> QED
    BY <1>2, <2>1
<1>4. Transfer(r)
  BY <1>1 DEF Whereabouts
<1>5. PICK s \in Streams : s = stream[r]
  BY <1>4 DEF Transfer
<1>6. Len(s.events) \in Nat
  BY StreamAssumption, LenProperties
<1>7. PICK n \in Nat : n = pos[r]
  BY <1>2
<1>8. n + 1 \in 1..Len(s.events) /\ s.events[n + 1] = l
  BY <1>1, <1>5, <1>6, <1>7
<1>9. ASSUME l # "fragment", NEW p \in EndLines(s), p <= n PROVE FALSE
  <2>1. p \in 1..Len(s.events)
    BY <1>9 DEF EndLines
  <2>2. CASE l = "token"
    BY <1>7, <1>8, <1>9, <2>1, <2>2 DEF Tidy
  <2>3. CASE l # "token"
    <3>1. n + 1 \in EndLines(s)
      BY <1>8, <1>9, <2>3 DEF EndLines, Lines
    <3>2. p = n + 1
      BY <1>9, <3>1 DEF Tidy, Clean
    <3> QED
      BY <1>7, <1>9, <2>1, <3>2
  <2> QED
    BY <2>2, <2>3
<1>10. ASSUME l # "fragment" PROVE ~EndParsed(r)
  BY <1>5, <1>7, <1>9, <1>10 DEF EndParsed
<1>11. ASSUME l # "fragment" PROVE AnswerEnd(r) = "open" /\ r \notin finished
  <2>1. ~EndSeen(r) /\ r \notin finished
    BY <1>1, <1>4, <1>10, <1>11, NoEndSeen DEF Transfer, Reaping, InCallback
  <2> QED
    BY <1>1, <2>1, OpenBefore DEF InCallback
<1> QED
  BY <1>1, <1>2, <1>3, <1>11


\* A step of the I/O thread on r, for the other requests
LEMMA OtherAnswers ==
    ASSUME Kinds, Answering, NEW r, NEW x \in Used \ {r}, SameMail(x),
           UNCHANGED <<req, cancelled, connected, stream>>, pos'[x] = pos[x],
           swallowed' = swallowed \/ \E n : swallowed' = swallowed \cup {<<r, n>>},
           x \in finished' <=> x \in finished,
           io = None \/ io.req = r, io' = None \/ io'.req = r
    PROVE  Step(x)
<1>1. Delivering(x) /\ Ending(x)
  BY DEF Answering
<1>2. \A p \in 1..pos[x] : <<x, p>> \in swallowed' <=> <<x, p>> \in swallowed
  OBVIOUS
<1>3. /\ ~InCallback(x, {"token"})' /\ ~InCallback(x, {"token"})
      /\ ~InCallback(x, {"error"})' /\ ~InCallback(x, {"error"})
  BY DEF InCallback
<1>4. Stopped(x) => Stopped(x)'
  BY DEF Stopped, Conn
<1> QED
  BY <1>1, <1>2, <1>3, <1>4, StepSame

\* A token is parsed: it is a piece at once if the client has stopped the request.
LEMMA TokenAnswers ==
    ASSUME \A s \in Streams : Tidy(s), Basic, Whereabouts, Parsing, Answering,
           NEW r \in Requests, Token(r)
    PROVE  Addressed' /\ \A x \in Used : Step(x)
<1>1. NextLine(r, "token") /\ "token" \in Lines
  BY DEF Token, Lines
<1>2. PICK n \in Nat : n = pos[r]
  BY <1>1, LineFacts
<1>3. /\ r \in Used /\ io = None
      /\ pos[r] = n /\ pos'[r] = n + 1 /\ stream[r].events[n + 1] = "token"
      /\ \A x \in Requests \ {r} : pos'[x] = pos[x]
      /\ <<r, n + 1>> \notin swallowed
      /\ AnswerEnd(r) = "open" /\ r \notin finished
  BY <1>1, <1>2, LineFacts
<1>4. /\ io' = IF r \in cancelled THEN None
               ELSE [step |-> "token", req |-> r, send |-> TRUE, reap |-> FALSE]
      /\ UNCHANGED <<req, cancelled, connected, stream, swallowed, finished, out, queue>>
      /\ Kinds /\ Addressed /\ Delivering(r) /\ Ending(r)
  BY <1>3 DEF Token, loopVars, history, Basic, Answering
<1>5. io' = None \/ (io' # None /\ io'.step = "token" /\ io'.req = r)
  <2>1. [step |-> "token", req |-> r, send |-> TRUE, reap |-> FALSE] \in Callbacks
    BY DEF Callbacks
  <2> QED
    BY <1>4, <2>1, NoneIsNothing
<1>6. Addressed'
  BY <1>4, <1>5, QuietAddressed DEF Used
<1>7. \A x \in Used : SameMail(x)
  BY <1>4, SameBoxes
<1>8. ASSUME NEW x \in Used \ {r} PROVE Step(x)
  <2>1. pos'[x] = pos[x]
    BY <1>3, <1>8 DEF Used
  <2> QED
    BY <1>3, <1>4, <1>5, <1>7, <1>8, <2>1, OtherAnswers
<1>9. /\ Pieces(r)' = IF IsPiece(r, n + 1)' THEN Append(Pieces(r), n + 1) ELSE Pieces(r)
      /\ EndSeen(r)' <=> EndSeen(r)
  BY <1>3, <1>4, LineParsed
<1>10. IsPiece(r, n + 1)' <=> io' = None
  BY <1>3, <1>4, <1>5 DEF IsPiece
<1>11. (Stopped(r)' <=> Stopped(r)) /\ SameMail(r)
  BY <1>3, <1>4, <1>7 DEF Stopped, Conn
<1>12. ASSUME io' = None PROVE Step(r)
  <2>1. Stopped(r)
    <3>1. [step |-> "token", req |-> r, send |-> TRUE, reap |-> FALSE] \in Callbacks
      BY DEF Callbacks
    <3> QED
      BY <1>4, <1>12, <3>1, NoneIsNothing DEF Stopped
  <2>2. n + 1 \in Nat /\ Pieces(r) \in Seq(Nat) /\ ToSet(Pieces(r)) = PieceLines(r)
    BY <1>3, PiecesFacts
  <2>3. \A p \in ToSet(Pieces(r)) : p < n + 1
    BY <1>3, <2>2 DEF PieceLines
  <2>4. Pieces(r)' = Append(Pieces(r), n + 1)
    BY <1>9, <1>10, <1>12
  <2> QED
    BY <1>3, <1>4, <1>11, <2>1, <2>2, <2>3, <2>4, StepPiece DEF SameMail
<1>13. ASSUME io' # None PROVE Step(r)
  BY <1>3, <1>4, <1>9, <1>10, <1>11, <1>13, StepStays
<1> QED
  BY <1>6, <1>8, <1>12, <1>13

\* A line that is neither a token nor the finish of a tool call: no piece
LEMMA LineAnswers ==
    ASSUME \A s \in Streams : Tidy(s), Basic, Whereabouts, Parsing, Answering,
           NEW r \in Requests, Fragment(r) \/ Done(r)
    PROVE  Addressed' /\ \A x \in Used : Step(x)
<1>1. PICK l \in {"fragment", "done"} : /\ NextLine(r, l) /\ l \in Lines
                                        /\ l = "fragment" => io' = io
                                        /\ l = "done" => OnDone(r)
  BY DEF Fragment, Done, Lines
<1>2. PICK n \in Nat : n = pos[r]
  BY <1>1, LineFacts
<1>3. /\ r \in Used /\ io = None
      /\ pos[r] = n /\ pos'[r] = n + 1 /\ stream[r].events[n + 1] = l
      /\ \A x \in Requests \ {r} : pos'[x] = pos[x]
      /\ l = "done" => AnswerEnd(r) = "open"
  BY <1>1, <1>2, LineFacts
<1>4. /\ UNCHANGED <<req, cancelled, connected, stream, swallowed, finished, out, queue>>
      /\ Kinds /\ Addressed /\ Delivering(r) /\ Ending(r)
  BY <1>3 DEF Fragment, Done, loopVars, history, Basic, Answering
<1>5. io' = None \/ (io' # None /\ io'.step = "done" /\ io'.req = r)
  <2>1. [step |-> "done", req |-> r, send |-> TRUE, reap |-> FALSE] \in Callbacks
    BY DEF Callbacks
  <2> QED
    BY <1>1, <1>3, <2>1, NoneIsNothing DEF OnDone
<1>6. Addressed'
  BY <1>4, <1>5, QuietAddressed DEF Used
<1>7. \A x \in Used : SameMail(x)
  BY <1>4, SameBoxes
<1>8. ASSUME NEW x \in Used \ {r} PROVE Step(x)
  <2>1. pos'[x] = pos[x]
    BY <1>3, <1>8 DEF Used
  <2> QED
    BY <1>3, <1>4, <1>5, <1>7, <1>8, <2>1, OtherAnswers
<1>9. /\ Pieces(r)' = IF IsPiece(r, n + 1)' THEN Append(Pieces(r), n + 1) ELSE Pieces(r)
      /\ EndSeen(r)' <=> EndSeen(r) \/ l \in {"done", "finish"}
  BY <1>3, <1>4, LineParsed
<1>10. ~IsPiece(r, n + 1)'
  BY <1>3, <1>4 DEF IsPiece
<1>11. (Stopped(r)' <=> Stopped(r)) /\ SameMail(r)
  BY <1>3, <1>4, <1>7 DEF Stopped, Conn
<1>12. l = "fragment" => SameAnswer(r)
  <2>1. ~InCallback(r, {"error"})' /\ ~InCallback(r, {"error"})
    BY <1>3, <1>5 DEF InCallback
  <2>2. Failing(r)' <=> Failing(r)
    BY <1>4, <2>1 DEF Failing
  <2>3. l = "fragment" => (EndSeen(r)' <=> EndSeen(r))
    BY <1>9
  <2> QED
    BY <1>9, <1>10, <2>2, <2>3, AnswerEnds DEF SameAnswer
<1>13. Step(r)
  BY <1>1, <1>3, <1>4, <1>9, <1>10, <1>11, <1>12, StepStays
<1> QED
  BY <1>6, <1>8, <1>13

\* The line that finishes a tool call: over a WebSocket the call is a piece, if there is one.
LEMMA FinishAnswers ==
    ASSUME \A s \in Streams : Tidy(s), Basic, Whereabouts, Parsing, Answering,
           NEW r \in Requests, Finish(r)
    PROVE  Addressed' /\ \A x \in Used : Step(x)
<1>1. NextLine(r, "finish") /\ "finish" \in Lines /\ OnDone(r)
  BY DEF Finish, Lines
<1>2. PICK n \in Nat : n = pos[r]
  BY <1>1, LineFacts
<1>3. /\ r \in Used /\ r \in transfers /\ io = None
      /\ pos[r] = n /\ pos'[r] = n + 1 /\ stream[r].events[n + 1] = "finish"
      /\ \A x \in Requests \ {r} : pos'[x] = pos[x]
      /\ AnswerEnd(r) = "open"
  BY <1>1, <1>2, LineFacts
<1>4. PICK job : job = Job(r, "tool_call", n + 1)
  OBVIOUS
<1>5. /\ UNCHANGED <<req, cancelled, connected, stream, swallowed, finished>>
      /\ IF r \in fragment /\ ~OnHttp(r) THEN Queued(r, job) ELSE UNCHANGED <<queue, out>>
      /\ Kinds /\ Addressed /\ Delivering(r) /\ Ending(r)
  BY <1>3, <1>4 DEF Finish, loopVars, history, Basic, Answering
<1>6. io' # None /\ io'.step = "done" /\ io'.req = r
  <2>1. [step |-> "done", req |-> r, send |-> TRUE, reap |-> FALSE] \in Callbacks
    BY DEF Callbacks
  <2> QED
    BY <1>1, <2>1, NoneIsNothing DEF OnDone
<1>7. job \in Jobs /\ job.req = r /\ job.at = n + 1 /\ job \in PieceJobs(r) /\ job \notin EndJobs(r)
  <2>1. job \in Jobs /\ job.req = r /\ job.type = "tool_call" /\ job.at = n + 1
    BY <1>4, JobType DEF Types, Job
  <2> QED
    BY <2>1, JobSorts
<1>8. /\ Pieces(r)' = IF IsPiece(r, n + 1)' THEN Append(Pieces(r), n + 1) ELSE Pieces(r)
      /\ Stopped(r)' <=> Stopped(r)
  BY <1>3, <1>5, LineParsed DEF Stopped, Conn
<1>9. IsPiece(r, n + 1)' <=> r \in fragment /\ ~OnHttp(r)
  <2>1. r \in fragment <=> FromFragment(r, n + 1)
    BY <1>3 DEF Parsing, Fragments
  <2>2. FromFragment(r, n + 1)' <=> FromFragment(r, n + 1)
    BY <1>5 DEF FromFragment
  <2>3. OnHttp(r)' <=> OnHttp(r)
    BY <1>5 DEF OnHttp, Conn
  <2> QED
    BY <1>3, <1>5, <2>1, <2>2, <2>3 DEF IsPiece
<1>10. /\ Addressed' /\ \A x \in Used \ {r} : SameMail(x)
       /\ Step(r)
  <2>1. CASE r \in fragment /\ ~OnHttp(r)
    <3>1. Queued(r, job)
      BY <1>5, <2>1
    <3>2. Addressed'
      BY <1>3, <1>5, <1>6, <1>7, <2>1, <3>1, SentAddressed
    <3>3. /\ \A x \in Used \ {r} : SameMail(x)
          /\ HeardPieces(r)' = HeardPieces(r) /\ EndsHeard(r)' = EndsHeard(r)
          /\ Coming(r)' = Append(Coming(r), n + 1) /\ EndsNext(r)' = EndsNext(r)
      BY <1>3, <1>5, <1>7, <3>1, QueuedMail
    <3>4. n + 1 \in Nat /\ Pieces(r) \in Seq(Nat) /\ ToSet(Pieces(r)) = PieceLines(r)
      BY <1>3, PiecesFacts
    <3>5. \A p \in ToSet(Pieces(r)) : p < n + 1
      BY <1>3, <3>4 DEF PieceLines
    <3>6. Pieces(r)' = Append(Pieces(r), n + 1)
      BY <1>8, <1>9, <2>1
    <3> QED
      BY <1>3, <1>5, <1>8, <3>2, <3>3, <3>4, <3>5, <3>6, StepPiece
  <2>2. CASE ~(r \in fragment /\ ~OnHttp(r))
    <3>1. UNCHANGED <<queue, out>>
      BY <1>5, <2>2
    <3>2. Addressed'
      BY <1>5, <1>6, <3>1, QuietAddressed DEF Used
    <3>3. \A x \in Used : SameMail(x)
      BY <1>5, <3>1, SameBoxes
    <3>4. Pieces(r)' = Pieces(r)
      BY <1>8, <1>9, <2>2
    <3> QED
      BY <1>3, <1>5, <1>8, <3>2, <3>3, <3>4, StepStays
  <2> QED
    BY <2>1, <2>2
<1>11. ASSUME NEW x \in Used \ {r} PROVE Step(x)
  <2>1. pos'[x] = pos[x]
    BY <1>3, <1>11 DEF Used
  <2> QED
    BY <1>3, <1>5, <1>6, <1>10, <1>11, <2>1, OtherAnswers
<1> QED
  BY <1>10, <1>11


\* on_token ends: what the plugins leave of the token is a piece, and is sent.
LEMMA TokenSendAnswers ==
    ASSUME \A s \in Streams : Tidy(s), Basic, Whereabouts, Parsing, Answering,
           NEW keep \in BOOLEAN, TokenSend(keep)
    PROVE  Addressed' /\ \A x \in Used : Step(x)
<1>1. PICK r : r = io.req
  OBVIOUS
<1>2. /\ r \in Used /\ r \in Requests /\ pos[r] >= 1 /\ stream[r].events[pos[r]] = "token"
      /\ r \notin finished /\ r \in transfers /\ io # None /\ io.step = "token" /\ pos[r] \in Nat
  BY <1>1, IoFacts, InHandFacts DEF TokenSend, Parsing, AtHand, InHand, Basic
<1>3. PICK n \in Nat : pos[r] = n + 1
  <2>1. pos[r] - 1 \in Nat /\ pos[r] = (pos[r] - 1) + 1
    BY <1>2
  <2> QED
    BY <2>1
<1>4. PICK job : job = Job(r, "token", n + 1)
  OBVIOUS
<1>5. /\ IF keep THEN Sent(r, job) ELSE UNCHANGED <<queue, out>>
      /\ swallowed' = IF keep THEN swallowed ELSE swallowed \cup {<<r, n + 1>>}
      /\ io' = None /\ UNCHANGED <<req, cancelled, connected, pos, stream, finished>>
      /\ Kinds /\ Addressed /\ Delivering(r) /\ Ending(r)
  BY <1>1, <1>2, <1>3, <1>4 DEF TokenSend, loopVars, Basic, Answering
<1>6. job \in Jobs /\ job.req = r /\ job.at = n + 1 /\ job \in PieceJobs(r) /\ job \notin EndJobs(r)
  <2>1. job \in Jobs /\ job.req = r /\ job.type = "token" /\ job.at = n + 1
    BY <1>2, <1>4, JobType DEF Types, Job
  <2> QED
    BY <2>1, JobSorts
<1>7. InCallback(r, {"token"}) /\ ~InCallback(r, {"error"}) /\ stream[r].events[n + 1] = "token"
  BY <1>1, <1>2, <1>3 DEF InCallback
<1>8. <<r, n + 1>> \notin swallowed
  BY <1>3, <1>7 DEF Parsing, SwallowedOnce
<1>9. /\ Pieces(r)' = IF keep THEN Append(Pieces(r), n + 1) ELSE Pieces(r)
      /\ \A p \in ToSet(Pieces(r)) : p < n + 1
  <2>1. \A p \in 1..n : <<r, p>> \in swallowed' <=> <<r, p>> \in swallowed
    BY <1>5
  <2>2. <<r, n + 1>> \in swallowed' <=> ~keep
    BY <1>5, <1>8
  <2> QED
    BY <1>2, <1>3, <1>5, <1>7, <1>8, <2>1, <2>2, TokenKept
<1>10. ~EndSeen(r)
  <2>1. Transfer(r)
    BY <1>2 DEF Whereabouts
  <2>2. PICK s \in Streams : s = stream[r]
    BY <2>1 DEF Transfer
  <2>3. Len(s.events) \in Nat /\ n + 1 \in 1..Len(s.events) /\ s.events[n + 1] = "token"
    BY <1>2, <1>3, <2>1, <2>2, StreamAssumption, LenProperties DEF Transfer
  <2>4. \A p \in EndLines(s) : n + 1 < p
    BY <2>3 DEF Tidy
  <2>5. ~EndParsed(r)
    BY <1>3, <2>2, <2>3, <2>4 DEF EndParsed, EndLines
  <2> QED
    BY <1>2, <2>5, NoEndSeen
<1>11. AnswerEnd(r) = "open"
  BY <1>2, <1>7, <1>10, OpenBefore
<1>12. Stopped(r)' <=> Stopped(r)
  BY <1>5 DEF Stopped, Conn
<1>13. Addressed' /\ (\A x \in Used \ {r} : SameMail(x)) /\ Step(r)
  <2>1. CASE keep
    <3>1. Sent(r, job)
      BY <1>5, <2>1
    <3>2. Addressed'
      BY <1>2, <1>5, <1>6, <3>1, SentAddressed
    <3>3. /\ \A x \in Used \ {r} : SameMail(x)
          /\ \/ /\ HeardPieces(r)' = HeardPieces(r) /\ EndsHeard(r)' = EndsHeard(r)
                /\ Coming(r)' = Append(Coming(r), n + 1) /\ EndsNext(r)' = EndsNext(r)
             \/ /\ Coming(r) = <<>> /\ Coming(r)' = Coming(r) /\ EndsNext(r)' = EndsNext(r)
                /\ HeardPieces(r)' = Append(HeardPieces(r), n + 1) /\ EndsHeard(r)' = EndsHeard(r)
             \/ SameMail(r) /\ Stopped(r)
      BY <1>2, <1>5, <1>6, <3>1, SentMail
    <3>4. n + 1 \in Nat /\ Pieces(r) \in Seq(Nat) /\ Pieces(r)' = Append(Pieces(r), n + 1)
      BY <1>2, <1>9, <2>1, PiecesFacts
    <3>5. Step(r)
      BY <1>2, <1>5, <1>9, <1>11, <1>12, <3>3, <3>4, StepPiece DEF SameMail
    <3> QED
      BY <3>2, <3>3, <3>5
  <2>2. CASE ~keep
    <3>1. UNCHANGED <<queue, out>> /\ Pieces(r)' = Pieces(r)
      BY <1>5, <1>9, <2>2
    <3>2. Addressed' /\ \A x \in Used : SameMail(x)
      BY <1>5, <3>1, QuietAddressed, SameBoxes DEF Used
    <3> QED
      BY <1>2, <1>5, <1>11, <1>12, <3>1, <3>2, StepStays
  <2> QED
    BY <2>1, <2>2
<1>14. ASSUME NEW x \in Used \ {r} PROVE Step(x)
  BY <1>1, <1>2, <1>5, <1>13, <1>14, OtherAnswers
<1> QED
  BY <1>13, <1>14

\* on_done and on_error send the end of the answer.
LEMMA EndSendAnswers ==
    ASSUME Basic, Whereabouts, Parsing, Answering, DoneSend \/ ErrorSend
    PROVE  Addressed' /\ \A x \in Used : Step(x)
<1>1. PICK r : r = io.req
  OBVIOUS
<1>2. /\ io # None /\ io.step \in {"done", "error"} /\ r \in Used /\ r \in Requests
      /\ pos[r] \in Nat /\ r \notin finished
  BY <1>1, IoFacts, InHandFacts DEF DoneSend, ErrorSend, InHand, Basic
<1>3. PICK job : /\ DoneSend => job = Job(r, "done", pos[r])
                 /\ ErrorSend => job = Job(r, "error", pos[r] + 1)
  <2>1. ~(DoneSend /\ ErrorSend)
    BY DEF DoneSend, ErrorSend
  <2> QED
    BY <2>1
<1>4. /\ Sent(r, job) \/ UNCHANGED <<queue, out>>
      /\ finished' = finished \cup {r}
      /\ UNCHANGED <<req, cancelled, connected, pos, stream, swallowed>>
      /\ \E reap \in BOOLEAN : io' = NextStep(r, reap)
      /\ Kinds /\ Addressed /\ Delivering(r) /\ Ending(r)
  BY <1>1, <1>2, <1>3, InHandFacts DEF DoneSend, ErrorSend, loopVars, Basic, Answering
<1>5. /\ job \in Jobs /\ job.req = r /\ job \notin PieceJobs(r) /\ job \in EndJobs(r)
      /\ job.type = "done" <=> EndSeen(r)
  <2>1. ASSUME DoneSend
        PROVE  /\ job \in Jobs /\ job.req = r /\ job.type = "done"
               /\ EndSeen(r)
    BY <1>1, <1>2, <1>3, <2>1, JobType DEF Types, DoneSend, Parsing, AtHand
  <2>2. ASSUME ErrorSend
        PROVE  /\ job \in Jobs /\ job.req = r /\ job.type = "error"
               /\ ~EndSeen(r)
    BY <1>1, <1>2, <1>3, <2>2, JobType DEF Types, ErrorSend, Parsing, AtHand
  <2> QED
    BY <2>1, <2>2, JobSorts
<1>6. io' # None => /\ io'.req = r /\ io'.step \notin {"token", "error", "done"}
                    /\ io'.step = "erase" => ~OnHttp(io'.req)
  <2>1. io \in Callbacks
    BY <1>2, IoFacts DEF Basic
  <2> QED
    BY <1>1, <1>4, <2>1 DEF NextStep, Callbacks, OnHttp, Conn
<1>7. SameAnswer(r)
  <2>1. ~InCallback(r, {"token"})' /\ ~InCallback(r, {"token"})
    BY <1>2, <1>6 DEF InCallback
  <2>2. /\ Pieces(r)' = Pieces(r) /\ (EndSeen(r)' <=> EndSeen(r))
        /\ (Failing(r)' <=> Failing(r)) => AnswerEnd(r)' = AnswerEnd(r)
    BY <1>2, <1>4, <2>1, AnswerStays
  <2>3. ~EndSeen(r) => io.step = "error"
    BY <1>1, <1>2 DEF Parsing, AtHand
  <2>4. Failing(r)' /\ (~EndSeen(r) => Failing(r))
    BY <1>1, <1>2, <1>4, <2>3 DEF Failing, InCallback
  <2> QED
    BY <2>2, <2>4, AnswerEnds DEF SameAnswer
<1>8. (Stopped(r)' <=> Stopped(r)) /\ r \in finished'
  BY <1>4 DEF Stopped, Conn
<1>9. Addressed' /\ (\A x \in Used \ {r} : SameMail(x)) /\ Step(r)
  <2>1. CASE Sent(r, job)
    <3>1. Addressed'
      BY <1>2, <1>4, <1>5, <1>6, <2>1, SentAddressed
    <3>2. /\ \A x \in Used \ {r} : SameMail(x)
          /\ \/ /\ HeardPieces(r)' = HeardPieces(r) /\ EndsHeard(r)' = EndsHeard(r)
                /\ Coming(r)' = Coming(r) /\ EndsNext(r)' = Append(EndsNext(r), job)
             \/ /\ Coming(r) = <<>> /\ Coming(r)' = Coming(r) /\ EndsNext(r)' = EndsNext(r)
                /\ HeardPieces(r)' = HeardPieces(r) /\ EndsHeard(r)' = Append(EndsHeard(r), job)
             \/ SameMail(r) /\ Stopped(r)
      BY <1>2, <1>4, <1>5, <2>1, SentMail
    <3>3. Step(r)
      BY <1>2, <1>4, <1>5, <1>7, <1>8, <3>2, StepEnd DEF SameMail
    <3> QED
      BY <3>1, <3>2, <3>3
  <2>2. CASE UNCHANGED <<queue, out>>
    <3>1. Addressed'
      BY <1>2, <1>4, <1>6, <2>2, QuietAddressed DEF Used
    <3>2. \A x \in Used : SameMail(x)
      BY <1>4, <2>2, SameBoxes
    <3>3. Step(r)
      BY <1>2, <1>4, <1>5, <1>7, <1>8, <3>2, StepEnd DEF SameMail
    <3> QED
      BY <3>1, <3>2, <3>3
  <2> QED
    BY <1>4, <2>1, <2>2
<1>10. ASSUME NEW x \in Used \ {r} PROVE Step(x)
  <2>1. x \in finished' <=> x \in finished
    BY <1>4, <1>10
  <2> QED
    BY <1>1, <1>4, <1>6, <1>9, <1>10, <2>1, OtherAnswers
<1> QED
  BY <1>9, <1>10

\* on_done and on_error end: the erasure that is queued is no message.
LEMMA QueueEraseAnswers ==
    ASSUME Basic, Answering, QueueErase
    PROVE  Addressed' /\ \A x \in Used : Step(x)
<1>1. PICK r : r = io.req
  OBVIOUS
<1>2. PICK job : job = Job(r, "erase", 0)
  OBVIOUS
<1>3. /\ io # None /\ io.step = "erase" /\ r \in Used /\ r \in Requests /\ io \in Callbacks
      /\ Queued(r, job)
      /\ UNCHANGED <<req, cancelled, connected, pos, stream, swallowed, finished>>
      /\ io' = IF io.reap THEN [io EXCEPT !.step = "reap"] ELSE None
      /\ Kinds /\ Addressed
  BY <1>1, <1>2, IoFacts DEF QueueErase, loopVars, history, Basic, Answering
<1>4. /\ job \in Jobs /\ job.req = r /\ job \notin PieceJobs(r) /\ job \notin EndJobs(r)
      /\ ~OnHttp(r)
  <2>1. job \in Jobs /\ job.req = r /\ job.type = "erase"
    BY <1>2, <1>3, JobType DEF Types
  <2> QED
    BY <1>1, <1>3, <2>1, JobSorts DEF Addressed
<1>5. io' = None \/ io'.step = "reap"
  BY <1>3 DEF Callbacks
<1>6. Addressed'
  BY <1>3, <1>4, <1>5, SentAddressed
<1>7. \A x \in Used : SameMail(x)
  BY <1>3, <1>4, QueuedMail DEF SameMail
<1>8. ASSUME NEW x \in Used PROVE Step(x)
  <2>1. Delivering(x) /\ Ending(x) /\ (Stopped(x) => Stopped(x)')
    BY <1>3 DEF Answering, Stopped, Conn
  <2>2. /\ ~InCallback(x, {"token"})' /\ ~InCallback(x, {"token"})
        /\ ~InCallback(x, {"error"})' /\ ~InCallback(x, {"error"})
    BY <1>3, <1>5 DEF InCallback
  <2> QED
    BY <1>3, <1>7, <2>1, <2>2, StepSame
<1> QED
  BY <1>6, <1>8


\* What every step does to the answers, and to what the clients hear of them
LEMMA StepAnswers ==
    ASSUME \A s \in Streams : Tidy(s), Basic, InFlightUsed, Whereabouts, ErasedAfterEnd, Parsing,
           Answering, [Next]_vars
    PROVE  /\ Addressed' /\ \A x \in Used : Step(x)
           /\ Used' = Used \/ \E n : Used' = Used \cup {n} /\ Begun(n)
<1> DEFINE Kept == Addressed' /\ (\A x \in Used : Step(x)) /\ Used' = Used
           Goal == /\ Addressed' /\ \A x \in Used : Step(x)
                   /\ Used' = Used \/ \E n : Used' = Used \cup {n} /\ Begun(n)
<1>0. \A s \in Streams : Clean(s)
  BY DEF Tidy
<1>1. ASSUME NEW c \in Conns, Client(c) PROVE Goal
  <2>1. ASSUME NEW id \in Ids, Chat(c, id) PROVE Goal
    BY <2>1, ChatAnswers
  <2>2. ASSUME NEW id \in Ids, NEW type \in {"error", "abort"}, Refuse(c, id, type) PROVE Goal
    BY <2>2, RefuseAnswers
  <2>3. ASSUME NEW id \in Ids, Cancel(c, id) PROVE Kept
    BY <2>3, CancelAnswers DEF Cancel, Used
  <2>4. ASSUME Close(c) PROVE Kept
    BY <2>4, QuietAnswers DEF Close, ioVars, history, Used
  <2> QED
    BY <1>1, <2>1, <2>2, <2>3, <2>4 DEF Client
<1>2. ASSUME NEW c \in Conns, RunLoop(c) PROVE Kept
  BY <1>2, RunLoopAnswers DEF RunLoop, Used
<1>3. ASSUME Drain \/ Reaped \/ (\E r \in Requests : ReapOk(r) \/ ServerEnd(r)) \/ UNCHANGED vars
      PROVE  Kept
  BY <1>3, QuietAnswers DEF Drain, Reaped, ReapOk, ServerEnd, vars, loopVars, ioVars, history, Used
<1>4. ASSUME IoStep PROVE Kept
  <2>1. Used' = Used
    BY <1>4 DEF IoStep, Drain, AddTransferFails, AddTransfer, TokenSend, DoneSend, ErrorSend,
             QueueErase, Reaped, ReapOk, ReapFailed, loopVars, Used
  <2> QED
    BY <1>0, <1>3, <1>4, <2>1, SubmissionAnswers, TokenSendAnswers, EndSendAnswers,
       QueueEraseAnswers, ReapFailedAnswers DEF IoStep
<1>5. ASSUME NEW r \in Requests, Token(r) \/ Fragment(r) \/ Finish(r) \/ Done(r) PROVE Kept
  <2>1. Used' = Used
    BY <1>5 DEF Token, Fragment, Finish, Done, loopVars, Used
  <2> QED
    BY <1>5, <2>1, TokenAnswers, LineAnswers, FinishAnswers
<1> QED
  BY <1>1, <1>2, <1>3, <1>4, <1>5 DEF Next

\* Every step keeps what is said of the answers.
LEMMA StepAnswering ==
    ASSUME \A s \in Streams : Tidy(s), Basic, InFlightUsed, Whereabouts, ErasedAfterEnd, Parsing,
           Answering, [Next]_vars
    PROVE  Answering'
<1>1. /\ Addressed' /\ \A x \in Used : Step(x)
      /\ Used' = Used \/ \E n : Used' = Used \cup {n} /\ Begun(n)
  BY StepAnswers
<1>2. ASSUME NEW x \in Used' PROVE Delivering(x)' /\ Ending(x)'
  BY <1>1, <1>2 DEF Step, Begun
<1> QED
  BY <1>1, <1>2 DEF Answering


\* What ChatStream gives Reply: the answers, and what the clients have heard of them
Answers == [r \in Requests |-> IF req[r] = None THEN None
                               ELSE [pieces |-> Pieces(r), end |-> AnswerEnd(r)]]
Hearing == [r \in Requests |-> IF req[r] = None THEN None
                               ELSE [pieces |-> HeardPieces(r), end |-> HeardEnd(r)]]

\* Reply's operators on sequences are ChatStream's.
LEMMA SameOperators ==
    /\ \A s, t : R!IsPrefix(s, t) <=> IsPrefix(s, t)
    /\ \A s, t : R!IsStrictPrefix(s, t) <=> IsStrictPrefix(s, t)
    /\ \A s, t : R!IsPart(s, t) <=> ToSet(s) \subseteq ToSet(t) /\ Rising(s)
  BY DEF R!IsPrefix, IsPrefix, R!IsStrictPrefix, IsStrictPrefix, R!IsPart, R!ToSet, ToSet, Rising

\* One more piece makes an answer longer.
LEMMA OneMore ==
    ASSUME NEW s \in Seq(Nat), NEW p \in Nat
    PROVE  IsStrictPrefix(s, Append(s, p))
<1>1. <<p>> \in Seq(Nat)
  OBVIOUS
<1>2. Append(s, p) = s \o <<p>>
  BY AppendIsConcat
<1>3. IsPrefix(s, s \o <<p>>)
  BY <1>1, PrefixOfConcat
<1>4. Len(Append(s, p)) = Len(s) + 1 /\ Len(s) \in Nat
  BY AppendAt, LenProperties
<1> QED
  BY <1>2, <1>3, <1>4 DEF IsStrictPrefix

\* An answer that goes from a to b grows as Reply says.
LEMMA GrowsAs ==
    ASSUME NEW r, NEW a, NEW b, Answers[r] = a, (Answers')[r] = b,
           \/ b = a
           \/ a = None /\ b \in [pieces : {<<>>}, end : {"open", "failed"}]
           \/ /\ a # None /\ a.end = "open" /\ b.end \in {"open", "done", "failed"}
              /\ \/ b.pieces = a.pieces
                 \/ IsStrictPrefix(a.pieces, b.pieces) /\ Rising(b.pieces)
    PROVE  R!Grow(r)
<1>1. R!Grow(r) <=> \/ (Answers')[r] = Answers[r]
                    \/ Answers[r] = None /\ (Answers')[r] \in [pieces : {<<>>}, end : {"open", "failed"}]
                    \/ /\ Answers[r] # None /\ Answers[r].end = "open"
                       /\ (Answers')[r].end \in {"open", "done", "failed"}
                       /\ \/ (Answers')[r].pieces = Answers[r].pieces
                          \/ /\ R!IsStrictPrefix(Answers[r].pieces, (Answers')[r].pieces)
                             /\ Rising((Answers')[r].pieces)
  BY DEF R!Grow, R!Ends, Answers, Rising
<1> QED
  BY <1>1, SameOperators

\* A client that goes from h to k, of an answer that comes to b, hears as Reply says.
LEMMA HearsAs ==
    ASSUME NEW r, NEW b, NEW h, NEW k, Hearing[r] = h, (Hearing')[r] = k, (Answers')[r] = b,
           \/ k = h /\ (h = None => b = None)
           \/ h = None /\ b # None /\ (k = [pieces |-> <<>>, end |-> "open"] \/ k = b)
           \/ /\ h # None /\ h.end = "open" /\ IsPrefix(h.pieces, k.pieces) /\ k.end \in {"open", b.end}
              /\ IF r \in Used /\ Stopped(r) THEN ToSet(k.pieces) \subseteq ToSet(b.pieces) /\ Rising(k.pieces)
                 ELSE IF k.end = "open" THEN IsPrefix(k.pieces, b.pieces) ELSE k = b
    PROVE  R!Hear(r)
<1>1. R!Hear(r) <=>
        \/ (Hearing')[r] = Hearing[r] /\ (Hearing[r] = None => (Answers')[r] = None)
        \/ /\ Hearing[r] = None /\ (Answers')[r] # None
           /\ (Hearing')[r] = [pieces |-> <<>>, end |-> "open"] \/ (Hearing')[r] = (Answers')[r]
        \/ /\ Hearing[r] # None /\ Hearing[r].end = "open"
           /\ R!IsPrefix(Hearing[r].pieces, (Hearing')[r].pieces)
           /\ (Hearing')[r].end \in {"open", (Answers')[r].end}
           /\ IF r \in Used /\ Stopped(r)
              THEN R!IsPart((Hearing')[r].pieces, (Answers')[r].pieces)
              ELSE IF (Hearing')[r].end = "open"
              THEN R!IsPrefix((Hearing')[r].pieces, (Answers')[r].pieces)
              ELSE (Hearing')[r] = (Answers')[r]
  BY DEF R!Hear, Hearing, Answers, Stopped
<1> QED
  BY <1>1, SameOperators

\* The first part of a rising sequence
LEMMA FirstPart ==
    ASSUME NEW s \in Seq(Nat), NEW t \in Seq(Nat), Rising(s \o t)
    PROVE  Rising(s) /\ ToSet(s) \subseteq ToSet(s \o t)
<1>1. /\ Len(s) \in Nat /\ Len(t) \in Nat
      /\ Len(s \o t) = Len(s) + Len(t) /\ \A i \in 1..Len(s) : (s \o t)[i] = s[i]
  BY ConcatProperties, LenProperties
<1>2. ToSet(s \o t) = ToSet(s) \cup ToSet(t)
  BY Concatenation
<1>3. ASSUME NEW i \in 2..Len(s) PROVE s[i - 1] < s[i]
  <2>1. i \in 2..Len(s \o t) /\ i \in 1..Len(s) /\ i - 1 \in 1..Len(s)
    BY <1>1
  <2> QED
    BY <1>1, <2>1 DEF Rising
<1> QED
  BY <1>2, <1>3 DEF Rising

\* After a step, the kinds of what is heard and handed out
LEMMA NextTypes ==
    ASSUME Kinds', NEW r \in Requests, req'[r] # None
    PROVE  /\ (HeardPieces(r)') \in Seq(Nat) /\ (Coming(r)') \in Seq(Nat) /\ (EndsHeard(r)') \in Seq(Jobs)
           /\ Rising(Pieces(r)')
           /\ AnswerEnd(r)' \in {"open", "done", "failed"}
<1>1. req'[r] \in Rec
  BY DEF Kinds
<1>2. PICK c \in Conns : c = req'[r].conn
  BY <1>1 DEF Rec
<1>3. PICK o \in Seq(Jobs), q \in Seq(Jobs) : o = out'[c] /\ q = queue'[c]
  BY DEF Kinds
<1>4. HeardPieces(r)' = PiecesIn(o, r) /\ Coming(r)' = PiecesIn(q, r) /\ EndsHeard(r)' = EndsIn(o, r)
  BY <1>2, <1>3 DEF HeardPieces, Coming, EndsHeard, Conn
<1>5. PiecesIn(o, r) \in Seq(Nat) /\ PiecesIn(q, r) \in Seq(Nat)
  BY PiecesInDef
<1>6. EndsIn(o, r) \in Seq(Jobs)
  BY KeepFacts DEF EndsIn
<1>7. pos'[r] \in Nat
  BY DEF Kinds
<1>8. Pieces(r)' = Keep(Numbers(pos'[r]), PieceLines(r)')
  BY DEF Pieces, Numbers, PieceLines
<1>9. Rising(Pieces(r)')
  BY <1>7, <1>8, KeepRising
<1> QED
  BY <1>4, <1>5, <1>6, <1>9, AnswerEnds

\* A request that was made
LEMMA OldMaps ==
    ASSUME Kinds, Kinds', NEW r \in Used, req'[r] # None, Step(r)
    PROVE  R!Grow(r) /\ R!Hear(r)
<1>1. /\ r \in Requests /\ req[r] # None
      /\ Pieces(r) \in Seq(Nat) /\ HeardPieces(r) \in Seq(Nat)
      /\ AnswerEnd(r) \in {"open", "done", "failed"} /\ HeardEnd(r) \in {"open", "done", "failed"}
  BY PiecesFacts, MailTypes, AnswerEnds, HeardEnds DEF Kinds, Used
<1>2. /\ (HeardPieces(r)') \in Seq(Nat) /\ (Coming(r)') \in Seq(Nat) /\ (EndsHeard(r)') \in Seq(Jobs)
      /\ Rising(Pieces(r)')
      /\ AnswerEnd(r)' \in {"open", "done", "failed"}
  BY <1>1, NextTypes
<1>3. PICK a, b, h, k : /\ a = [pieces |-> Pieces(r), end |-> AnswerEnd(r)]
                        /\ b = [pieces |-> Pieces(r)', end |-> AnswerEnd(r)']
                        /\ h = [pieces |-> HeardPieces(r), end |-> HeardEnd(r)]
                        /\ k = [pieces |-> HeardPieces(r)', end |-> HeardEnd(r)']
  OBVIOUS
<1>4. Answers[r] = a /\ (Answers')[r] = b /\ Hearing[r] = h /\ (Hearing')[r] = k
  BY <1>1, <1>3 DEF Answers, Hearing
<1>5. a # None /\ h # None
  BY <1>1, <1>3, NoneAssumption
<1>6. R!Grow(r)
  <2>1. \/ Pieces(r)' = Pieces(r) /\ AnswerEnd(r)' = AnswerEnd(r)
        \/ /\ AnswerEnd(r) = "open"
           /\ Pieces(r)' = Pieces(r) \/ IsStrictPrefix(Pieces(r), Pieces(r)')
    BY <1>1, OneMore DEF Step, Grows
  <2>2. \/ b = a
        \/ /\ a.end = "open" /\ b.end \in {"open", "done", "failed"}
           /\ b.pieces = a.pieces \/ (IsStrictPrefix(a.pieces, b.pieces) /\ Rising(b.pieces))
    BY <1>2, <1>3, <2>1
  <2> QED
    BY <1>4, <1>5, <2>2, GrowsAs
<1>7. R!Hear(r)
  <2>1. CASE EndsHeard(r) # <<>> \/ (Stopped(r)' /\ ~Stopped(r))
    <3>1. k = h
      BY <1>3, <2>1 DEF Step, Hears
    <3> QED
      BY <1>4, <1>5, <3>1, HearsAs
  <2>2. CASE EndsHeard(r) = <<>> /\ (Stopped(r)' => Stopped(r))
    <3>1. HeardEnd(r) = "open"
      BY <2>2, HeardEnds
    <3>2. IsPrefix(HeardPieces(r), HeardPieces(r)')
      <4>1. PICK u \in Seq(Nat) : HeardPieces(r)' = HeardPieces(r) \o u
        BY DEF Step, Hears
      <4> QED
        BY <1>1, <4>1, PrefixOfConcat
    <3>3. EndsHeard(r)' = <<>> => HeardEnd(r)' = "open"
      BY HeardEnds
    <3>4. EndsHeard(r)' # <<>> => HeardEnd(r)' = AnswerEnd(r)' /\ Coming(r)' = <<>>
      <4> SUFFICES ASSUME EndsHeard(r)' # <<>> PROVE HeardEnd(r)' = AnswerEnd(r)' /\ Coming(r)' = <<>>
        OBVIOUS
      <4>1. PICK e \in Seq(Jobs) : e = EndsHeard(r)'
        BY <1>2
      <4>2. Head(e) \in ToSet(e)
        <5>1. Len(e) \in Nat \ {0} /\ DOMAIN e = 1..Len(e)
          BY <4>1, EmptySeq, LenProperties
        <5>2. Head(e) = e[1] /\ 1 \in DOMAIN e
          BY <4>1, <5>1, TailAt
        <5> QED
          BY <5>2 DEF ToSet
      <4>3. /\ Head(e).type = "done" <=> EndSeen(r)'
            /\ r \in finished' /\ Coming(r)' = <<>>
        BY <4>1, <4>2 DEF Step, Ending
      <4>4. HeardEnd(r)' = IF Head(e).type = "done" THEN "done" ELSE "failed"
        BY <4>1, HeardEnds
      <4> QED
        BY <4>3, <4>4, AnswerEnds DEF Failing
    <3>5. /\ Delivered(r)' = HeardPieces(r)' \o Coming(r)'
          /\ Rising(Delivered(r)') /\ ToSet(Delivered(r)') \subseteq ToSet(Pieces(r)')
          /\ ~Stopped(r)' => Delivered(r)' = Pieces(r)'
      BY DEF Delivered, Step, Delivering
    <3>6. ToSet(k.pieces) \subseteq ToSet(b.pieces) /\ Rising(k.pieces)
      <4>1. PICK s \in Seq(Nat), t \in Seq(Nat) : s = HeardPieces(r)' /\ t = Coming(r)'
        BY <1>2
      <4>2. Rising(s \o t) /\ ToSet(s \o t) \subseteq ToSet(Pieces(r)')
        BY <3>5, <4>1
      <4>3. Rising(s) /\ ToSet(s) \subseteq ToSet(s \o t)
        BY <4>2, FirstPart
      <4> QED
        BY <1>3, <4>1, <4>2, <4>3
    <3>7. ASSUME ~Stopped(r)
          PROVE  IF k.end = "open" THEN IsPrefix(k.pieces, b.pieces) ELSE k = b
      <4>1. PICK s \in Seq(Nat), t \in Seq(Nat) : s = HeardPieces(r)' /\ t = Coming(r)'
        BY <1>2
      <4>2. Pieces(r)' = s \o t
        BY <2>2, <3>5, <3>7, <4>1
      <4>3. IsPrefix(k.pieces, b.pieces)
        BY <1>3, <4>1, <4>2, PrefixOfConcat
      <4>4. k.end # "open" => k = b
        <5> SUFFICES ASSUME k.end # "open" PROVE k = b
          OBVIOUS
        <5>1. HeardEnd(r)' = AnswerEnd(r)' /\ t = <<>>
          BY <1>3, <3>3, <3>4, <4>1
        <5>2. s \o <<>> = s
          BY ConcatEmptySeq
        <5> QED
          BY <1>3, <4>1, <4>2, <5>1, <5>2
      <4> QED
        BY <4>3, <4>4
    <3>8. h.end = "open" /\ IsPrefix(h.pieces, k.pieces) /\ k.end \in {"open", b.end}
      BY <1>3, <3>1, <3>2, <3>3, <3>4
    <3> QED
      BY <1>4, <1>5, <3>6, <3>7, <3>8, HearsAs
  <2> QED
    BY <2>1, <2>2
<1> QED
  BY <1>6, <1>7

\* A request that is made, and one that is not
LEMMA NewMaps ==
    ASSUME NEW r \in Requests, req[r] = None, req'[r] # None => Begun(r)
    PROVE  R!Grow(r) /\ R!Hear(r)
<1>1. Answers[r] = None /\ Hearing[r] = None
  BY DEF Answers, Hearing
<1>2. CASE req'[r] = None
  <2>1. (Answers')[r] = None /\ (Hearing')[r] = None
    BY <1>2 DEF Answers, Hearing
  <2> QED
    BY <1>1, <2>1, GrowsAs, HearsAs
<1>3. CASE req'[r] # None
  <2>1. PICK b : b = [pieces |-> <<>>, end |-> AnswerEnd(r)']
    OBVIOUS
  <2>2. (Answers')[r] = b /\ (Hearing')[r] = b /\ b \in [pieces : {<<>>}, end : {"open", "failed"}]
    BY <1>3, <2>1 DEF Answers, Hearing, Begun
  <2>3. b # None
    <3>1. b \in [pieces : Seq(Nat), end : {"open", "done", "failed"}]
      BY <1>3, <2>1, EmptySeq DEF Begun
    <3> QED
      BY <3>1, NoneAssumption
  <2>4. R!Grow(r)
    BY <1>1, <2>2, GrowsAs
  <2>5. R!Hear(r)
    BY <1>1, <2>2, <2>3, HearsAs
  <2> QED
    BY <2>4, <2>5
<1> QED
  BY <1>2, <1>3


\* A request keeps its connection, a cancelled request stays cancelled, and a client that has
\* gone does not come back.
LEMMA StoppedStays ==
    ASSUME Basic, [Next]_vars
    PROVE  \A x \in Used : req'[x] = req[x] /\ (Stopped(x) => Stopped(x)')
<1> DEFINE Goal == /\ cancelled \subseteq cancelled' /\ connected' \subseteq connected
                   /\ \A x \in Used : req'[x] = req[x]
<1>1. ASSUME NEW c \in Conns, NEW id \in Ids, Chat(c, id) PROVE Goal
  <2>1. \A x \in Requests \ {Number} : req'[x] = req[x]
    BY <1>1, NewRequest DEF Chat, Number
  <2>2. Number \notin Used
    BY <1>1, NewRequest DEF Chat, Number
  <2> QED
    BY <1>1, <2>1, <2>2 DEF Chat, Used
<1>2. ASSUME NEW c \in Conns, NEW id \in Ids, NEW type \in {"error", "abort"}, Refuse(c, id, type)
      PROVE  Goal
  <2>1. \A x \in Requests \ {Number} : req'[x] = req[x]
    BY <1>2, NewRequest DEF Refuse, Number
  <2>2. Number \notin Used
    BY <1>2, NewRequest DEF Refuse, Number
  <2> QED
    BY <1>2, <2>1, <2>2 DEF Refuse, Used
<1>3. ASSUME NEW c \in Conns, RunLoop(c) \/ Close(c) \/ \E id \in Ids : Cancel(c, id) PROVE Goal
  BY <1>3 DEF RunLoop, Close, Cancel
<1>4. ASSUME IoStep \/ UNCHANGED vars PROVE Goal
  BY <1>4 DEF IoStep, Drain, AddTransferFails, AddTransfer, TokenSend, DoneSend, ErrorSend,
           QueueErase, Reaped, ReapOk, ReapFailed, loopVars, vars
<1>5. ASSUME NEW r \in Requests, Token(r) \/ Fragment(r) \/ Finish(r) \/ Done(r) \/ ServerEnd(r)
      PROVE  Goal
  BY <1>5 DEF Token, Fragment, Finish, Done, ServerEnd, loopVars
<1>6. Goal
  BY <1>1, <1>2, <1>3, <1>4, <1>5 DEF Next, Client
<1> QED
  BY <1>6 DEF Stopped, Conn

\* Every step is a step of Reply.
LEMMA StepMaps ==
    ASSUME \A s \in Streams : Tidy(s), Basic, Basic', InFlightUsed, Whereabouts, ErasedAfterEnd, Parsing,
           Answering, [Next]_vars
    PROVE  R!Next
<1>1. /\ \A x \in Used : Step(x)
      /\ Used' = Used \/ \E n : Used' = Used \cup {n} /\ Begun(n)
  BY StepAnswers
<1>2. \A x \in Used : req'[x] = req[x] /\ (Stopped(x) => Stopped(x)')
  BY StoppedStays
<1>3. ASSUME NEW r \in Requests PROVE R!Grow(r) /\ R!Hear(r)
  <2>1. CASE r \in Used
    <3>1. req'[r] # None
      BY <1>2, <2>1 DEF Used
    <3> QED
      BY <1>1, <2>1, <3>1, OldMaps DEF Basic
  <2>2. CASE r \notin Used
    <3>1. req[r] = None
      BY <2>2 DEF Used
    <3>2. ASSUME req'[r] # None PROVE Begun(r)
      <4>1. r \in Used' /\ r \notin Used
        BY <2>2, <3>2 DEF Used
      <4>2. PICK n : Used' = Used \cup {n} /\ Begun(n)
        BY <1>1, <4>1
      <4>3. r = n
        BY <4>1, <4>2
      <4> QED
        BY <4>2, <4>3
    <3> QED
      BY <3>1, <3>2, NewMaps
  <2> QED
    BY <2>1, <2>2
<1>4. {r \in Used : Stopped(r)} \subseteq {r \in Used' : Stopped(r)'}
  BY <1>2 DEF Used
<1>5. R!Next <=> /\ {r \in Used : Stopped(r)} \subseteq {r \in Used' : Stopped(r)'}
                 /\ \A r \in Requests : R!Grow(r) /\ R!Hear(r)
  BY DEF R!Next, Stopped
<1> QED
  BY <1>3, <1>4, <1>5

\* A chat request on its way through the gateway is answered as Reply says: the client
\* receives the pieces the plugins kept, in order and none twice, the end after all of them and
\* as it was, and nothing after the end (process_chat, handle_chat, ws_send, on_token, on_done,
\* on_error, RemoteUpstream), provided the servers' streams are tidy.
THEOREM ChatImplementsReply ==
    ASSUME \A s \in Streams : Tidy(s)
    PROVE  Spec => ImplementsReply
<1>1. Init => Whereabouts /\ ErasedAfterEnd /\ Parsing /\ Answering /\ R!Init
  <2> SUFFICES ASSUME Init
               PROVE  Whereabouts /\ ErasedAfterEnd /\ Parsing /\ Answering /\ R!Init
    OBVIOUS
  <2>1. ToSet(<<>>) = {}
    BY DEF ToSet
  <2>2. Used = {} /\ io = None /\ transfers = {} /\ \A r \in Requests : req[r] = None
    BY DEF Init, Used
  <2>3. Whereabouts
    BY <2>1, <2>2 DEF Init, Whereabouts, InHand, Waiting
  <2>4. ErasedAfterEnd
    BY <2>1, <2>2 DEF Init, ErasedAfterEnd
  <2>5. Parsing
    BY <2>2 DEF Init, Parsing, AtHand, Fragments, SwallowedOnce
  <2>6. Answering
    BY <2>1, <2>2, ConnAssumption DEF Init, Answering, Addressed
  <2>7. R!Init
    BY <2>2 DEF R!Init
  <2> QED
    BY <2>3, <2>4, <2>5, <2>6, <2>7
<1>2. /\ Basic /\ Whereabouts /\ [Next]_vars => Whereabouts'
      /\ Basic /\ ErasedAfterEnd /\ [Next]_vars => ErasedAfterEnd'
      /\ Basic /\ Whereabouts /\ Parsing /\ [Next]_vars => Parsing'
  BY StepWhere, StepErase, StepParsing DEF Tidy
<1>3. Basic /\ InFlightUsed /\ Whereabouts /\ ErasedAfterEnd /\ Parsing /\ Answering /\ [Next]_vars
         => Answering'
  BY StepAnswering
<1>4. Basic /\ Basic' /\ InFlightUsed /\ Whereabouts /\ ErasedAfterEnd /\ Parsing /\ Answering /\ [Next]_vars
         => R!Next
  BY StepMaps
<1> QED
  BY <1>1, <1>2, <1>3, <1>4, AlwaysBasic, Steps, PTL DEF ImplementsReply, R!Spec
=============================================================================
