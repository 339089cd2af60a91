----------------------------- MODULE ToolRouting -----------------------------
(***************************************************************************)
(* Tool calls: executors register their tools, a client's or the model's   *)
(* tool_call goes to one of them, and its tool_result goes back to the     *)
(* client (src/ws_chat_controller.cpp, ToolRegistry in include/common.h).  *)
(* The tool registry, the pool of executors and the map of pending calls   *)
(* have a lock each; each connection's handlers run on its event loop and  *)
(* interleave with the others' between those locks.                        *)
(***************************************************************************)
EXTENDS Integers, Sequences, FiniteSets, SequencesExt, Filter

CONSTANTS
    Conns,          \* WebSocket connections
    Tools,          \* tool names
    Keys,           \* request_id:call_id
    UniqueKeys,     \* does every call have a key of its own?
    RoleChanges,    \* may an executor register as an agent later?
    MaxCalls,       \* bound: number of tool calls
    Scopes,         \* bound: see scope
    MaxAnswers,     \* bound: tool_result messages for a call
    MaxRegister,    \* bound: registrations
    None

Calls == 1..MaxCalls

CallRecords == [sender : Conns, key : Keys, tool : Tools]

\* Where a handler is between two locks: inside a registration or a close, or with a call
\* and the connection it goes to.
Places == [step : {"join", "leave"}, call : {None}, peer : {None}]
          \cup [step : {"record", "forward", "answer"}, call : Calls, peer : Conns]

ASSUME BoundAssumption == {MaxCalls, MaxAnswers, MaxRegister} \subseteq Nat
ASSUME FlagAssumption  == {UniqueKeys, RoleChanges} \subseteq BOOLEAN
ASSUME ScopeAssumption == Scopes \subseteq [calls : 0..MaxCalls, strangers : SUBSET Conns]
ASSUME NoneAssumption  == None \notin Conns \cup Calls \cup CallRecords \cup Places

VARIABLES
    open,           \* connections that are not disconnected()
    closed,         \* connections whose handleConnectionClosed has run
    role,           \* role[c]: the role in the SessionCtx of c
    tools,          \* tools[c]: the tools in the SessionCtx of c
    entries,        \* ToolRegistry::entries_, as pairs of tool and source
    executors,      \* executors_
    rr,             \* exec_rr_idx_
    pending,        \* pending_tools_: the call behind each key
    call,           \* call[n]: sender, key and tool of the n-th call
    at,             \* at[c]: where the handler of c is, or None
    mail,           \* mail[c]: messages on their way to c
    tasks,          \* tasks[c]: calls c has received
    got,            \* got[c]: answers c has received
    answers,        \* answers[n]: results sent for the n-th call (bound)
    registered,     \* registrations so far (bound)
    \* history variable, read by no action's guard
    share,          \* the pool used last, and how often each member was taken from it
    \* bound, chosen in the initial state: how many calls are made, and which connections
    \* answer calls they were not given
    scope

config == <<open, closed, role, tools, entries>>
vars == <<config, executors, rr, pending, call, at, mail, tasks, got, answers, registered, share,
          scope>>

-----------------------------------------------------------------------------
Idle(c)        == c \in open /\ at[c] = None
In(c, step)    == at[c] # None /\ at[c].step = step
Goto(c, place) == at' = [at EXCEPT ![c] = place]
Place(step, n, peer) == [step |-> step, call |-> n, peer |-> peer]
Mail(type, n)  == [type |-> type, call |-> n]
Post(c, m)     == mail' = [mail EXCEPT ![c] = Append(@, m)]
Tell(c, m)     == got' = [got EXCEPT ![c] = Append(@, m)]

\* ToolRegistry::add, for each tool: an entry per tool and source
Added(c, new) == entries \cup (new \X {c})

\* register, role executor: the tools go to the registry one by one ...
Register(c, new) ==
    /\ Idle(c) /\ registered < MaxRegister
    /\ registered' = registered + 1
    /\ role' = [role EXCEPT ![c] = "executor"]
    /\ tools' = [tools EXCEPT ![c] = @ \cup new]
    /\ entries' = Added(c, new)
    /\ Goto(c, Place("join", None, None))
    /\ UNCHANGED <<open, closed, executors, rr, pending, call, mail, tasks, got, answers, share, scope>>

\* ... and the connection to the pool, once more if it is there already.
Join(c) ==
    /\ In(c, "join")
    /\ executors' = Append(executors, c)
    /\ Goto(c, None)
    /\ UNCHANGED <<config, rr, pending, call, mail, tasks, got, answers, registered, share, scope>>

\* register, role agent (the AgentRegistry is not part of this module)
RegisterAgent(c) ==
    /\ Idle(c) /\ RoleChanges /\ role[c] # "agent"
    /\ role' = [role EXCEPT ![c] = "agent"]
    /\ UNCHANGED <<open, closed, tools, entries, executors, rr, pending, call, at, mail, tasks, got,
                   answers, registered, share, scope>>

Connected == Keep(executors, open)

\* The executors that have the tool, or all if none has.
Pool(t) ==
    LET capable == Keep(Connected, {c \in Conns : t \in tools[c]})
    IN  IF capable = <<>> THEN Connected ELSE capable

\* Mutant: the first of the pool is not skipped when the index wraps around.
NextIndexLast(pool) == IF rr + 1 < Len(pool) THEN rr + 1 ELSE Len(pool) - 1

\* One index for all pools.
NextIndex(pool) == (rr + 1) % Len(pool)

\* History: another one taken from this pool.
Count(pool, c) ==
    share' = [pool |-> pool,
              taken |-> [d \in Conns |-> (IF share.pool = pool THEN share.taken[d] ELSE 0)
                                          + (IF d = c THEN 1 ELSE 0)]]

\* The calls made so far.
Made == {n \in Calls : call[n] # None}

\* route_tool_call under exec_mu_; the call comes from the client c or from the stream of
\* one of its requests, which may outlive the connection.
ToolCall(c, k, t) ==
    /\ at[c] = None
    /\ LET n == Cardinality(Made) + 1
           i == NextIndex(Pool(t))
       IN  /\ n <= MaxCalls /\ n <= scope.calls
           /\ UniqueKeys => \A m \in 1..(n - 1) : call[m].key # k
           /\ call' = [call EXCEPT ![n] = [sender |-> c, key |-> k, tool |-> t]]
           /\ executors' = Connected
           /\ IF Pool(t) = <<>>
              THEN Post(c, Mail("no_executor", n)) /\ UNCHANGED <<rr, at, share>>
              ELSE /\ rr' = i
                   /\ Goto(c, Place("record", n, Pool(t)[i + 1]))
                   /\ Count(Pool(t), Pool(t)[i + 1])
                   /\ UNCHANGED mail
    /\ UNCHANGED <<config, pending, tasks, got, answers, registered, scope>>

\* Mutant: the executor is recorded in place of the call.
RecordExecutor(c) ==
    /\ In(c, "record")
    /\ pending' = [pending EXCEPT ![call[at[c].call].key] = at[c].peer]
    /\ Goto(c, [at[c] EXCEPT !.step = "forward"])
    /\ UNCHANGED <<config, executors, rr, call, mail, tasks, got, answers, registered, share, scope>>

\* under pending_mu_
Record(c) ==
    /\ In(c, "record")
    /\ pending' = [pending EXCEPT ![call[at[c].call].key] = at[c].call]
    /\ Goto(c, [at[c] EXCEPT !.step = "forward"])
    /\ UNCHANGED <<config, executors, rr, call, mail, tasks, got, answers, registered, share, scope>>

\* ws_send to the executor
Forward(c) ==
    /\ In(c, "forward")
    /\ Post(at[c].peer, Mail("call", at[c].call))
    /\ Goto(c, None)
    /\ UNCHANGED <<config, executors, rr, pending, call, tasks, got, answers, registered, share, scope>>

\* route_tool_result asks for the key only: the result of a call may come from any connection,
\* and before the call has reached its executor.
MayAnswer(c, n) == n \in Made /\ (n \in tasks[c] \/ c \in scope.strangers)

\* Mutant: the call stays in the map.
ToolResultKeeps(c, n) ==
    /\ Idle(c) /\ MayAnswer(c, n) /\ answers[n] < MaxAnswers
    /\ answers' = [answers EXCEPT ![n] = @ + 1]
    /\ LET p == pending[call[n].key]
       IN  IF p = None THEN Tell(c, Mail("no_pending", n)) /\ UNCHANGED at
           ELSE Goto(c, Place("answer", p, call[p].sender)) /\ UNCHANGED got
    /\ UNCHANGED <<config, executors, rr, pending, call, mail, tasks, registered, share, scope>>

\* route_tool_result under pending_mu_: the client is looked up by key and taken out.
ToolResult(c, n) ==
    /\ Idle(c) /\ MayAnswer(c, n) /\ answers[n] < MaxAnswers
    /\ answers' = [answers EXCEPT ![n] = @ + 1]
    /\ LET p == pending[call[n].key]
       IN  IF p = None THEN Tell(c, Mail("no_pending", n)) /\ UNCHANGED <<pending, at>>
           ELSE /\ pending' = [pending EXCEPT ![call[n].key] = None]
                /\ Goto(c, Place("answer", p, call[p].sender))
                /\ UNCHANGED got
    /\ UNCHANGED <<config, executors, rr, call, mail, tasks, registered, share, scope>>

\* The client is gone, or is sent the result.
AnswerClient(c) ==
    /\ In(c, "answer")
    /\ IF at[c].peer \in open
       THEN Post(at[c].peer, Mail("result", at[c].call)) /\ UNCHANGED got
       ELSE Tell(c, Mail("client_gone", at[c].call)) /\ UNCHANGED mail
    /\ Goto(c, None)
    /\ UNCHANGED <<config, executors, rr, pending, call, tasks, answers, registered, share, scope>>

\* A message reaches c if c is still connected.
Deliver(c) ==
    /\ mail[c] # <<>> /\ at[c] = None
    /\ mail' = [mail EXCEPT ![c] = Tail(@)]
    /\ LET m == Head(mail[c])
       IN  IF c \notin open THEN UNCHANGED <<tasks, got>>
           ELSE IF m.type = "call"
                THEN tasks' = [tasks EXCEPT ![c] = @ \cup {m.call}] /\ UNCHANGED got
                ELSE Tell(c, m) /\ UNCHANGED tasks
    /\ UNCHANGED <<config, executors, rr, pending, call, at, answers, registered, share, scope>>

Disconnect(c) ==
    /\ c \in open
    /\ open' = open \ {c}
    /\ UNCHANGED <<closed, role, tools, entries, executors, rr, pending, call, at, mail, tasks, got,
                   answers, registered, share, scope>>

\* remove_source
Without(c) == {e \in entries : e[2] # c}

\* handleConnectionClosed: what the present role calls for is undone.
Close(c) ==
    /\ c \notin open \cup closed /\ at[c] = None
    /\ IF role[c] = "executor"
       THEN entries' = Without(c) /\ Goto(c, Place("leave", None, None)) /\ UNCHANGED closed
       ELSE closed' = closed \cup {c} /\ UNCHANGED <<entries, at>>
    /\ UNCHANGED <<open, role, tools, executors, rr, pending, call, mail, tasks, got, answers,
                   registered, share, scope>>

\* Mutant: only the first of the connection's places in the pool is given up.
LeaveOnce(c) ==
    /\ In(c, "leave")
    /\ executors' = ReplaceFirstSubSeq(<<>>, <<c>>, executors)
    /\ closed' = closed \cup {c}
    /\ Goto(c, None)
    /\ UNCHANGED <<open, role, tools, entries, rr, pending, call, mail, tasks, got, answers,
                   registered, share, scope>>

Leave(c) ==
    /\ In(c, "leave")
    /\ executors' = Keep(executors, Conns \ {c})
    /\ closed' = closed \cup {c}
    /\ Goto(c, None)
    /\ UNCHANGED <<open, role, tools, entries, rr, pending, call, mail, tasks, got, answers,
                   registered, share, scope>>

-----------------------------------------------------------------------------
Init ==
    /\ open = Conns /\ closed = {}
    /\ role = [c \in Conns |-> "user"]
    /\ tools = [c \in Conns |-> {}]
    /\ entries = {} /\ executors = <<>> /\ rr = 0
    /\ pending = [k \in Keys |-> None]
    /\ call = [n \in Calls |-> None]
    /\ at = [c \in Conns |-> None]
    /\ mail = [c \in Conns |-> <<>>]
    /\ tasks = [c \in Conns |-> {}] /\ got = [c \in Conns |-> <<>>]
    /\ answers = [n \in Calls |-> 0] /\ registered = 0
    /\ scope \in Scopes
    /\ share = [pool |-> <<>>, taken |-> [c \in Conns |-> 0]]

Handler(c) ==
    \/ \E new \in SUBSET Tools : Register(c, new)
    \/ Join(c) \/ RegisterAgent(c)
    \/ \E k \in Keys, t \in Tools : ToolCall(c, k, t)
    \/ Record(c) \/ Forward(c)
    \/ \E n \in Calls : ToolResult(c, n)
    \/ AnswerClient(c) \/ Deliver(c)
    \/ Disconnect(c) \/ Close(c) \/ Leave(c)

Next == \E c \in Conns : Handler(c)

Spec == Init /\ [][Next]_vars

-----------------------------------------------------------------------------
(* Properties.                                                             *)

Answer == {"result", "no_executor", "no_pending", "client_gone"}

\* Every variable (scope never changes) stays in its domain, and a call is recorded and forwarded only when an
\* executor was found for it.
TypeOK ==
    /\ open \subseteq Conns /\ closed \subseteq Conns \ open
    /\ role \in [Conns -> {"user", "executor", "agent"}]
    /\ tools \in [Conns -> SUBSET Tools]
    /\ entries \subseteq Tools \X Conns
    /\ executors \in Seq(Conns) /\ rr \in Nat
    /\ pending \in [Keys -> Calls \cup {None}]
    /\ call \in [Calls -> CallRecords \cup {None}]
    /\ at \in [Conns -> Places \cup {None}]
    /\ mail \in [Conns -> Seq([type : Answer \cup {"call"}, call : Calls])]
    /\ tasks \in [Conns -> SUBSET Calls]
    /\ got \in [Conns -> Seq([type : Answer, call : Calls])]

\* The tools offered to the models are those of the executors that are there: a connection
\* that closed, and not in another role, has neither an entry nor a place in the pool left,
\* however often it registered, and one in the pool has all its tools offered (register,
\* handleConnectionClosed, ToolRegistry).
OfferedByExecutor ==
    \A c \in Conns :
        /\ c \in closed /\ role[c] # "agent" => /\ \A e \in entries : e[2] # c
                                               /\ c \notin ToSet(executors)
        /\ c \in ToSet(executors) /\ c \in open => tools[c] \X {c} \subseteq entries

Final == {"result", "no_executor"}

\* An answer reaches the connection the call came from, and it gets at most one, however often
\* and from whom results arrive and whether or not keys are distinct (route_tool_call,
\* route_tool_result).
ResultToSender ==
    \A c \in Conns : \A i, j \in 1..Len(got[c]) :
        got[c][i].type \in Final =>
            /\ call[got[c][i].call].sender = c
            /\ got[c][j].type \in Final /\ got[c][i].call = got[c][j].call => i = j

\* As long as calls go to the same pool, without double places, no member gets two calls
\* more than another (the round robin of route_tool_call).
EvenShare ==
    IsInjective(share.pool) =>
        \A c, d \in ToSet(share.pool) : share.taken[c] <= share.taken[d] + 1
=============================================================================
