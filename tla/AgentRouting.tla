---------------------------- MODULE AgentRouting ----------------------------
(***************************************************************************)
(* Calls between agents (src/ws_chat_controller.cpp) with the              *)
(* AgentRegistry (src/agent_cache.cpp): registration, agent_call,          *)
(* agent_result and the close of a connection.  Each connection's messages *)
(* are handled by its event loop; the registry, the map of pending calls,  *)
(* the session map and the session buffers have a lock each, which a       *)
(* handler takes one after the other, so the handlers of several           *)
(* connections interleave between them.                                    *)
(*                                                                         *)
(* A connection stands for its session_id.  The cache is reduced to hit or *)
(* miss, a write to nothing (module CacheCoordinator), and a SessionBuffer *)
(* to its existence.                                                       *)
(***************************************************************************)
EXTENDS Integers, Sequences, FiniteSets, SequencesExt, Filter

CONSTANTS
    Conns,          \* WebSocket connections
    Caps,           \* capability names
    CallIds,        \* call_id values the callers use
    UniqueIds,      \* does every call have a call_id of its own?
    RoleChanges,    \* may an agent register as an executor later?
    MaxCalls,       \* bound: number of agent_call messages
    Scopes,         \* bound: see scope
    MaxAnswers,     \* bound: agent_result messages for a call
    None

Calls == 1..MaxCalls

\* What the handler of a connection does next, inside a message or a close.
Steps == {"route", "record", "forward", "check", "buffer", "append", "archive", "session",
          "closed"}

ASSUME BoundAssumption == MaxCalls \in Nat /\ MaxAnswers \in Nat
ASSUME FlagAssumption  == {UniqueIds, RoleChanges} \subseteq BOOLEAN
ASSUME ScopeAssumption == Scopes \subseteq [calls : 0..MaxCalls, strangers : SUBSET Conns]
ASSUME NoneAssumption  ==
    /\ None \notin Conns \cup Calls \cup CallIds /\ \A cs \in SUBSET Caps : cs # None
    /\ None \notin [caller : Conns, id : CallIds, cap : Caps]
    /\ None \notin [step : Steps, call : Calls \cup {None}, peer : Conns \cup {None}]

VARIABLES
    open,           \* connections that are not disconnected()
    sessions,       \* WsChatController::sessions_
    role,           \* role[c]: the role in the SessionCtx of c
    caps,           \* caps[c]: the capabilities in the SessionCtx of c
    agents,         \* agents_: the capabilities of each AgentRecord
    index,          \* cap_index_
    pending,        \* pending_agents_: the call behind each call_id
    buffers,        \* connections that have a SessionBuffer
    call,           \* call[n]: caller, call_id and capability of the n-th agent_call
    at,             \* at[c]: where the handler of c is, or None
    mail,           \* mail[c]: functors queued in the loop of c
    tasks,          \* tasks[c]: calls c has received
    got,            \* got[c]: answers c has received
    \* history variable, read by no action's guard but AgentResult's bound
    answers,        \* answers[n]: number of results sent for the n-th call
    \* bound, chosen in the initial state: how many calls are made, and which connections
    \* answer calls they were not given
    scope

registry == <<agents, index>>
vars == <<open, sessions, role, caps, registry, pending, buffers, call, at, mail, tasks, got, answers, scope>>

-----------------------------------------------------------------------------
(* AgentRegistry.                                                          *)

List(idx, k) == IF k \in DOMAIN idx THEN idx[k] ELSE <<>>

\* Mutant: the old entries stay in the index.
UnindexedNot(idx, c, old) == idx

\* register_agent takes c out of the lists of its old capabilities; the operator
\* [] of the map creates a list that is not there.
Unindexed(idx, c, old) ==
    [k \in DOMAIN idx \cup old |-> IF k \in old THEN Keep(List(idx, k), Conns \ {c})
                                   ELSE idx[k]]

Indexed(idx, c, new) ==
    [k \in DOMAIN idx \cup new |-> IF k \in new /\ c \notin ToSet(List(idx, k))
                                   THEN Append(List(idx, k), c) ELSE List(idx, k)]

CapsOf(c) == IF agents[c] = None THEN {} ELSE agents[c]

RegisterAgent(c, new) ==
    /\ agents' = [agents EXCEPT ![c] = new]
    /\ index' = Indexed(Unindexed(index, c, CapsOf(c)), c, new)

\* unregister_agent drops the lists it empties.
UnregisterAgent(c) ==
    /\ agents' = [agents EXCEPT ![c] = None]
    /\ LET idx == Unindexed(index, c, CapsOf(c))
       IN  index' = [k \in {j \in DOMAIN idx : idx[j] # <<>> \/ j \notin CapsOf(c)} |-> idx[k]]

\* route: the first of the list, since nothing changes active_calls or healthy;
\* find(target) goes first if the call names a target.
Routed(target, k) ==
    LET live == Keep(List(index, k), {c \in Conns : agents[c] # None})
    IN  IF target # None /\ agents[target] # None THEN target
        ELSE IF live = <<>> THEN None ELSE Head(live)

-----------------------------------------------------------------------------
(* Handlers.  Between two of them, at[c] = None; a closed connection is at *)
(* "closed".                                                               *)

Idle(c)     == c \in open /\ at[c] = None
In(c, step) == at[c] # None /\ at[c].step = step
Goto(c, place) == at' = [at EXCEPT ![c] = place]
Post(c, m) == mail' = [mail EXCEPT ![c] = Append(@, m)]
Mail(type, n) == [type |-> type, call |-> n]

\* register, role agent: capabilities add up in the SessionCtx.
Register(c, new) ==
    /\ Idle(c)
    /\ role' = [role EXCEPT ![c] = "agent"]
    /\ caps' = [caps EXCEPT ![c] = @ \cup new]
    /\ RegisterAgent(c, caps[c] \cup new)
    /\ UNCHANGED <<open, sessions, pending, buffers, call, at, mail, tasks, got, answers, scope>>

\* register, role executor (its pool is not part of this module)
RegisterExecutor(c) ==
    /\ Idle(c) /\ RoleChanges /\ role[c] # "executor"
    /\ role' = [role EXCEPT ![c] = "executor"]
    /\ UNCHANGED <<open, sessions, caps, registry, pending, buffers, call, at, mail, tasks, got, answers, scope>>

Made == {m \in Calls : call[m] # None}

NewCall(c, id, k) ==
    LET n == Cardinality(Made) + 1
    IN  /\ n <= MaxCalls /\ n <= scope.calls
        /\ UniqueIds => \A m \in 1..(n - 1) : call[m].id # id
        /\ call' = [call EXCEPT ![n] = [caller |-> c, id |-> id, cap |-> k]]

LastCall == Cardinality(Made')

\* route_agent_call, answered from the cache: the hit becomes a turn of the session.
CallHit(c, id, k) ==
    /\ Idle(c)
    /\ NewCall(c, id, k)
    /\ Post(c, Mail("result", LastCall))
    /\ buffers' = buffers \cup {c}
    /\ UNCHANGED <<open, sessions, role, caps, registry, pending, at, tasks, got, answers, scope>>

\* route_agent_call: a miss, or the caller bypasses the cache
CallMiss(c, id, k, target) ==
    /\ Idle(c)
    /\ NewCall(c, id, k)
    /\ Goto(c, [step |-> "route", call |-> LastCall, peer |-> target])
    /\ UNCHANGED <<open, sessions, role, caps, registry, pending, buffers, mail, tasks, got, answers, scope>>

\* Mutant: the call goes on when there is no agent.
RouteAnyway(c) ==
    /\ In(c, "route")
    /\ LET n == at[c].call
       IN  Goto(c, [step |-> "record", call |-> n, peer |-> Routed(at[c].peer, call[n].cap)])
    /\ UNCHANGED <<open, sessions, role, caps, registry, pending, buffers, call, mail, tasks, got, answers, scope>>

\* under the lock of the registry
Route(c) ==
    /\ In(c, "route")
    /\ LET n == at[c].call
           t == Routed(at[c].peer, call[n].cap)
       IN  IF t = None
           THEN Post(c, Mail("no_agent", n)) /\ Goto(c, None)
           ELSE Goto(c, [step |-> "record", call |-> n, peer |-> t]) /\ UNCHANGED mail
    /\ UNCHANGED <<open, sessions, role, caps, registry, pending, buffers, call, tasks, got, answers, scope>>

\* under pending_mu_
Record(c) ==
    /\ In(c, "record")
    /\ pending' = [pending EXCEPT ![call[at[c].call].id] = at[c].call]
    /\ Goto(c, [at[c] EXCEPT !.step = "forward"])
    /\ UNCHANGED <<open, sessions, role, caps, registry, buffers, call, mail, tasks, got, answers, scope>>

\* ws_send_to_session: nothing is sent if the session has gone meanwhile.
Forward(c) ==
    /\ In(c, "forward")
    /\ IF at[c].peer \in sessions THEN Post(at[c].peer, Mail("call", at[c].call)) ELSE UNCHANGED mail
    /\ Goto(c, None)
    /\ UNCHANGED <<open, sessions, role, caps, registry, pending, buffers, call, tasks, got, answers, scope>>

\* route_agent_result asks for the call_id only: the result of a call may come from any
\* connection, and before the call has reached its agent.
MayAnswer(c, n) == n \in Made /\ (n \in tasks[c] \/ c \in scope.strangers)

\* Mutant: the caller stays in the map.
AgentResultKeeps(c, n) ==
    /\ Idle(c) /\ MayAnswer(c, n) /\ answers[n] < MaxAnswers
    /\ answers' = [answers EXCEPT ![n] = @ + 1]
    /\ LET id == call[n].id
       IN  IF pending[id] = None
           THEN Post(c, Mail("no_pending", n)) /\ UNCHANGED <<pending, at>>
           ELSE /\ UNCHANGED <<pending, mail>>
                /\ Goto(c, [step |-> "check", call |-> pending[id], peer |-> call[pending[id]].caller])
    /\ UNCHANGED <<open, sessions, role, caps, registry, buffers, call, tasks, got, scope>>

\* route_agent_result under pending_mu_: the caller is looked up by call_id and taken out.
AgentResult(c, n) ==
    /\ Idle(c) /\ MayAnswer(c, n) /\ answers[n] < MaxAnswers
    /\ answers' = [answers EXCEPT ![n] = @ + 1]
    /\ LET id == call[n].id
       IN  IF pending[id] = None
           THEN Post(c, Mail("no_pending", n)) /\ UNCHANGED <<pending, at>>
           ELSE /\ pending' = [pending EXCEPT ![id] = None]
                /\ UNCHANGED mail
                /\ Goto(c, [step |-> "check", call |-> pending[id], peer |-> call[pending[id]].caller])
    /\ UNCHANGED <<open, sessions, role, caps, registry, buffers, call, tasks, got, scope>>

\* caller->disconnected()?  If not, the result is written to the cache.
CheckCaller(c) ==
    /\ In(c, "check")
    /\ IF at[c].peer \in open
       THEN Goto(c, [at[c] EXCEPT !.step = "buffer"]) /\ UNCHANGED mail
       ELSE Post(c, Mail("caller_gone", at[c].call)) /\ Goto(c, None)
    /\ UNCHANGED <<open, sessions, role, caps, registry, pending, buffers, call, tasks, got, answers, scope>>

\* session_buffer: a reference to the caller's buffer, made if there is none.
TakeBuffer(c) ==
    /\ In(c, "buffer")
    /\ buffers' = buffers \cup {at[c].peer}
    /\ Goto(c, [at[c] EXCEPT !.step = "append"])
    /\ UNCHANGED <<open, sessions, role, caps, registry, pending, call, mail, tasks, got, answers, scope>>

\* Mutant: the result is sent if the call is still pending.
AppendAndSendPending(c) ==
    /\ In(c, "append")
    /\ IF pending[call[at[c].call].id] # None THEN Post(at[c].peer, Mail("result", at[c].call))
       ELSE UNCHANGED mail
    /\ Goto(c, None)
    /\ UNCHANGED <<open, sessions, role, caps, registry, pending, buffers, call, tasks, got, answers, scope>>

\* sb.append(turn), and the result is sent to the caller.
AppendAndSend(c) ==
    /\ In(c, "append")
    /\ Post(at[c].peer, Mail("result", at[c].call))
    /\ Goto(c, None)
    /\ UNCHANGED <<open, sessions, role, caps, registry, pending, buffers, call, tasks, got, answers, scope>>

\* A queued functor of c's loop: ws_send checks that c is connected.
Deliver(c) ==
    /\ mail[c] # <<>> /\ (at[c] = None \/ In(c, "closed"))
    /\ mail' = [mail EXCEPT ![c] = Tail(@)]
    /\ LET m == Head(mail[c])
       IN  IF c \notin open THEN UNCHANGED <<tasks, got>>
           ELSE IF m.type = "call"
                THEN tasks' = [tasks EXCEPT ![c] = @ \cup {m.call}] /\ UNCHANGED got
                ELSE got' = [got EXCEPT ![c] = Append(@, m)] /\ UNCHANGED tasks
    /\ UNCHANGED <<open, sessions, role, caps, registry, pending, buffers, call, at, answers, scope>>

\* The connection breaks; its loop notices when it is done with what it is doing.
Disconnect(c) ==
    /\ c \in open
    /\ open' = open \ {c}
    /\ UNCHANGED <<sessions, role, caps, registry, pending, buffers, call, at, mail, tasks, got, answers, scope>>

\* handleConnectionClosed: the role now decides what is undone.
Close(c) ==
    /\ c \notin open /\ at[c] = None
    /\ IF role[c] = "agent"
       THEN UnregisterAgent(c) /\ Goto(c, [step |-> "archive", call |-> None, peer |-> c])
       ELSE Goto(c, [step |-> "session", call |-> None, peer |-> c]) /\ UNCHANGED registry
    /\ UNCHANGED <<open, sessions, role, caps, pending, buffers, call, mail, tasks, got, answers, scope>>

\* archive_session
CloseArchive(c) ==
    /\ In(c, "archive")
    /\ buffers' = buffers \ {c}
    /\ Goto(c, [at[c] EXCEPT !.step = "session"])
    /\ UNCHANGED <<open, sessions, role, caps, registry, pending, call, mail, tasks, got, answers, scope>>

CloseSession(c) ==
    /\ In(c, "session")
    /\ sessions' = sessions \ {c}
    /\ Goto(c, [at[c] EXCEPT !.step = "closed"])
    /\ UNCHANGED <<open, role, caps, registry, pending, buffers, call, mail, tasks, got, answers, scope>>

-----------------------------------------------------------------------------
Init ==
    /\ open = Conns /\ sessions = Conns
    /\ role = [c \in Conns |-> "user"]
    /\ caps = [c \in Conns |-> {}]
    /\ agents = [c \in Conns |-> None] /\ index = <<>>
    /\ pending = [id \in CallIds |-> None]
    /\ buffers = {}
    /\ call = [n \in Calls |-> None]
    /\ at = [c \in Conns |-> None]
    /\ mail = [c \in Conns |-> <<>>]
    /\ tasks = [c \in Conns |-> {}] /\ got = [c \in Conns |-> <<>>]
    /\ answers = [n \in Calls |-> 0] /\ scope \in Scopes

\* What the loop of c does once it has begun.
LoopStep(c) ==
    \/ Route(c) \/ Record(c) \/ Forward(c)
    \/ CheckCaller(c) \/ TakeBuffer(c) \/ AppendAndSend(c)
    \/ Deliver(c) \/ Close(c) \/ CloseArchive(c) \/ CloseSession(c)

\* A message from c, or its loss.
Client(c) ==
    \/ \E new \in SUBSET Caps : Register(c, new)
    \/ RegisterExecutor(c)
    \/ \E id \in CallIds, k \in Caps : CallHit(c, id, k)
    \/ \E id \in CallIds, k \in Caps, t \in Conns \cup {None} : CallMiss(c, id, k, t)
    \/ \E n \in Calls : AgentResult(c, n)
    \/ Disconnect(c)

Next == \E c \in Conns : LoopStep(c) \/ Client(c)

Spec == Init /\ [][Next]_vars

-----------------------------------------------------------------------------
(* Properties.                                                             *)

Answer == {"result", "no_agent", "no_pending", "caller_gone"}

\* Every variable (scope never changes) stays in its domain, and a call is recorded and forwarded only when an
\* agent was found for it.
TypeOK ==
    /\ open \subseteq Conns /\ sessions \subseteq Conns /\ buffers \subseteq Conns
    /\ role \in [Conns -> {"user", "executor", "agent"}]
    /\ caps \in [Conns -> SUBSET Caps]
    /\ agents \in [Conns -> (SUBSET Caps) \cup {None}]
    /\ DOMAIN index \subseteq Caps /\ \A k \in DOMAIN index : index[k] \in Seq(Conns)
    /\ pending \in [CallIds -> Calls \cup {None}]
    /\ call \in [Calls -> [caller : Conns, id : CallIds, cap : Caps] \cup {None}]
    /\ at \in [Conns -> [step : Steps, call : Calls \cup {None}, peer : Conns \cup {None}]
                            \cup {None}]
    /\ \A c \in Conns : at[c] # None /\ at[c].peer = None => at[c].step = "route"
    /\ mail \in [Conns -> Seq([type : Answer \cup {"call"}, call : Calls])]
    /\ tasks \in [Conns -> SUBSET Calls]
    /\ got \in [Conns -> Seq([type : Answer, call : Calls])]
    /\ answers \in [Calls -> 0..MaxAnswers]

\* The capability index has exactly the registered agents, each once, and no empty list,
\* after any sequence of registrations and closes (register_agent, unregister_agent;
\* all_capabilities lists the keys of the index).  A connection that has closed is not in the
\* session map, and if it closed as an agent it is not in the registry either, so no later
\* call is routed to it (handleConnectionClosed).
RegistryExact ==
    /\ \A k \in Caps : ToSet(List(index, k)) = {c \in Conns : k \in CapsOf(c)}
    /\ \A k \in DOMAIN index : index[k] # <<>> /\ IsInjective(index[k])
    /\ \A c \in Conns : In(c, "closed") => c \notin sessions /\ (role[c] = "agent" => agents[c] = None)

\* An answer reaches the connection that made the call, and it gets at most one, however often
\* and from whom results arrive and whether or not call_ids are distinct (route_agent_call,
\* route_agent_result).
AnswerToCaller ==
    \A c \in Conns : \A i \in 1..Len(got[c]) :
        got[c][i].type \in {"result", "no_agent"} =>
            /\ call[got[c][i].call].caller = c
            /\ \A j \in 1..Len(got[c]) : got[c][j].type \in {"result", "no_agent"}
                                             /\ got[c][i].call = got[c][j].call => i = j

\* The result of the n-th call is being handled, queued in its caller's loop, or received.
Answering(n) ==
    \/ \E c \in Conns : (\E s \in {"check", "buffer", "append"} : In(c, s)) /\ at[c].call = n
    \/ Mail("result", n) \in ToSet(mail[call[n].caller]) \cup ToSet(got[call[n].caller])

\* If callers use distinct call_ids, a call that reached an agent is never forgotten while its
\* caller is connected: it is pending until a result takes it out of the map, and that result
\* is then on its way to the caller or there, whatever closes meanwhile (route_agent_call,
\* route_agent_result).
NoCallForgotten ==
    \A n \in UNION {tasks[c] : c \in Conns} :
        call[n].caller \in open => pending[call[n].id] = n \/ Answering(n)

-----------------------------------------------------------------------------
(* What the documentation promises and the code does not keep.             *)

\* ws_chat_controller.h:114 says that the map leads from an agent_call to its caller: a
\* result reaches the connection that made the call it answers.
ResultToItsCaller ==
    [][\A c \in Conns, n \in Calls : AgentResult(c, n) /\ at' # at => at'[c].peer = call[n].caller]_vars

\* Calls handed to agent c that it has not answered.
Load(c) == Cardinality({n \in tasks[c] : answers[n] = 0})
            + Len(SelectSeq(mail[c], LAMBDA m : m.type = "call"))

\* agent_cache.cpp:771 says that route takes the agent with the lowest load.
LowestLoad ==
    [][\A c \in Conns : Route(c) /\ at[c].peer = None /\ at'[c] # None =>
          \A d \in Conns : call[at[c].call].cap \in CapsOf(d) => Load(at'[c].peer) <= Load(d)]_vars

\* agent_cache.h:220 says that the SessionBuffer is released when the session closes.
BufferReleased == \A c \in Conns : In(c, "closed") => c \notin buffers

\* The same comment has it released on close only: the reference route_agent_result holds
\* for its append is to a buffer that still exists.
AppendToLive == \A c \in Conns : In(c, "append") => at[c].peer \in buffers
=============================================================================
