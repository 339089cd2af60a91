------------------------- MODULE AgentRoutingProofs -------------------------
(***************************************************************************)
(* Proofs about AgentRouting, for any number of connections, capabilities, *)
(* calls and results.                                                      *)
(***************************************************************************)
EXTENDS AgentRouting, SequenceLemmas, FiniteSetTheorems

-----------------------------------------------------------------------------
(* The inductive invariant, in parts.                                      *)

\* The handler of c works on call n in one of these steps.
At(c, n, steps) == at[c] # None /\ at[c].step \in steps /\ at[c].call = n

Answering3 == {"check", "buffer", "append"}
Closing    == {"archive", "session", "closed"}

\* Calls are numbered in the order they are made.
Numbered == \E k \in 0..MaxCalls : Made = 1..k

\* What refers to a call refers to one that was made, and to its caller.
Known ==
    /\ \A c \in Conns : tasks[c] \subseteq Made
    /\ \A c \in Conns : \A m \in ToSet(mail[c]) \cup ToSet(got[c]) : m.call \in Made
    /\ \A id \in CallIds : pending[id] # None => pending[id] \in Made /\ call[pending[id]].id = id
    /\ \A c \in Conns : at[c] # None =>
          /\ at[c].step \in Closing => c \notin open /\ at[c].peer = c
          /\ at[c].step \notin Closing => at[c].call \in Made
          /\ at[c].step \in Answering3 => at[c].peer = call[at[c].call].caller
          /\ at[c].step \in {"route", "record"} => c = call[at[c].call].caller

Basic == TypeOK /\ Numbered /\ Known

\* An agent is listed with capabilities it has declared, and one that is closing no longer.
Listed ==
    \A c \in Conns :
        /\ agents[c] # None => agents[c] \subseteq caps[c]
        /\ at[c] # None /\ at[c].step \in Closing /\ role[c] = "agent" => agents[c] = None

\* m is an answer that ends call n.
Final(m, n) == m.type \in {"result", "no_agent"} /\ m.call = n
Has(s, n)   == \E i \in 1..Len(s) : Final(s[i], n)
Once(s, n)  == \A i, j \in 1..Len(s) : Final(s[i], n) /\ Final(s[j], n) => i = j

Holding == {"route", "record"} \cup Answering3

\* A call is held by one handler, pending, or answered, never two of these, and its answer
\* is in one place, its caller's: as far as c goes.
OneHolder(n, c) ==
    /\ Has(mail[c], n) \/ Has(got[c], n) => call[n].caller = c
    /\ Once(mail[c], n) /\ Once(got[c], n) /\ ~(Has(mail[c], n) /\ Has(got[c], n))
    /\ At(c, n, Holding) =>
          /\ pending[call[n].id] # n
          /\ \A d \in Conns : /\ ~Has(mail[d], n) /\ ~Has(got[d], n)
                              /\ At(d, n, Holding) => d = c
    /\ n \in Made /\ pending[call[n].id] = n => ~Has(mail[c], n) /\ ~Has(got[c], n)

HeldOnce == \A n \in Calls, c \in Conns : OneHolder(n, c)

DistinctIds == \A m, n \in Made : call[m].id = call[n].id => m = n

\* The n-th call is on its way to an agent or there.
Sent(n) == \E c \in Conns : \/ At(c, n, {"forward"})
                            \/ Mail("call", n) \in ToSet(mail[c])
                            \/ n \in tasks[c]

NotForgotten ==
    \A n \in Calls : Sent(n) /\ call[n].caller \in open => pending[call[n].id] = n \/ Answering(n)

-----------------------------------------------------------------------------
(* The operators of the model.                                             *)

Msg == [type : Answer \cup {"call"}, call : Calls]
Place == [step : Steps, call : Calls \cup {None}, peer : Conns \cup {None}]
CallRec == [caller : Conns, id : CallIds, cap : Caps]

\* A capability index of the right type.
IsIndex(idx) == DOMAIN idx \subseteq Caps /\ \A k \in DOMAIN idx : idx[k] \in Seq(Conns)

\* None is no place, no record of a call and no set of capabilities.
LEMMA NoneIsNothing ==
    /\ \A p \in Place : p # None
    /\ \A r \in CallRec : r # None
    /\ \A cs \in SUBSET Caps : cs # None
    /\ \A n \in Calls : n # None
    /\ \A c \in Conns : c # None
  BY NoneAssumption DEF CallRec, Place

\* The list of a capability, of those listed or not.
LEMMA ListType ==
    ASSUME NEW idx, IsIndex(idx), NEW k
    PROVE  List(idx, k) \in Seq(Conns)
  BY DEF List, IsIndex

\* register_agent and unregister_agent take an agent out of the lists of its capabilities.
LEMMA UnindexedType ==
    ASSUME NEW idx, IsIndex(idx), NEW c \in Conns, NEW old \in SUBSET Caps
    PROVE  IsIndex(Unindexed(idx, c, old))
<1>1. ASSUME NEW k PROVE Keep(List(idx, k), Conns \ {c}) \in Seq(Conns)
  BY ListType, KeepFacts
<1>2. DOMAIN Unindexed(idx, c, old) = DOMAIN idx \cup old
  BY DEF Unindexed
<1>3. \A k \in DOMAIN idx \cup old : Unindexed(idx, c, old)[k] \in Seq(Conns)
  BY <1>1 DEF Unindexed, IsIndex
<1> QED
  BY <1>2, <1>3 DEF IsIndex

\* register_agent enters an agent in the lists of its capabilities.
LEMMA IndexedType ==
    ASSUME NEW idx, IsIndex(idx), NEW c \in Conns, NEW new \in SUBSET Caps
    PROVE  IsIndex(Indexed(idx, c, new))
<1>1. ASSUME NEW k
      PROVE  List(idx, k) \in Seq(Conns) /\ Append(List(idx, k), c) \in Seq(Conns)
  BY ListType, AppendAt
<1>2. DOMAIN Indexed(idx, c, new) = DOMAIN idx \cup new
  BY DEF Indexed
<1>3. \A k \in DOMAIN idx \cup new : Indexed(idx, c, new)[k] \in Seq(Conns)
  BY <1>1 DEF Indexed
<1> QED
  BY <1>2, <1>3 DEF IsIndex

\* The capabilities of an agent are capabilities.
LEMMA CapsOfType ==
    ASSUME TypeOK, NEW c \in Conns
    PROVE  CapsOf(c) \in SUBSET Caps /\ IsIndex(index)
<1>1. agents[c] \in SUBSET Caps \/ agents[c] = None
  BY DEF TypeOK
<1>2. {} \in SUBSET Caps
  OBVIOUS
<1>3. IsIndex(index)
  BY DEF TypeOK, IsIndex
<1> QED
  BY <1>1, <1>2, <1>3 DEF CapsOf

\* route finds a connection or none.
LEMMA RoutedType ==
    ASSUME TypeOK, NEW target \in Conns \cup {None}, NEW k
    PROVE  Routed(target, k) \in Conns \cup {None}
<1> DEFINE live == Keep(List(index, k), {d \in Conns : agents[d] # None})
<1>1. live \in Seq(Conns)
  BY ListType, KeepFacts DEF TypeOK, IsIndex
<1>2. live # <<>> => Head(live) \in Conns
  BY <1>1, TailAt
<1> QED
  BY <1>2 DEF Routed

\* A new call takes the next number, and its record is the only one that changes.
LEMMA NewCallFacts ==
    ASSUME Basic, NEW c \in Conns, NEW id \in CallIds, NEW k \in Caps, NewCall(c, id, k)
    PROVE  /\ LastCall \in Calls
           /\ call'[LastCall] = [caller |-> c, id |-> id, cap |-> k]
           /\ \A i \in Calls \ {LastCall} : call'[i] = call[i]
           /\ \A i \in Made : call'[i] = call[i]
           /\ call' \in [Calls -> CallRec \cup {None}]
           /\ Numbered' /\ Made' = Made \cup {LastCall} /\ LastCall \notin Made
           /\ UniqueIds => \A m \in Made : call[m].id # id
<1>1. PICK n \in 0..MaxCalls : Made = 1..n
  BY DEF Basic, Numbered
<1>2. Cardinality(Made) = n /\ MaxCalls \in Nat
  BY <1>1, FS_Interval, BoundAssumption
<1>3. n + 1 <= MaxCalls /\ (UniqueIds => \A m \in 1..n : call[m].id # id)
      /\ call' = [call EXCEPT ![n + 1] = [caller |-> c, id |-> id, cap |-> k]]
  BY <1>2 DEF NewCall
<1>4. n + 1 \in Calls /\ n + 1 \notin Made
  BY <1>1, <1>2, <1>3 DEF Calls
<1>6. [caller |-> c, id |-> id, cap |-> k] \in CallRec
  BY DEF CallRec
<1>7. call \in [Calls -> CallRec \cup {None}]
  BY DEF Basic, TypeOK, CallRec
<1>8. call' \in [Calls -> CallRec \cup {None}] /\ call'[n + 1] # None
      /\ \A m \in Calls \ {n + 1} : call'[m] = call[m]
  BY <1>3, <1>4, <1>6, <1>7, NoneIsNothing
<1>9. Made' = Made \cup {n + 1}
  BY <1>4, <1>8 DEF Made
<1>10. Made' = 1..(n + 1) /\ n + 1 \in 0..MaxCalls
  BY <1>1, <1>2, <1>3, <1>9
<1>11. LastCall = n + 1
  BY <1>2, <1>10, FS_Interval DEF LastCall
<1>12. Numbered'
  BY <1>10 DEF Numbered
<1>13. \A i \in Made : i \in Calls \ {n + 1}
  BY <1>4 DEF Made
<1>14. call'[n + 1] = [caller |-> c, id |-> id, cap |-> k]
  BY <1>3, <1>4, <1>7
<1> QED
  BY <1>1, <1>3, <1>4, <1>8, <1>9, <1>11, <1>12, <1>13, <1>14

-----------------------------------------------------------------------------
(* Types, and what refers to a call.                                       *)

\* The initial state.
LEMMA InitBasic == Init => Basic
<1> SUFFICES ASSUME Init PROVE Basic
  OBVIOUS
<1>1. TypeOK
  BY BoundAssumption, NoneIsNothing DEF Init, TypeOK, Calls
<1>2. Numbered
  <2>1. Made = 1..0 /\ 0 \in 0..MaxCalls
    BY BoundAssumption DEF Init, Made
  <2> QED
    BY <2>1 DEF Numbered
<1>3. Known
  BY DEF Init, Known, ToSet
<1> QED
  BY <1>1, <1>2, <1>3 DEF Basic

\* Messages that are posted.
LEMMA PostFacts ==
    ASSUME TypeOK, NEW c \in Conns, NEW m \in Msg, Post(c, m)
    PROVE  /\ mail' \in [Conns -> Seq(Msg)]
           /\ mail'[c] = Append(mail[c], m)
           /\ \A d \in Conns : d # c => mail'[d] = mail[d]
           /\ \A d \in Conns : ToSet(mail'[d]) = IF d = c THEN ToSet(mail[d]) \cup {m}
                                                 ELSE ToSet(mail[d])
<1>1. mail \in [Conns -> Seq(Msg)]
  BY DEF TypeOK, Msg
<1>2. Append(mail[c], m) \in Seq(Msg) /\ ToSet(Append(mail[c], m)) = ToSet(mail[c]) \cup {m}
  BY <1>1, AppendAt, ToSetAppend
<1> QED
  BY <1>1, <1>2 DEF Post

\* The place of a handler that works on a call.
LEMMA PlaceFacts ==
    ASSUME Basic, NEW c \in Conns, NEW step \in Steps \ Closing, In(c, step)
    PROVE  /\ at[c] \in Place /\ at[c].step = step /\ at[c] # None
           /\ at[c].call \in Made /\ at[c].call \in Calls
           /\ call[at[c].call] \in CallRec
           /\ at[c].peer = None => step = "route"
           /\ step \in Answering3 => at[c].peer = call[at[c].call].caller
           /\ step \in {"route", "record"} => c = call[at[c].call].caller
<1>1. at[c] # None /\ at[c].step = step
  BY DEF In
<1>2. at[c] \in Place /\ (at[c].peer = None => step = "route")
  BY <1>1 DEF Basic, TypeOK, Place
<1>3. at[c].call \in Made
  BY <1>1 DEF Basic, Known
<1>4. at[c].call \in Calls /\ call[at[c].call] \in CallRec
  BY <1>3 DEF Made, Basic, TypeOK, CallRec
<1> QED
  BY <1>1, <1>2, <1>3, <1>4 DEF Basic, Known

\* Actions of registration.
LEMMA RegisterBasic ==
    ASSUME Basic, NEW c \in Conns, NEW new \in SUBSET Caps, Register(c, new)
    PROVE  Basic'
<1>1. /\ caps[c] \cup new \in SUBSET Caps
      /\ IsIndex(index')
  <2>1. caps[c] \cup new \in SUBSET Caps
    BY DEF Basic, TypeOK
  <2>2. CapsOf(c) \in SUBSET Caps /\ IsIndex(index)
    BY CapsOfType DEF Basic
  <2>3. index' = Indexed(Unindexed(index, c, CapsOf(c)), c, caps[c] \cup new)
    BY DEF Register, RegisterAgent
  <2> QED
    BY <2>1, <2>2, <2>3, UnindexedType, IndexedType
<1>2. TypeOK'
  BY <1>1 DEF Basic, TypeOK, Register, RegisterAgent, IsIndex
<1>3. Numbered' /\ Known'
  BY DEF Basic, Register, Numbered, Made, Known
<1> QED
  BY <1>2, <1>3 DEF Basic

\* An agent that registers as an executor changes its role only.
LEMMA RegisterExecutorBasic ==
    ASSUME Basic, NEW c \in Conns, RegisterExecutor(c)
    PROVE  Basic'
<1>1. TypeOK'
  BY DEF Basic, TypeOK, RegisterExecutor, registry
<1>2. Numbered' /\ Known'
  BY DEF Basic, RegisterExecutor, Numbered, Made, Known, registry
<1> QED
  BY <1>1, <1>2 DEF Basic

\* A call that the cache answers.
LEMMA CallHitBasic ==
    ASSUME Basic, NEW c \in Conns, NEW id \in CallIds, NEW k \in Caps, CallHit(c, id, k)
    PROVE  Basic'
<1> DEFINE n == LastCall
           m == Mail("result", n)
<1>1. NewCall(c, id, k) /\ Post(c, m)
  BY DEF CallHit
<1>2. /\ n \in Calls /\ n \notin Made /\ Made' = Made \cup {n} /\ Numbered'
      /\ call' \in [Calls -> CallRec \cup {None}] /\ \A i \in Made : call'[i] = call[i]
  BY <1>1, NewCallFacts
<1> HIDE DEF n
<1>3. m \in Msg /\ m.call = n
  BY <1>2 DEF Mail, Msg, Answer
<1> HIDE DEF m
<1>4. /\ mail' \in [Conns -> Seq(Msg)]
      /\ \A d \in Conns : ToSet(mail'[d]) \subseteq ToSet(mail[d]) \cup {m}
  BY <1>1, <1>3, PostFacts DEF Basic
<1>5. TypeOK'
  BY <1>2, <1>4 DEF Basic, TypeOK, CallHit, registry, CallRec, Msg
<1>6. Known'
  <2>1. \A d \in Conns : tasks'[d] \subseteq Made'
    BY <1>2 DEF Basic, Known, CallHit
  <2>2. \A d \in Conns : \A x \in ToSet(mail'[d]) \cup ToSet(got'[d]) : x.call \in Made'
    BY <1>2, <1>3, <1>4 DEF Basic, Known, CallHit
  <2>3. \A i \in CallIds : pending'[i] # None => pending'[i] \in Made' /\ call'[pending'[i]].id = i
    BY <1>2 DEF Basic, Known, CallHit
  <2>4. at' = at /\ open' = open
    BY DEF CallHit
  <2> QED
    BY <1>2, <2>1, <2>2, <2>3, <2>4 DEF Basic, Known, Answering3, Closing
<1> QED
  BY <1>2, <1>5, <1>6 DEF Basic

\* A call that goes on to the registry.
LEMMA CallMissBasic ==
    ASSUME Basic, NEW c \in Conns, NEW id \in CallIds, NEW k \in Caps,
           NEW t \in Conns \cup {None}, CallMiss(c, id, k, t)
    PROVE  Basic'
<1> DEFINE n == LastCall
           p == [step |-> "route", call |-> n, peer |-> t]
<1>1. NewCall(c, id, k) /\ at[c] = None /\ at' = [at EXCEPT ![c] = p]
  BY DEF CallMiss, Idle, Goto
<1>2. /\ n \in Calls /\ n \notin Made /\ Made' = Made \cup {n} /\ Numbered'
      /\ call' \in [Calls -> CallRec \cup {None}] /\ \A i \in Made : call'[i] = call[i]
      /\ call'[n] = [caller |-> c, id |-> id, cap |-> k]
  BY <1>1, NewCallFacts
<1> HIDE DEF n
<1>3. p \in Place /\ p.call = n /\ p.step = "route" /\ p # None
  BY <1>2, NoneIsNothing DEF Place, Steps
<1> HIDE DEF p
<1>4. at' \in [Conns -> Place \cup {None}] /\ at'[c] = p /\ \A d \in Conns \ {c} : at'[d] = at[d]
  BY <1>1, <1>3 DEF Basic, TypeOK, Place
<1>5. TypeOK'
  BY <1>2, <1>3, <1>4 DEF Basic, TypeOK, CallMiss, registry, CallRec, Place
<1>6. Known'
  BY <1>2, <1>3, <1>4 DEF Basic, Known, CallMiss, registry, Answering3, Closing
<1> QED
  BY <1>2, <1>5, <1>6 DEF Basic

\* route, with or without an agent
LEMMA RouteBasic ==
    ASSUME Basic, NEW c \in Conns, Route(c)
    PROVE  Basic'
<1> DEFINE n == at[c].call
           t == Routed(at[c].peer, call[n].cap)
<1>1. at[c] \in Place /\ at[c] # None /\ at[c].step = "route" /\ n \in Made /\ n \in Calls
      /\ c = call[n].caller
  BY PlaceFacts DEF Route, Steps, Closing
<1>2. t \in Conns \cup {None}
  BY <1>1, RoutedType DEF Basic, Place
<1>4. Numbered' /\ Made' = Made
  BY DEF Route, Basic, Numbered, Made
<1>5. CASE t = None
  <2>1. Post(c, Mail("no_agent", n)) /\ at' = [at EXCEPT ![c] = None]
    BY <1>5 DEF Route, Goto
  <2>2. Mail("no_agent", n) \in Msg /\ Mail("no_agent", n).call = n
    BY <1>1 DEF Mail, Msg, Answer
  <2>3. /\ mail' \in [Conns -> Seq(Msg)]
        /\ \A d \in Conns : ToSet(mail'[d]) \subseteq ToSet(mail[d]) \cup {Mail("no_agent", n)}
    BY <2>1, <2>2, PostFacts DEF Basic
  <2>4. TypeOK'
    BY <2>1, <2>3 DEF Basic, TypeOK, Route, registry, Msg
  <2>5. Known'
    BY <1>1, <1>4, <2>1, <2>2, <2>3 DEF Basic, TypeOK, Known, Route, registry
  <2> QED
    BY <1>4, <2>4, <2>5 DEF Basic
<1>6. CASE t # None
  <2> DEFINE p == [step |-> "record", call |-> n, peer |-> t]
  <2>1. at' = [at EXCEPT ![c] = p] /\ mail' = mail
    BY <1>6 DEF Route, Goto
  <2>2. p \in Place /\ p.call = n /\ p.step = "record" /\ p.peer # None
    BY <1>1, <1>2, <1>6 DEF Place, Steps
  <2> HIDE DEF p, t, n
  <2>3. at' \in [Conns -> Place \cup {None}] /\ at'[c] = p /\ \A d \in Conns \ {c} : at'[d] = at[d]
    BY <2>1, <2>2 DEF Basic, TypeOK, Place
  <2>4. TypeOK'
    BY <2>1, <2>2, <2>3 DEF Basic, TypeOK, Route, registry, Place
  <2>5. Known'
    BY <1>1, <1>4, <2>1, <2>2, <2>3 DEF Basic, Known, Route, registry, Answering3, Closing
  <2> QED
    BY <1>4, <2>4, <2>5 DEF Basic
<1> QED
  BY <1>5, <1>6

\* The call is recorded as pending.
LEMMA RecordBasic ==
    ASSUME Basic, NEW c \in Conns, Record(c)
    PROVE  Basic'
<1> DEFINE n == at[c].call
           p == [at[c] EXCEPT !.step = "forward"]
<1>1. /\ at[c] \in Place /\ at[c] # None /\ at[c].step = "record" /\ at[c].peer # None
      /\ n \in Made /\ n \in Calls /\ call[n] \in CallRec
  BY PlaceFacts DEF Record, Steps, Closing
<1>2. p \in Place /\ p.call = n /\ p.step = "forward" /\ p.peer = at[c].peer
  BY <1>1 DEF Place, Steps
<1>3. at' = [at EXCEPT ![c] = p] /\ pending' = [pending EXCEPT ![call[n].id] = n]
  BY DEF Record, Goto
<1>4. Numbered' /\ Made' = Made
  BY DEF Record, Basic, Numbered, Made
<1> HIDE DEF p, n
<1>5. at' \in [Conns -> Place \cup {None}] /\ at'[c] = p /\ \A d \in Conns \ {c} : at'[d] = at[d]
  BY <1>2, <1>3 DEF Basic, TypeOK, Place
<1>6. pending' \in [CallIds -> Calls \cup {None}]
  BY <1>1, <1>3 DEF Basic, TypeOK, CallRec
<1>7. TypeOK'
  <2>1. \A d \in Conns : at'[d] # None /\ at'[d].peer = None => at'[d].step = "route"
    BY <1>1, <1>2, <1>5 DEF Basic, TypeOK
  <2> QED
    BY <1>5, <1>6, <2>1 DEF Basic, TypeOK, Record, registry, Place
<1>8. Known'
  BY <1>1, <1>2, <1>3, <1>4, <1>5 DEF Basic, TypeOK, Known, Record, registry, Answering3, Closing
<1> QED
  BY <1>4, <1>7, <1>8 DEF Basic

\* The call is sent to the agent's session.
LEMMA ForwardBasic ==
    ASSUME Basic, NEW c \in Conns, Forward(c)
    PROVE  Basic'
<1> DEFINE n == at[c].call
           m == Mail("call", n)
<1>1. at[c] \in Place /\ at[c] # None /\ at[c].step = "forward" /\ n \in Made /\ n \in Calls
  BY PlaceFacts DEF Forward, Steps, Closing
<1>2. m \in Msg /\ m.call = n
  BY <1>1 DEF Mail, Msg
<1>3. at[c].peer \in sessions => at[c].peer \in Conns /\ Post(at[c].peer, m)
  BY <1>1 DEF Forward, Basic, TypeOK
<1>4. at' = [at EXCEPT ![c] = None] /\ (at[c].peer \notin sessions => mail' = mail)
  BY DEF Forward, Goto
<1> HIDE DEF m, n
<1>5. /\ mail' \in [Conns -> Seq(Msg)]
      /\ \A d \in Conns : ToSet(mail'[d]) \subseteq ToSet(mail[d]) \cup {m}
  <2>1. TypeOK /\ mail \in [Conns -> Seq(Msg)]
    BY DEF Basic, TypeOK, Msg
  <2>2. CASE at[c].peer \in sessions
    BY <1>2, <1>3, <2>1, <2>2, PostFacts
  <2>3. CASE at[c].peer \notin sessions
    BY <1>4, <2>1, <2>3
  <2> QED
    BY <2>2, <2>3
<1>6. Numbered' /\ Made' = Made
  BY DEF Forward, Basic, Numbered, Made
<1>7. TypeOK'
  BY <1>4, <1>5 DEF Basic, TypeOK, Forward, registry, Msg
<1>8. Known'
  <2>1. /\ Known /\ open' = open /\ call' = call /\ tasks' = tasks /\ got' = got
        /\ pending' = pending /\ Made' = Made
    BY <1>6 DEF Basic, Forward
  <2>2. \A d \in Conns : at'[d] # None => at'[d] = at[d]
    BY <1>4 DEF Basic, TypeOK
  <2>3. \A d \in Conns : \A x \in ToSet(mail'[d]) \cup ToSet(got'[d]) : x.call \in Made
    BY <1>1, <1>2, <1>5, <2>1 DEF Known
  <2> QED
    BY <2>1, <2>2, <2>3 DEF Known
<1> QED
  BY <1>6, <1>7, <1>8 DEF Basic

\* An agent's result takes the call out of the map.
LEMMA AgentResultBasic ==
    ASSUME Basic, NEW c \in Conns, NEW n \in Calls, AgentResult(c, n)
    PROVE  Basic'
<1> DEFINE id == call[n].id
           r == pending[id]
<1>1. c \in open /\ at[c] = None /\ n \in Made /\ answers[n] < MaxAnswers
  BY DEF AgentResult, MayAnswer, Idle
<1>2. call[n] \in CallRec /\ id \in CallIds
  BY <1>1 DEF Basic, TypeOK, CallRec, Made
<1>3. Numbered' /\ Made' = Made
  BY DEF AgentResult, Basic, Numbered, Made
<1>4. answers' \in [Calls -> 0..MaxAnswers]
  <2>1. answers[n] \in 0..MaxAnswers /\ MaxAnswers \in Nat
    BY BoundAssumption DEF Basic, TypeOK
  <2>2. answers[n] + 1 \in 0..MaxAnswers
    BY <1>1, <2>1
  <2> QED
    BY <2>2 DEF AgentResult, Basic, TypeOK
<1>5. CASE r = None
  <2>1. Post(c, Mail("no_pending", n)) /\ UNCHANGED <<pending, at>>
    BY <1>5 DEF AgentResult
  <2>2. Mail("no_pending", n) \in Msg /\ Mail("no_pending", n).call = n
    BY DEF Mail, Msg, Answer
  <2>3. /\ mail' \in [Conns -> Seq(Msg)]
        /\ \A d \in Conns : ToSet(mail'[d]) \subseteq ToSet(mail[d]) \cup {Mail("no_pending", n)}
    BY <2>1, <2>2, PostFacts DEF Basic
  <2>4. TypeOK'
    BY <1>4, <2>1, <2>3 DEF Basic, TypeOK, AgentResult, registry, Msg
  <2>5. Known'
    BY <1>1, <1>3, <2>1, <2>2, <2>3 DEF Basic, Known, AgentResult, registry
  <2> QED
    BY <1>3, <2>4, <2>5 DEF Basic
<1>6. CASE r # None
  <2> DEFINE p == [step |-> "check", call |-> r, peer |-> call[r].caller]
  <2>1. at' = [at EXCEPT ![c] = p] /\ mail' = mail /\ pending' = [pending EXCEPT ![id] = None]
    BY <1>6 DEF AgentResult, Goto
  <2>2. r \in Made /\ r \in Calls /\ call[r] \in CallRec
    BY <1>2, <1>6 DEF Basic, TypeOK, Known, Made, CallRec
  <2>3. p \in Place /\ p.call = r /\ p.step = "check" /\ p.peer = call[r].caller /\ p.peer # None
    BY <2>2, NoneIsNothing DEF Place, Steps, CallRec
  <2> HIDE DEF p, r, id
  <2>4. at' \in [Conns -> Place \cup {None}] /\ at'[c] = p /\ \A d \in Conns \ {c} : at'[d] = at[d]
    BY <2>1, <2>3 DEF Basic, TypeOK, Place
  <2>5. pending' \in [CallIds -> Calls \cup {None}]
    BY <1>2, <2>1 DEF Basic, TypeOK
  <2>6. TypeOK'
    BY <1>4, <2>1, <2>3, <2>4, <2>5 DEF Basic, TypeOK, AgentResult, registry, Place
  <2>7. \A i \in CallIds : pending'[i] # None => pending'[i] \in Made' /\ call'[pending'[i]].id = i
    BY <1>3, <2>1 DEF Basic, TypeOK, Known, AgentResult
  <2>8. Known'
    BY <1>1, <1>3, <2>1, <2>2, <2>3, <2>4, <2>7 DEF Basic, Known, AgentResult, registry, Answering3, Closing
  <2> QED
    BY <1>3, <2>6, <2>8 DEF Basic
<1> QED
  BY <1>5, <1>6

\* The caller is there or not.
LEMMA CheckCallerBasic ==
    ASSUME Basic, NEW c \in Conns, CheckCaller(c)
    PROVE  Basic'
<1> DEFINE n == at[c].call
           m == Mail("caller_gone", n)
           p == [at[c] EXCEPT !.step = "buffer"]
<1>1. /\ at[c] \in Place /\ at[c] # None /\ at[c].step = "check" /\ at[c].peer # None
      /\ n \in Made /\ n \in Calls /\ at[c].peer = call[n].caller
  BY PlaceFacts DEF CheckCaller, Steps, Closing, Answering3
<1>2. m \in Msg /\ m.call = n
  BY <1>1 DEF Mail, Msg, Answer
<1>3. p \in Place /\ p.call = n /\ p.step = "buffer" /\ p.peer = at[c].peer
  BY <1>1 DEF Place, Steps
<1>4. Numbered' /\ Made' = Made
  BY DEF CheckCaller, Basic, Numbered, Made
<1>5. \/ mail' = mail /\ at' = [at EXCEPT ![c] = p]
      \/ Post(c, m) /\ at' = [at EXCEPT ![c] = None]
  BY DEF CheckCaller, Goto
<1> HIDE DEF m, n, p
<1>6. /\ mail' \in [Conns -> Seq(Msg)]
      /\ \A d \in Conns : ToSet(mail'[d]) \subseteq ToSet(mail[d]) \cup {m}
  <2>1. TypeOK /\ mail \in [Conns -> Seq(Msg)] /\ c \in Conns
    BY DEF Basic, TypeOK, Msg
  <2>2. CASE mail' = mail
    BY <2>1, <2>2
  <2>3. CASE Post(c, m)
    BY <1>2, <2>1, <2>3, PostFacts
  <2> QED
    BY <1>5, <2>2, <2>3
<1>7. /\ at' \in [Conns -> Place \cup {None}] /\ at'[c] \in {p, None}
      /\ \A d \in Conns \ {c} : at'[d] = at[d]
  <2>1. at \in [Conns -> Place \cup {None}]
    BY DEF Basic, TypeOK, Place
  <2>2. CASE at' = [at EXCEPT ![c] = p]
    BY <1>3, <2>1, <2>2
  <2>3. CASE at' = [at EXCEPT ![c] = None]
    BY <2>1, <2>3
  <2> QED
    BY <1>5, <2>2, <2>3
<1>8. TypeOK'
  <2>1. \A d \in Conns : at'[d] # None /\ at'[d].peer = None => at'[d].step = "route"
    BY <1>1, <1>3, <1>7 DEF Basic, TypeOK
  <2> QED
    BY <1>6, <1>7, <2>1 DEF Basic, TypeOK, CheckCaller, registry, Place, Msg
<1>9. Known'
  <2>1. call' = call /\ pending' = pending /\ got' = got /\ tasks' = tasks /\ open' = open
    BY DEF CheckCaller
  <2>2. \A d \in Conns : at'[d] # None =>
          /\ at'[d].step \in Closing => d \notin open /\ at'[d].peer = d
          /\ at'[d].step \notin Closing => at'[d].call \in Made
          /\ at'[d].step \in Answering3 => at'[d].peer = call[at'[d].call].caller
          /\ at'[d].step \in {"route", "record"} => d = call[at'[d].call].caller
    BY <1>1, <1>3, <1>7 DEF Basic, Known, Answering3, Closing
  <2> QED
    BY <1>1, <1>2, <1>4, <1>6, <2>1, <2>2 DEF Basic, Known
<1> QED
  BY <1>4, <1>8, <1>9 DEF Basic

\* The caller's buffer is taken.
LEMMA TakeBufferBasic ==
    ASSUME Basic, NEW c \in Conns, TakeBuffer(c)
    PROVE  Basic'
<1> DEFINE n == at[c].call
           p == [at[c] EXCEPT !.step = "append"]
<1>1. /\ at[c] \in Place /\ at[c] # None /\ at[c].step = "buffer" /\ at[c].peer # None
      /\ n \in Made /\ n \in Calls /\ at[c].peer = call[n].caller /\ at[c].peer \in Conns
  BY PlaceFacts DEF TakeBuffer, Steps, Closing, Answering3, CallRec
<1>2. p \in Place /\ p.call = n /\ p.step = "append" /\ p.peer = at[c].peer
  BY <1>1 DEF Place, Steps
<1>3. Numbered' /\ Made' = Made
  BY DEF TakeBuffer, Basic, Numbered, Made
<1>4. at' = [at EXCEPT ![c] = p]
  BY DEF TakeBuffer, Goto
<1> HIDE DEF n, p
<1>5. at' \in [Conns -> Place \cup {None}] /\ at'[c] = p /\ \A d \in Conns \ {c} : at'[d] = at[d]
  BY <1>2, <1>4 DEF Basic, TypeOK, Place
<1>6. TypeOK'
  <2>1. \A d \in Conns : at'[d] # None /\ at'[d].peer = None => at'[d].step = "route"
    BY <1>1, <1>2, <1>5 DEF Basic, TypeOK
  <2> QED
    BY <1>1, <1>5, <2>1 DEF Basic, TypeOK, TakeBuffer, registry, Place
<1>7. Known'
  <2>1. /\ call' = call /\ pending' = pending /\ mail' = mail /\ got' = got /\ tasks' = tasks
        /\ open' = open
    BY DEF TakeBuffer
  <2>2. \A d \in Conns : at'[d] # None =>
          /\ at'[d].step \in Closing => d \notin open /\ at'[d].peer = d
          /\ at'[d].step \notin Closing => at'[d].call \in Made
          /\ at'[d].step \in Answering3 => at'[d].peer = call[at'[d].call].caller
          /\ at'[d].step \in {"route", "record"} => d = call[at'[d].call].caller
    BY <1>1, <1>2, <1>5 DEF Basic, Known, Answering3, Closing
  <2> QED
    BY <1>3, <2>1, <2>2 DEF Basic, Known
<1> QED
  BY <1>3, <1>6, <1>7 DEF Basic

\* The result is sent to the caller.
LEMMA AppendAndSendBasic ==
    ASSUME Basic, NEW c \in Conns, AppendAndSend(c)
    PROVE  Basic'
<1> DEFINE n == at[c].call
           m == Mail("result", n)
<1>1. n \in Made /\ n \in Calls /\ at[c].peer \in Conns /\ at[c] # None
  BY PlaceFacts DEF AppendAndSend, Steps, Closing, Answering3, CallRec
<1>2. m \in Msg /\ m.call = n
  BY <1>1 DEF Mail, Msg, Answer
<1>3. Numbered' /\ Made' = Made
  BY DEF AppendAndSend, Basic, Numbered, Made
<1>4. Post(at[c].peer, m) /\ at' = [at EXCEPT ![c] = None]
  BY DEF AppendAndSend, Goto
<1> HIDE DEF m, n
<1>5. /\ mail' \in [Conns -> Seq(Msg)]
      /\ \A d \in Conns : ToSet(mail'[d]) \subseteq ToSet(mail[d]) \cup {m}
  BY <1>1, <1>2, <1>4, PostFacts DEF Basic
<1>6. TypeOK'
  BY <1>4, <1>5 DEF Basic, TypeOK, AppendAndSend, registry, Msg
<1>7. Known'
  BY <1>1, <1>2, <1>3, <1>4, <1>5 DEF Basic, TypeOK, Known, AppendAndSend, registry
<1> QED
  BY <1>3, <1>6, <1>7 DEF Basic

\* A queued message reaches c, or is lost.
LEMMA DeliverBasic ==
    ASSUME Basic, NEW c \in Conns, Deliver(c)
    PROVE  Basic'
<1> DEFINE m == Head(mail[c])
           Ans == [type : Answer, call : Calls]
<1>1. mail[c] \in Seq(Msg) /\ mail[c] # <<>>
  BY DEF Deliver, Basic, TypeOK, Msg
<1>2. m \in Msg /\ ToSet(mail[c]) = {m} \cup ToSet(Tail(mail[c])) /\ Tail(mail[c]) \in Seq(Msg)
  BY <1>1, TailAt, ToSetTail
<1>3. m.call \in Made
  BY <1>2 DEF Basic, Known
<1>4. /\ mail' \in [Conns -> Seq(Msg)]
      /\ \A d \in Conns : ToSet(mail'[d]) \subseteq ToSet(mail[d])
  BY <1>2 DEF Deliver, Basic, TypeOK, Msg
<1>5. \/ UNCHANGED <<tasks, got>>
      \/ m.type = "call" /\ tasks' = [tasks EXCEPT ![c] = @ \cup {m.call}] /\ UNCHANGED got
      \/ m.type # "call" /\ got' = [got EXCEPT ![c] = Append(@, m)] /\ UNCHANGED tasks
  BY DEF Deliver
<1> HIDE DEF m
<1>6. /\ got' \in [Conns -> Seq(Ans)]
      /\ \A d \in Conns : ToSet(got'[d]) \subseteq ToSet(got[d]) \cup {m}
  <2>1. got \in [Conns -> Seq(Ans)]
    BY DEF Basic, TypeOK
  <2>2. CASE got' = got
    BY <2>1, <2>2
  <2>3. CASE m.type # "call" /\ got' = [got EXCEPT ![c] = Append(@, m)]
    <3>1. m \in Ans
      BY <1>2, <2>3 DEF Msg
    <3> HIDE DEF Ans
    <3>2. got[c] \in Seq(Ans)
      BY <2>1
    <3>3. /\ Append(got[c], m) \in Seq(Ans)
          /\ ToSet(Append(got[c], m)) = ToSet(got[c]) \cup {m}
      BY <3>1, <3>2, AppendAt, ToSetAppend
    <3> QED
      BY <2>1, <2>3, <3>3
  <2> QED
    BY <1>5, <2>2, <2>3
<1>7. /\ tasks' \in [Conns -> SUBSET Calls]
      /\ \A d \in Conns : tasks'[d] \subseteq tasks[d] \cup {m.call}
  <2>1. tasks \in [Conns -> SUBSET Calls] /\ m.call \in Calls
    BY <1>2 DEF Basic, TypeOK, Msg
  <2> QED
    BY <1>5, <2>1
<1>8. /\ Numbered' /\ Made' = Made
      /\ call' = call /\ pending' = pending /\ at' = at /\ open' = open
  BY DEF Deliver, Basic, Numbered, Made
<1>9. TypeOK'
  BY <1>4, <1>6, <1>7 DEF Basic, TypeOK, Deliver, registry, Msg
<1>10. Known'
  BY <1>3, <1>4, <1>6, <1>7, <1>8 DEF Basic, Known
<1> QED
  BY <1>8, <1>9, <1>10 DEF Basic

\* The connection breaks.
LEMMA DisconnectBasic ==
    ASSUME Basic, NEW c \in Conns, Disconnect(c)
    PROVE  Basic'
<1>1. TypeOK'
  BY DEF Basic, TypeOK, Disconnect, registry
<1>2. Numbered' /\ Made' = Made
  BY DEF Basic, Disconnect, Numbered, Made
<1>3. Known'
  BY <1>2 DEF Basic, Disconnect, Known, registry
<1> QED
  BY <1>1, <1>2, <1>3 DEF Basic

\* The handler of c goes to a step of its close.
LEMMA ClosingPlaces ==
    ASSUME Basic, NEW c \in Conns, c \notin open, NEW p \in Place, p.step \in Closing, p.peer = c,
           at' = [at EXCEPT ![c] = p], call' = call, pending' = pending, mail' = mail,
           got' = got, tasks' = tasks, open' = open
    PROVE  /\ at' \in [Conns -> Place \cup {None}]
           /\ \A d \in Conns : at'[d] # None /\ at'[d].peer = None => at'[d].step = "route"
           /\ Numbered' /\ Known'
<1>1. at \in [Conns -> Place \cup {None}] /\ c # None
  BY NoneIsNothing DEF Basic, TypeOK, Place
<1>2. at'[c] = p /\ \A d \in Conns \ {c} : at'[d] = at[d]
  BY <1>1
<1>3. Numbered' /\ Made' = Made
  BY DEF Basic, Numbered, Made
<1>4. \A d \in Conns : at'[d] # None /\ at'[d].peer = None => at'[d].step = "route"
  BY <1>1, <1>2 DEF Basic, TypeOK
<1>5. \A d \in Conns : at'[d] # None =>
          /\ at'[d].step \in Closing => d \notin open /\ at'[d].peer = d
          /\ at'[d].step \notin Closing => at'[d].call \in Made
          /\ at'[d].step \in Answering3 => at'[d].peer = call[at'[d].call].caller
          /\ at'[d].step \in {"route", "record"} => d = call[at'[d].call].caller
  BY <1>2 DEF Basic, Known, Answering3, Closing
<1>6. Known'
  BY <1>3, <1>5 DEF Basic, Known
<1> QED
  BY <1>1, <1>3, <1>4, <1>6

\* handleConnectionClosed begins.
LEMMA CloseBasic ==
    ASSUME Basic, NEW c \in Conns, Close(c)
    PROVE  Basic'
<1> DEFINE p(step) == [step |-> step, call |-> None, peer |-> c]
<1>1. /\ c \notin open /\ call' = call /\ pending' = pending /\ mail' = mail
      /\ got' = got /\ tasks' = tasks /\ open' = open
  BY DEF Close
<1>2. PICK step \in {"archive", "session"} : at' = [at EXCEPT ![c] = p(step)]
  BY DEF Close, Goto
<1>3. p(step) \in Place /\ p(step).step \in Closing /\ p(step).peer = c
  BY DEF Place, Steps, Closing
<1> HIDE DEF p
<1>4. /\ at' \in [Conns -> Place \cup {None}]
      /\ \A d \in Conns : at'[d] # None /\ at'[d].peer = None => at'[d].step = "route"
      /\ Numbered' /\ Known'
  BY <1>1, <1>2, <1>3, ClosingPlaces
<1>5. agents' \in [Conns -> (SUBSET Caps) \cup {None}] /\ IsIndex(index')
  <2>1. agents \in [Conns -> (SUBSET Caps) \cup {None}] /\ IsIndex(index)
    BY CapsOfType DEF Basic, TypeOK
  <2>2. CASE role[c] = "agent"
    <3> DEFINE idx == Unindexed(index, c, CapsOf(c))
               S   == {j \in DOMAIN idx : idx[j] # <<>> \/ j \notin CapsOf(c)}
    <3>1. IsIndex(idx)
      BY <2>1, CapsOfType, UnindexedType DEF Basic
    <3>2. index' = [k \in S |-> idx[k]] /\ agents' = [agents EXCEPT ![c] = None]
      BY <2>2 DEF Close, UnregisterAgent
    <3>3. S \subseteq DOMAIN idx
      OBVIOUS
    <3> HIDE DEF idx, S
    <3> QED
      BY <2>1, <3>1, <3>2, <3>3 DEF IsIndex
  <2>3. CASE role[c] # "agent"
    BY <2>1, <2>3 DEF Close, registry
  <2> QED
    BY <2>2, <2>3
<1>6. TypeOK'
  BY <1>4, <1>5 DEF Basic, TypeOK, Close, Place, IsIndex
<1> QED
  BY <1>4, <1>6 DEF Basic

\* archive_session
LEMMA CloseArchiveBasic ==
    ASSUME Basic, NEW c \in Conns, CloseArchive(c)
    PROVE  Basic'
<1> DEFINE p == [at[c] EXCEPT !.step = "session"]
<1>1. /\ c \notin open /\ call' = call /\ pending' = pending /\ mail' = mail
      /\ got' = got /\ tasks' = tasks /\ open' = open /\ at' = [at EXCEPT ![c] = p]
  BY DEF CloseArchive, Goto, In, Basic, Known, Closing
<1>2. p \in Place /\ p.step \in Closing /\ p.peer = c
  <2>1. at[c] # None /\ at[c].step \in Closing /\ at[c].peer = c
    BY DEF CloseArchive, In, Basic, Known, Closing
  <2>2. at[c] \in Place
    BY <2>1 DEF Basic, TypeOK, Place
  <2> QED
    BY <2>1, <2>2 DEF Place, Steps, Closing
<1> HIDE DEF p
<1>3. /\ at' \in [Conns -> Place \cup {None}]
      /\ \A d \in Conns : at'[d] # None /\ at'[d].peer = None => at'[d].step = "route"
      /\ Numbered' /\ Known'
  BY <1>1, <1>2, ClosingPlaces
<1>4. TypeOK'
  BY <1>3 DEF Basic, TypeOK, CloseArchive, Place, registry
<1> QED
  BY <1>3, <1>4 DEF Basic

\* The session is removed.
LEMMA CloseSessionBasic ==
    ASSUME Basic, NEW c \in Conns, CloseSession(c)
    PROVE  Basic'
<1> DEFINE p == [at[c] EXCEPT !.step = "closed"]
<1>1. /\ c \notin open /\ call' = call /\ pending' = pending /\ mail' = mail
      /\ got' = got /\ tasks' = tasks /\ open' = open /\ at' = [at EXCEPT ![c] = p]
  BY DEF CloseSession, Goto, In, Basic, Known, Closing
<1>2. p \in Place /\ p.step \in Closing /\ p.peer = c
  <2>1. at[c] # None /\ at[c].step \in Closing /\ at[c].peer = c
    BY DEF CloseSession, In, Basic, Known, Closing
  <2>2. at[c] \in Place
    BY <2>1 DEF Basic, TypeOK, Place
  <2> QED
    BY <2>1, <2>2 DEF Place, Steps, Closing
<1> HIDE DEF p
<1>3. /\ at' \in [Conns -> Place \cup {None}]
      /\ \A d \in Conns : at'[d] # None /\ at'[d].peer = None => at'[d].step = "route"
      /\ Numbered' /\ Known'
  BY <1>1, <1>2, ClosingPlaces
<1>4. TypeOK'
  BY <1>3 DEF Basic, TypeOK, CloseSession, Place, registry
<1> QED
  BY <1>3, <1>4 DEF Basic

\* Every step keeps the types and the references.
LEMMA StepBasic == Basic /\ [Next]_vars => Basic'
<1> SUFFICES ASSUME Basic, [Next]_vars PROVE Basic'
  OBVIOUS
<1>1. CASE UNCHANGED vars
  <2>1. TypeOK'
    BY <1>1 DEF Basic, TypeOK, vars, registry
  <2>2. Numbered' /\ Known'
    BY <1>1 DEF Basic, Numbered, Made, Known, vars, registry
  <2> QED
    BY <2>1, <2>2 DEF Basic
<1>2. CASE Next
  <2>1. PICK c \in Conns : LoopStep(c) \/ Client(c)
    BY <1>2 DEF Next
  <2>2. CASE LoopStep(c)
    BY <2>2, RouteBasic, RecordBasic, ForwardBasic, CheckCallerBasic, TakeBufferBasic,
       AppendAndSendBasic, DeliverBasic, CloseBasic, CloseArchiveBasic, CloseSessionBasic
       DEF LoopStep
  <2>3. CASE Client(c)
    BY <2>3, RegisterBasic, RegisterExecutorBasic, CallHitBasic, CallMissBasic,
       AgentResultBasic, DisconnectBasic
       DEF Client
  <2> QED
    BY <2>1, <2>2, <2>3
<1> QED
  BY <1>1, <1>2

\* In every behaviour.
LEMMA AlwaysBasic == Spec => []Basic
  BY InitBasic, StepBasic, PTL DEF Spec

\* Every variable stays in its domain, and a call is recorded and forwarded only when an agent
\* was found for it (the handlers of WsChatController and the AgentRegistry).
THEOREM TypeCorrect == Spec => []TypeOK
<1>1. Basic => TypeOK
  BY DEF Basic
<1> QED
  BY <1>1, AlwaysBasic, PTL

-----------------------------------------------------------------------------
(* Who holds a call.                                                       *)

\* The final answers in a queue that is appended to.
LEMMA HasAppend ==
    ASSUME NEW S, NEW s \in Seq(S), NEW m \in S, NEW n
    PROVE  /\ Has(Append(s, m), n) <=> Has(s, n) \/ Final(m, n)
           /\ Once(s, n) /\ ~(Has(s, n) /\ Final(m, n)) => Once(Append(s, m), n)
<1>1. Len(s) \in Nat /\ Len(Append(s, m)) = Len(s) + 1
  BY AppendAt, LenProperties
<1>2. \A i \in 1..(Len(s) + 1) : Append(s, m)[i] = IF i = Len(s) + 1 THEN m ELSE s[i]
  BY <1>1, AppendAt
<1>3. Has(Append(s, m), n) <=> Has(s, n) \/ Final(m, n)
  <2>1. ASSUME Has(Append(s, m), n) PROVE Has(s, n) \/ Final(m, n)
    <3>1. PICK i \in 1..(Len(s) + 1) : Final(Append(s, m)[i], n)
      BY <1>1, <2>1 DEF Has
    <3>2. i \in 1..Len(s) \/ i = Len(s) + 1
      BY <1>1
    <3> QED
      BY <1>1, <1>2, <3>1, <3>2 DEF Has
  <2>2. ASSUME Has(s, n) PROVE Has(Append(s, m), n)
    <3>1. PICK i \in 1..Len(s) : Final(s[i], n)
      BY <2>2 DEF Has
    <3>2. i \in 1..(Len(s) + 1) /\ i # Len(s) + 1
      BY <1>1
    <3> QED
      BY <1>1, <1>2, <3>1, <3>2 DEF Has
  <2>3. ASSUME Final(m, n) PROVE Has(Append(s, m), n)
    BY <1>1, <1>2, <2>3 DEF Has
  <2> QED
    BY <2>1, <2>2, <2>3
<1>4. ASSUME Once(s, n), ~(Has(s, n) /\ Final(m, n)),
             NEW i \in 1..(Len(s) + 1), NEW j \in 1..(Len(s) + 1),
             Final(Append(s, m)[i], n), Final(Append(s, m)[j], n)
      PROVE  i = j
  <2>1. (i \in 1..Len(s) \/ i = Len(s) + 1) /\ (j \in 1..Len(s) \/ j = Len(s) + 1)
    BY <1>1
  <2>2. CASE i = Len(s) + 1
    BY <1>1, <1>2, <1>4, <2>1, <2>2 DEF Has
  <2>3. CASE j = Len(s) + 1
    BY <1>1, <1>2, <1>4, <2>1, <2>3 DEF Has
  <2>4. CASE i \in 1..Len(s) /\ j \in 1..Len(s)
    <3>1. i # Len(s) + 1 /\ j # Len(s) + 1
      BY <1>1, <2>4
    <3>2. Final(s[i], n) /\ Final(s[j], n)
      BY <1>2, <1>4, <3>1
    <3> QED
      BY <1>4, <2>4, <3>2 DEF Once
  <2> QED
    BY <2>1, <2>2, <2>3, <2>4
<1> QED
  BY <1>1, <1>3, <1>4 DEF Once

\* The final answers in a queue whose head is taken.
LEMMA HasTail ==
    ASSUME NEW S, NEW s \in Seq(S), s # <<>>, NEW n
    PROVE  /\ Has(s, n) <=> Final(Head(s), n) \/ Has(Tail(s), n)
           /\ Once(s, n) => Once(Tail(s), n) /\ ~(Final(Head(s), n) /\ Has(Tail(s), n))
<1>1. /\ Head(s) = s[1] /\ Len(s) \in Nat /\ Len(s) >= 1 /\ Len(Tail(s)) = Len(s) - 1
      /\ \A i \in 1..(Len(s) - 1) : Tail(s)[i] = s[i + 1]
  BY TailAt
<1>2. ASSUME Has(s, n) PROVE Final(Head(s), n) \/ Has(Tail(s), n)
  <2>1. PICK i \in 1..Len(s) : Final(s[i], n)
    BY <1>2 DEF Has
  <2>2. i = 1 \/ (i - 1 \in 1..(Len(s) - 1) /\ Tail(s)[i - 1] = s[i])
    BY <1>1
  <2> QED
    BY <1>1, <2>1, <2>2 DEF Has
<1>3. Final(Head(s), n) => Has(s, n)
  BY <1>1 DEF Has
<1>4. ASSUME NEW i \in 1..Len(Tail(s)), Final(Tail(s)[i], n)
      PROVE  i + 1 \in 1..Len(s) /\ i + 1 # 1 /\ Final(s[i + 1], n)
  BY <1>1, <1>4
<1>5. Has(Tail(s), n) => Has(s, n)
  BY <1>4 DEF Has
<1>6. ASSUME Once(s, n) PROVE Once(Tail(s), n) /\ ~(Final(Head(s), n) /\ Has(Tail(s), n))
  <2>1. ASSUME NEW i \in 1..Len(Tail(s)), NEW j \in 1..Len(Tail(s)),
               Final(Tail(s)[i], n), Final(Tail(s)[j], n)
        PROVE  i = j
    <3>1. i + 1 = j + 1
      BY <1>4, <1>6, <2>1 DEF Once
    <3> QED
      BY <3>1, <1>1
  <2>2. ASSUME Final(Head(s), n), NEW i \in 1..Len(Tail(s)), Final(Tail(s)[i], n)
        PROVE  FALSE
    BY <1>1, <1>4, <1>6, <2>2 DEF Once
  <2> QED
    BY <2>1, <2>2 DEF Once, Has
<1> QED
  BY <1>2, <1>3, <1>5, <1>6

\* The final answers in the queues after a message is posted.
LEMMA PostHas ==
    ASSUME TypeOK, NEW c \in Conns, NEW m \in Msg, Post(c, m), NEW d \in Conns, NEW n
    PROVE  /\ Has(mail'[d], n) <=> Has(mail[d], n) \/ (d = c /\ Final(m, n))
           /\ Once(mail[d], n) /\ ~(d = c /\ Has(mail[d], n) /\ Final(m, n)) => Once(mail'[d], n)
<1>1. mail[c] \in Seq(Msg)
  BY DEF TypeOK, Msg
<1>2. mail'[c] = Append(mail[c], m) /\ (d # c => mail'[d] = mail[d])
  BY PostFacts
<1>3. CASE d = c
  BY <1>1, <1>2, <1>3, HasAppend
<1>4. CASE d # c
  BY <1>2, <1>4
<1> QED
  BY <1>3, <1>4

\* A step that moves no call and no answer; a handler may let go of a call.
LEMMA QuietHeldOnce ==
    ASSUME HeldOnce, call' = call, pending' = pending, got' = got,
           \A d \in Conns, n \in Calls : /\ Has(mail'[d], n) <=> Has(mail[d], n)
                                         /\ Once(mail[d], n) => Once(mail'[d], n)
                                         /\ At(d, n, Holding)' => At(d, n, Holding)
    PROVE  HeldOnce'
<1>1. Made' = Made
  BY DEF Made
<1> SUFFICES ASSUME NEW n \in Calls, NEW c \in Conns PROVE OneHolder(n, c)'
  BY Zenon DEF HeldOnce
<1>2. OneHolder(n, c)
  BY Zenon DEF HeldOnce
<1>3. /\ At(c, n, Holding)' => At(c, n, Holding)
      /\ Has(mail'[c], n) <=> Has(mail[c], n)
      /\ Once(mail[c], n) => Once(mail'[c], n)
  BY Zenon
<1>4. At(c, n, Holding)' =>
          /\ pending[call[n].id] # n
          /\ \A d \in Conns : /\ ~Has(mail'[d], n) /\ ~Has(got[d], n)
                              /\ At(d, n, Holding)' => d = c
  BY <1>2, <1>3, Zenon DEF OneHolder
<1> QED
  BY <1>1, <1>2, <1>3, <1>4, Zenon DEF OneHolder

\* A step that leaves the queues alone as well.
LEMMA StillHeldOnce ==
    ASSUME HeldOnce, call' = call, pending' = pending, got' = got, mail' = mail,
           \A d \in Conns, n \in Calls : At(d, n, Holding)' => At(d, n, Holding)
    PROVE  HeldOnce'
<1>1. \A d \in Conns, n \in Calls : /\ Has(mail'[d], n) <=> Has(mail[d], n)
                                     /\ Once(mail[d], n) => Once(mail'[d], n)
  BY SMT DEF Has, Once
<1> QED
  BY <1>1, QuietHeldOnce, Zenon

\* Nobody holds a call that was not made yet.
LEMMA NotMade ==
    ASSUME Basic, NEW n \in Calls, n \notin Made
    PROVE  /\ \A d \in Conns : ~Has(mail[d], n) /\ ~Has(got[d], n) /\ ~At(d, n, Holding)
           /\ \A id \in CallIds : pending[id] # n
<1>1. ASSUME NEW d \in Conns PROVE ~Has(mail[d], n) /\ ~Has(got[d], n) /\ ~At(d, n, Holding)
  <2>1. mail[d] \in Seq(Msg) /\ got[d] \in Seq([type : Answer, call : Calls])
    BY DEF Basic, TypeOK, Msg
  <2>2. \A i \in 1..Len(mail[d]) : mail[d][i] \in ToSet(mail[d])
    BY <2>1, LenProperties DEF ToSet
  <2>3. \A i \in 1..Len(got[d]) : got[d][i] \in ToSet(got[d])
    BY <2>1, LenProperties DEF ToSet
  <2>4. ~Has(mail[d], n) /\ ~Has(got[d], n)
    BY <2>2, <2>3 DEF Has, Final, Basic, Known
  <2>5. ~At(d, n, Holding)
    BY DEF At, Holding, Answering3, Closing, Basic, Known
  <2> QED
    BY <2>4, <2>5
<1>2. ASSUME NEW id \in CallIds PROVE pending[id] # n
  <2>1. n # None
    BY NoneIsNothing
  <2> QED
    BY <2>1 DEF Basic, Known
<1> QED
  BY <1>1, <1>2

\* Initially there is no call.
LEMMA InitHeldOnce == Init => HeldOnce
<1> SUFFICES ASSUME Init PROVE HeldOnce
  OBVIOUS
<1>1. \A c \in Conns, n \in Calls : ~Has(mail[c], n) /\ ~Has(got[c], n) /\ Once(mail[c], n)
                                    /\ Once(got[c], n) /\ ~At(c, n, Holding)
  BY DEF Init, Has, Once, At
<1> QED
  BY <1>1, NoneIsNothing DEF HeldOnce, OneHolder, Init, Made

\* A call that the cache answers is new, and its answer goes to the queue of its caller.
LEMMA CallHitHeldOnce ==
    ASSUME Basic, HeldOnce, NEW c \in Conns, NEW id \in CallIds, NEW k \in Caps, CallHit(c, id, k)
    PROVE  HeldOnce'
<1> DEFINE n == LastCall
           m == Mail("result", n)
<1>1. NewCall(c, id, k) /\ Post(c, m) /\ at' = at /\ got' = got /\ pending' = pending
  BY DEF CallHit
<1>2. /\ n \in Calls /\ n \notin Made /\ Made' = Made \cup {n}
      /\ \A i \in Calls \ {n} : call'[i] = call[i]
      /\ call'[n] = [caller |-> c, id |-> id, cap |-> k]
  BY <1>1, NewCallFacts
<1> HIDE DEF n
<1>3. m \in Msg /\ \A i \in Calls : Final(m, i) <=> i = n
  BY <1>2 DEF Mail, Msg, Answer, Final
<1> HIDE DEF m
<1>4. ASSUME NEW d \in Conns, NEW i \in Calls
      PROVE  /\ Has(mail'[d], i) <=> Has(mail[d], i) \/ (d = c /\ i = n)
             /\ Once(mail[d], i) /\ ~(d = c /\ Has(mail[d], i) /\ i = n) => Once(mail'[d], i)
             /\ At(d, i, Holding)' <=> At(d, i, Holding)
  BY <1>1, <1>3, PostHas DEF Basic, At
<1>5. /\ \A d \in Conns : ~Has(mail[d], n) /\ ~Has(got[d], n) /\ ~At(d, n, Holding)
      /\ \A i \in CallIds : pending[i] # n
  BY <1>2, NotMade
<1>6. call'[n].caller = c /\ call'[n].id \in CallIds
  BY <1>2
<1>7. ASSUME NEW i \in Calls, NEW d \in Conns
      PROVE  OneHolder(i, d)'
  <2>1. CASE i = n
    BY <1>1, <1>4, <1>5, <1>6, <2>1 DEF HeldOnce, OneHolder
  <2>2. CASE i # n
    <3>1. call'[i] = call[i] /\ (i \in Made' <=> i \in Made)
      BY <1>2, <2>2
    <3> QED
      BY <1>1, <1>4, <2>2, <3>1 DEF HeldOnce, OneHolder
  <2> QED
    BY <2>1, <2>2
<1> QED
  BY <1>7 DEF HeldOnce

\* A call that misses is new, and its caller's handler holds it.
LEMMA CallMissHeldOnce ==
    ASSUME Basic, HeldOnce, NEW c \in Conns, NEW id \in CallIds, NEW k \in Caps,
           NEW t \in Conns \cup {None}, CallMiss(c, id, k, t)
    PROVE  HeldOnce'
<1> DEFINE n == LastCall
           p == [step |-> "route", call |-> n, peer |-> t]
<1>1. /\ NewCall(c, id, k) /\ at' = [at EXCEPT ![c] = p] /\ at[c] = None
      /\ mail' = mail /\ got' = got /\ pending' = pending
  BY DEF CallMiss, Idle, Goto
<1>2. /\ n \in Calls /\ n \notin Made /\ Made' = Made \cup {n}
      /\ \A i \in Calls \ {n} : call'[i] = call[i]
      /\ call'[n] = [caller |-> c, id |-> id, cap |-> k]
  BY <1>1, NewCallFacts
<1> HIDE DEF n
<1>3. p.call = n
  OBVIOUS
<1> HIDE DEF p
<1>4. \A d \in Conns, i \in Calls : At(d, i, Holding)' => At(d, i, Holding) \/ (d = c /\ i = n)
  <2>1. at'[c] = p /\ \A d \in Conns \ {c} : at'[d] = at[d]
    BY <1>1 DEF Basic, TypeOK
  <2> QED
    BY <1>3, <2>1 DEF At
<1>5. /\ \A d \in Conns : ~Has(mail[d], n) /\ ~Has(got[d], n) /\ ~At(d, n, Holding)
      /\ \A i \in CallIds : pending[i] # n
  BY <1>2, NotMade
<1>6. call'[n].caller = c /\ call'[n].id \in CallIds
  BY <1>2
<1>7. ASSUME NEW i \in Calls, NEW d \in Conns
      PROVE  OneHolder(i, d)'
  <2>1. CASE i = n
    BY <1>1, <1>4, <1>5, <1>6, <2>1 DEF HeldOnce, OneHolder
  <2>2. CASE i # n
    <3>1. call'[i] = call[i] /\ (i \in Made' <=> i \in Made)
      BY <1>2, <2>2
    <3> QED
      BY <1>1, <1>4, <2>2, <3>1 DEF HeldOnce, OneHolder
  <2> QED
    BY <2>1, <2>2
<1> QED
  BY <1>7 DEF HeldOnce

\* route passes the call on, or answers it.
LEMMA RouteHeldOnce ==
    ASSUME Basic, HeldOnce, NEW c \in Conns, Route(c)
    PROVE  HeldOnce'
<1> DEFINE n == at[c].call
           t == Routed(at[c].peer, call[n].cap)
           m == Mail("no_agent", n)
           p == [step |-> "record", call |-> n, peer |-> t]
<1>1. /\ at[c] # None /\ at[c].step = "route" /\ n \in Made /\ n \in Calls
      /\ c = call[n].caller /\ call[n] \in CallRec
  BY PlaceFacts DEF Route, Steps, Closing
<1>2. call' = call /\ pending' = pending /\ got' = got /\ Made' = Made
  BY DEF Route, Made
<1>3. At(c, n, Holding)
  BY <1>1 DEF At, Holding
<1>4. at \in [Conns -> Place \cup {None}]
  BY DEF Basic, TypeOK, Place
<1>5. CASE t = None
  <2>1. Post(c, m) /\ at' = [at EXCEPT ![c] = None]
    BY <1>5 DEF Route, Goto
  <2> HIDE DEF n
  <2>2. m \in Msg /\ \A i \in Calls : Final(m, i) <=> i = n
    BY <1>1 DEF Mail, Msg, Answer, Final
  <2> HIDE DEF m
  <2>3. ASSUME NEW d \in Conns, NEW i \in Calls
        PROVE  /\ Has(mail'[d], i) <=> Has(mail[d], i) \/ (d = c /\ i = n)
               /\ Once(mail[d], i) /\ ~(d = c /\ Has(mail[d], i) /\ i = n) => Once(mail'[d], i)
    BY <2>1, <2>2, PostHas DEF Basic
  <2>4. \A d \in Conns, i \in Calls : At(d, i, Holding)' => At(d, i, Holding) /\ d # c
    BY <1>4, <2>1 DEF At
  <2>5. ASSUME NEW i \in Calls, NEW d \in Conns PROVE OneHolder(i, d)'
    <3>1. CASE i = n
      BY <1>1, <1>2, <1>3, <2>3, <2>4, <3>1 DEF HeldOnce, OneHolder
    <3>2. CASE i # n
      BY <1>2, <2>3, <2>4, <3>2 DEF HeldOnce, OneHolder
    <3> QED
      BY <3>1, <3>2
  <2> QED
    BY <2>5 DEF HeldOnce
<1>6. CASE t # None
  <2>1. at' = [at EXCEPT ![c] = p] /\ mail' = mail
    BY <1>6 DEF Route, Goto
  <2>2. p.call = n
    OBVIOUS
  <2> HIDE DEF p, n
  <2>3. \A d \in Conns, i \in Calls : At(d, i, Holding)' => At(d, i, Holding)
    <3>1. at'[c] = p /\ \A d \in Conns \ {c} : at'[d] = at[d]
      BY <1>4, <2>1
    <3> QED
      BY <1>3, <2>2, <3>1 DEF At
  <2> QED
    BY <1>2, <2>1, <2>3, StillHeldOnce
<1> QED
  BY <1>5, <1>6

\* A handler gives its call to the map of pending calls.
LEMMA RecordHeldOnce ==
    ASSUME Basic, HeldOnce, NEW c \in Conns, Record(c)
    PROVE  HeldOnce'
<1> DEFINE n == at[c].call
           p == [at[c] EXCEPT !.step = "forward"]
<1>1. /\ at[c] \in Place /\ at[c] # None /\ at[c].step = "record" /\ n \in Made /\ n \in Calls
      /\ call[n] \in CallRec
  BY PlaceFacts DEF Record, Steps, Closing
<1>2. call' = call /\ got' = got /\ mail' = mail /\ Made' = Made
  BY DEF Record, Made
<1>3. At(c, n, Holding)
  BY <1>1 DEF At, Holding
<1>4. at' = [at EXCEPT ![c] = p] /\ pending' = [pending EXCEPT ![call[n].id] = n]
  BY DEF Record, Goto
<1>5. p.step = "forward"
  BY <1>1 DEF Place
<1> HIDE DEF p, n
<1>6. \A d \in Conns, i \in Calls : At(d, i, Holding)' => At(d, i, Holding) /\ d # c
  <2>1. at'[c] = p /\ \A d \in Conns \ {c} : at'[d] = at[d]
    BY <1>4 DEF Basic, TypeOK
  <2> QED
    BY <1>5, <2>1 DEF At, Holding, Answering3
<1>7. ASSUME NEW i \in Made, i # n, pending[call[i].id] # i PROVE pending'[call[i].id] # i
  <2>1. call[i].id \in CallIds /\ i \in Calls
    BY DEF Basic, TypeOK, Made
  <2> QED
    BY <1>4, <1>7, <2>1 DEF Basic, TypeOK
<1>8. \A i \in Calls, d \in Conns : At(d, i, Holding) => i \in Made
  BY NotMade
<1>9. ASSUME NEW i \in Calls, NEW d \in Conns PROVE OneHolder(i, d)'
  <2>1. CASE i = n
    BY <1>2, <1>3, <1>6, <2>1 DEF HeldOnce, OneHolder
  <2>2. CASE i # n
    BY <1>2, <1>6, <1>7, <1>8, <2>2 DEF HeldOnce, OneHolder
  <2> QED
    BY <2>1, <2>2
<1> QED
  BY <1>9 DEF HeldOnce

\* A result takes a call out of the map, for the handler of the agent that sent it.
LEMMA AgentResultHeldOnce ==
    ASSUME Basic, HeldOnce, NEW c \in Conns, NEW n \in Calls, AgentResult(c, n)
    PROVE  HeldOnce'
<1> DEFINE id == call[n].id
           r == pending[id]
<1>1. at[c] = None /\ n \in Made
  BY DEF AgentResult, MayAnswer, Idle
<1>2. id \in CallIds
  BY <1>1 DEF Basic, TypeOK, Made
<1>3. call' = call /\ got' = got /\ Made' = Made
  BY DEF AgentResult, Made
<1>4. CASE r = None
  <2> DEFINE m == Mail("no_pending", n)
  <2>1. Post(c, m) /\ pending' = pending /\ at' = at
    BY <1>4 DEF AgentResult
  <2>2. m \in Msg /\ \A i : ~Final(m, i)
    BY DEF Mail, Msg, Answer, Final
  <2> HIDE DEF m
  <2>3. ASSUME NEW d \in Conns, NEW i \in Calls
        PROVE  /\ Has(mail'[d], i) <=> Has(mail[d], i)
               /\ Once(mail[d], i) => Once(mail'[d], i)
               /\ At(d, i, Holding)' => At(d, i, Holding)
    BY <2>1, <2>2, PostHas DEF Basic, At
  <2> QED
    BY <1>3, <2>1, <2>3, QuietHeldOnce
<1>5. CASE r # None
  <2> DEFINE p == [step |-> "check", call |-> r, peer |-> call[r].caller]
  <2>1. at' = [at EXCEPT ![c] = p] /\ mail' = mail /\ pending' = [pending EXCEPT ![id] = None]
    BY <1>5 DEF AgentResult, Goto
  <2>2. r \in Made /\ r \in Calls /\ call[r].id = id /\ r # None
    BY <1>2, <1>5 DEF Basic, Known, Made
  <2>3. p.call = r
    OBVIOUS
  <2> HIDE DEF p
  <2>4. /\ \A d \in Conns, i \in Calls : At(d, i, Holding)' => At(d, i, Holding) \/ (d = c /\ i = r)
        /\ \A d \in Conns, i \in Calls : At(d, i, Holding)' /\ d = c => i = r
    <3>1. at'[c] = p /\ \A d \in Conns \ {c} : at'[d] = at[d]
      BY <2>1 DEF Basic, TypeOK
    <3> QED
      BY <2>3, <3>1 DEF At
  <2>5. \A i \in CallIds : pending'[i] = IF i = id THEN None ELSE pending[i]
    BY <2>1 DEF Basic, TypeOK
  <2>6. \A i \in Made : call[i].id \in CallIds /\ i # None
    BY NoneIsNothing DEF Basic, TypeOK, Made
  <2>7. \A i \in Calls, d \in Conns : At(d, i, Holding) => i \in Made
    BY NotMade
  <2> HIDE DEF r
  <2>8. pending[call[r].id] = r
    BY <2>2 DEF r
  <2>9. ASSUME NEW i \in Calls, NEW d \in Conns PROVE OneHolder(i, d)'
    <3>1. CASE i = r
      BY <1>3, <2>1, <2>2, <2>4, <2>5, <2>6, <2>8, <3>1 DEF HeldOnce, OneHolder
    <3>2. CASE i # r
      BY <1>3, <2>1, <2>4, <2>5, <2>6, <2>7, <3>2 DEF HeldOnce, OneHolder
    <3> QED
      BY <3>1, <3>2
  <2> QED
    BY <2>9 DEF HeldOnce
<1> QED
  BY <1>4, <1>5

\* The handler that holds a call puts its result into the caller's queue.
LEMMA AppendAndSendHeldOnce ==
    ASSUME Basic, HeldOnce, NEW c \in Conns, AppendAndSend(c)
    PROVE  HeldOnce'
<1> DEFINE n == at[c].call
           m == Mail("result", n)
           b == at[c].peer
<1>1. /\ at[c] # None /\ at[c].step = "append" /\ n \in Made /\ n \in Calls
      /\ b = call[n].caller /\ b \in Conns
  BY PlaceFacts DEF AppendAndSend, Steps, Closing, Answering3, CallRec
<1>2. call' = call /\ pending' = pending /\ got' = got /\ Made' = Made
  BY DEF AppendAndSend, Made
<1>3. At(c, n, Holding)
  BY <1>1 DEF At, Holding, Answering3
<1>4. Post(b, m) /\ at' = [at EXCEPT ![c] = None]
  BY DEF AppendAndSend, Goto
<1> HIDE DEF b, n
<1>5. m \in Msg /\ \A i \in Calls : Final(m, i) <=> i = n
  BY <1>1 DEF Mail, Msg, Answer, Final
<1> HIDE DEF m
<1>6. ASSUME NEW d \in Conns, NEW i \in Calls
      PROVE  /\ Has(mail'[d], i) <=> Has(mail[d], i) \/ (d = b /\ i = n)
             /\ Once(mail[d], i) /\ ~(d = b /\ Has(mail[d], i) /\ i = n) => Once(mail'[d], i)
  BY <1>1, <1>4, <1>5, PostHas DEF Basic
<1>7. \A d \in Conns, i \in Calls : At(d, i, Holding)' => At(d, i, Holding) /\ d # c
  BY <1>4 DEF At, Basic, TypeOK
<1>8. ASSUME NEW i \in Calls, NEW d \in Conns PROVE OneHolder(i, d)'
  <2>1. CASE i = n
    BY <1>1, <1>2, <1>3, <1>6, <1>7, <2>1 DEF HeldOnce, OneHolder
  <2>2. CASE i # n
    BY <1>2, <1>6, <1>7, <2>2 DEF HeldOnce, OneHolder
  <2> QED
    BY <2>1, <2>2
<1> QED
  BY <1>8 DEF HeldOnce

\* An answer goes from the queue to its client, or is lost.
LEMMA DeliverHeldOnce ==
    ASSUME Basic, HeldOnce, NEW c \in Conns, Deliver(c)
    PROVE  HeldOnce'
<1> DEFINE m == Head(mail[c])
           Ans == [type : Answer, call : Calls]
<1>1. mail[c] \in Seq(Msg) /\ mail[c] # <<>>
  BY DEF Deliver, Basic, TypeOK, Msg
<1>2. call' = call /\ pending' = pending /\ at' = at /\ Made' = Made
  BY DEF Deliver, Made
<1>3. mail'[c] = Tail(mail[c]) /\ \A d \in Conns \ {c} : mail'[d] = mail[d]
  BY DEF Deliver, Basic, TypeOK
<1>4. m \in Msg
  BY <1>1, TailAt
<1>5. got' = got \/ (m.type # "call" /\ got' = [got EXCEPT ![c] = Append(@, m)])
  BY DEF Deliver
<1> HIDE DEF m
<1>6. ASSUME NEW i \in Calls
      PROVE  /\ Has(mail[c], i) <=> Final(m, i) \/ Has(mail'[c], i)
             /\ Once(mail[c], i) => Once(mail'[c], i) /\ ~(Final(m, i) /\ Has(mail'[c], i))
  BY <1>1, <1>3, HasTail DEF m
<1>7. \A d \in Conns \ {c} : got'[d] = got[d]
  BY <1>5 DEF Basic, TypeOK
<1>8. ASSUME NEW i \in Calls
      PROVE  /\ Has(got'[c], i) => Has(got[c], i) \/ Final(m, i)
             /\ Once(got[c], i) /\ ~(Has(got[c], i) /\ Final(m, i)) => Once(got'[c], i)
  <2>1. CASE got' = got
    BY <2>1
  <2>2. CASE m.type # "call" /\ got' = [got EXCEPT ![c] = Append(@, m)]
    <3>1. m \in Ans /\ got[c] \in Seq(Ans) /\ got'[c] = Append(got[c], m)
      BY <1>4, <2>2 DEF Msg, Basic, TypeOK
    <3> HIDE DEF Ans
    <3> QED
      BY <3>1, HasAppend
  <2> QED
    BY <1>5, <2>1, <2>2
<1>9. \A d \in Conns, i \in Calls : At(d, i, Holding)' <=> At(d, i, Holding)
  BY <1>2 DEF At
<1>10. ASSUME NEW i \in Calls, NEW d \in Conns PROVE OneHolder(i, d)'
  <2>1. OneHolder(i, d) /\ OneHolder(i, c)
    BY DEF HeldOnce
  <2>2. ~Has(got'[c], i) \/ Has(got[c], i) \/ Has(mail[c], i)
    BY <1>6, <1>8
  <2>3. Has(mail'[d], i) => Has(mail[d], i)
    BY <1>3, <1>6
  <2>4. /\ Has(mail'[d], i) \/ Has(got'[d], i) => call'[i].caller = d
        /\ Once(mail'[d], i) /\ Once(got'[d], i) /\ ~(Has(mail'[d], i) /\ Has(got'[d], i))
    <3>1. CASE d = c
      BY <1>2, <1>6, <1>8, <2>1, <3>1 DEF OneHolder
    <3>2. CASE d # c
      BY <1>2, <1>3, <1>7, <2>1, <3>2 DEF OneHolder
    <3> QED
      BY <3>1, <3>2
  <2>5. \A e \in Conns : Has(mail'[e], i) \/ Has(got'[e], i) => Has(mail[e], i) \/ Has(got[e], i)
    BY <1>3, <1>6, <1>7, <1>8
  <2> QED
    BY <1>2, <1>9, <2>1, <2>4, <2>5 DEF OneHolder
<1> QED
  BY <1>10 DEF HeldOnce

\* The steps that move no call: registration, and a caller that is looked up or told nothing.
LEMMA OtherHeldOnce ==
    ASSUME Basic, HeldOnce, NEW c \in Conns,
           \/ \E new \in SUBSET Caps : Register(c, new)
           \/ RegisterExecutor(c) \/ Disconnect(c)
           \/ Forward(c) \/ CheckCaller(c) \/ TakeBuffer(c)
           \/ Close(c) \/ CloseArchive(c) \/ CloseSession(c)
    PROVE  HeldOnce'
<1>0. at \in [Conns -> Place \cup {None}]
  BY DEF Basic, TypeOK, Place
<1>1. call' = call /\ pending' = pending /\ got' = got
  BY DEF Register, RegisterExecutor, Disconnect, Forward, CheckCaller, TakeBuffer, Close,
         CloseArchive, CloseSession
<1>2. ASSUME NEW d \in Conns, NEW i \in Calls
      PROVE  At(d, i, Holding)' => At(d, i, Holding)
  <2>1. CASE at' = at
    BY <2>1 DEF At
  <2>2. CASE Forward(c) \/ CheckCaller(c) \/ TakeBuffer(c)
    <3>1. PICK p \in {None, [at[c] EXCEPT !.step = "buffer"], [at[c] EXCEPT !.step = "append"]} :
            at' = [at EXCEPT ![c] = p] /\ (p # None => CheckCaller(c) \/ TakeBuffer(c))
      BY <2>2 DEF Forward, CheckCaller, TakeBuffer, Goto
    <3>2. p # None => at[c] # None /\ at[c] \in Place /\ at[c].step \in {"check", "buffer"} /\ p.call = at[c].call
      BY <1>0, <3>1 DEF CheckCaller, TakeBuffer, In, Place
    <3>3. at'[c] = p /\ \A e \in Conns \ {c} : at'[e] = at[e]
      BY <1>0, <3>1
    <3> QED
      BY <3>2, <3>3 DEF At, Holding, Answering3
  <2>3. CASE Close(c) \/ CloseArchive(c) \/ CloseSession(c)
    <3>1. PICK p : at' = [at EXCEPT ![c] = p] /\ p.step \in Closing
      <4>1. CASE Close(c)
        <5> DEFINE q(step) == [step |-> step, call |-> None, peer |-> c]
        <5>1. PICK step \in {"archive", "session"} : at' = [at EXCEPT ![c] = q(step)]
          BY <4>1 DEF Close, Goto
        <5>2. q(step).step \in Closing
          BY DEF Closing
        <5> QED
          BY <5>1, <5>2
      <4>2. CASE CloseArchive(c) \/ CloseSession(c)
        <5>1. at[c] \in Place
          BY <1>0, <4>2 DEF CloseArchive, CloseSession, In
        <5> DEFINE q(step) == [at[c] EXCEPT !.step = step]
        <5>2. PICK step \in {"session", "closed"} : at' = [at EXCEPT ![c] = q(step)]
          BY <4>2 DEF CloseArchive, CloseSession, Goto
        <5>3. q(step).step \in Closing
          BY <5>1 DEF Closing, Place
        <5> QED
          BY <5>2, <5>3
      <4> QED
        BY <2>3, <4>1, <4>2
    <3>2. at'[c] = p /\ \A e \in Conns \ {c} : at'[e] = at[e]
      BY <1>0, <3>1
    <3> QED
      BY <3>1, <3>2 DEF At, Holding, Answering3, Closing
  <2> QED
    BY <2>1, <2>2, <2>3 DEF Register, RegisterExecutor, Disconnect
<1>3. ASSUME NEW d \in Conns, NEW i \in Calls
      PROVE  (Has(mail'[d], i) <=> Has(mail[d], i)) /\ (Once(mail[d], i) => Once(mail'[d], i))
  <2>1. CASE mail' = mail
    BY <2>1
  <2>2. CASE \E b \in Conns, m \in Msg : Post(b, m) /\ \A j : ~Final(m, j)
    BY <2>2, PostHas DEF Basic
  <2>3. CASE Forward(c) /\ at[c].peer \in sessions
    <3>1. at[c].call \in Calls /\ at[c].peer \in Conns /\ Post(at[c].peer, Mail("call", at[c].call))
      BY <2>3, PlaceFacts DEF Forward, Steps, Closing, Basic, TypeOK
    <3>2. Mail("call", at[c].call) \in Msg /\ \A j : ~Final(Mail("call", at[c].call), j)
      BY <3>1 DEF Mail, Msg, Final
    <3> QED
      BY <2>2, <3>1, <3>2
  <2>4. CASE CheckCaller(c) /\ at[c].peer \notin open
    <3>1. at[c].call \in Calls /\ Post(c, Mail("caller_gone", at[c].call))
      BY <2>4, PlaceFacts DEF CheckCaller, Steps, Closing
    <3>2. /\ Mail("caller_gone", at[c].call) \in Msg
          /\ \A j : ~Final(Mail("caller_gone", at[c].call), j)
      BY <3>1 DEF Mail, Msg, Answer, Final
    <3> QED
      BY <2>2, <3>1, <3>2
  <2> QED
    BY <2>1, <2>3, <2>4 DEF Register, RegisterExecutor, Disconnect, Forward, CheckCaller,
       TakeBuffer, Close, CloseArchive, CloseSession
<1> QED
  BY <1>1, <1>2, <1>3, QuietHeldOnce

\* Every step keeps a call in one place.
LEMMA StepHeldOnce == Basic /\ HeldOnce /\ [Next]_vars => HeldOnce'
<1> SUFFICES ASSUME Basic, HeldOnce, [Next]_vars PROVE HeldOnce'
  OBVIOUS
<1>1. CASE UNCHANGED vars
  <2>1. \A d \in Conns, n \in Calls : At(d, n, Holding)' => At(d, n, Holding)
    BY <1>1 DEF vars, At
  <2> QED
    BY <1>1, <2>1, StillHeldOnce DEF vars
<1>2. CASE Next
  <2>1. PICK c \in Conns : LoopStep(c) \/ Client(c)
    BY <1>2 DEF Next
  <2> QED
    BY <2>1, RouteHeldOnce, RecordHeldOnce, AppendAndSendHeldOnce, DeliverHeldOnce,
       CallHitHeldOnce, CallMissHeldOnce, AgentResultHeldOnce, OtherHeldOnce
       DEF LoopStep, Client
<1> QED
  BY <1>1, <1>2

\* An answer reaches the connection that made the call, and it gets at most one, however often
\* and from whom results arrive.  The proof does not need that call_ids are distinct: they only
\* make the result taken for a call the result of that call (see OwnResult) (route_agent_call,
\* route_agent_result).
THEOREM AnswersReachCallers == Spec => []AnswerToCaller
<1>1. Basic /\ HeldOnce => AnswerToCaller
  <2> SUFFICES ASSUME Basic, HeldOnce, NEW c \in Conns, NEW i \in 1..Len(got[c]),
                      got[c][i].type \in {"result", "no_agent"}
               PROVE  /\ call[got[c][i].call].caller = c
                      /\ \A j \in 1..Len(got[c]) : got[c][j].type \in {"result", "no_agent"}
                              /\ got[c][i].call = got[c][j].call => i = j
    BY DEF AnswerToCaller
  <2> DEFINE n == got[c][i].call
  <2>1. n \in Calls
    <3>1. got[c] \in Seq([type : Answer, call : Calls])
      BY DEF Basic, TypeOK
    <3>2. got[c][i] \in [type : Answer, call : Calls]
      BY <3>1, ElementOfSeq
    <3> QED
      BY <3>2
  <2>2. Final(got[c][i], n) /\ Has(got[c], n)
    BY DEF Final, Has
  <2>3. call[n].caller = c /\ Once(got[c], n)
    BY <2>1, <2>2 DEF HeldOnce, OneHolder
  <2> QED
    BY <2>2, <2>3 DEF Once, Final
<1> QED
  BY <1>1, InitHeldOnce, StepHeldOnce, AlwaysBasic, PTL DEF Spec

-----------------------------------------------------------------------------
(* Calls that are not forgotten, when their ids are distinct.              *)

\* A new call has an id of its own.
LEMMA StepDistinctIds ==
    ASSUME UniqueIds, Basic, DistinctIds, [Next]_vars
    PROVE  DistinctIds'
<1>1. CASE call' = call
  BY <1>1 DEF DistinctIds, Made
<1>2. ASSUME NEW c \in Conns, NEW id \in CallIds, NEW k \in Caps, NewCall(c, id, k)
      PROVE  DistinctIds'
  <2>1. /\ Made' = Made \cup {LastCall} /\ LastCall \notin Made
        /\ \A i \in Made : call'[i] = call[i] /\ call[i].id # id
        /\ call'[LastCall] = [caller |-> c, id |-> id, cap |-> k]
    BY <1>2, NewCallFacts
  <2>2. call'[LastCall].id = id
    BY <2>1
  <2> QED
    BY <2>1, <2>2 DEF DistinctIds
<1>3. CASE Next
  <2>1. PICK c \in Conns : LoopStep(c) \/ Client(c)
    BY <1>3 DEF Next
  <2>2. \/ call' = call
        \/ \E id \in CallIds, k \in Caps : NewCall(c, id, k)
    BY <2>1 DEF LoopStep, Client, Route, Record, Forward, CheckCaller, TakeBuffer, AppendAndSend,
       Deliver, Close, CloseArchive, CloseSession, Register, RegisterExecutor, CallHit, CallMiss,
       AgentResult, Disconnect
  <2> QED
    BY <1>1, <1>2, <2>2
<1> QED
  BY <1>1, <1>3 DEF vars

\* A call that was sent was made.
LEMMA SentMade ==
    ASSUME Basic, NEW n \in Calls, Sent(n)
    PROVE  n \in Made
<1>1. PICK c \in Conns : \/ At(c, n, {"forward"}) \/ Mail("call", n) \in ToSet(mail[c])
                         \/ n \in tasks[c]
  BY DEF Sent
<1>2. Mail("call", n).call = n
  BY DEF Mail
<1> QED
  BY <1>1, <1>2 DEF Basic, Known, At, Closing

\* What a step has to keep.
LEMMA KeptNotForgotten ==
    ASSUME Basic, NotForgotten, open' \subseteq open,
           \A n \in Made : call'[n] = call[n],
           \A n \in Calls : Sent(n)' => n \in Made /\ (Sent(n) \/ pending'[call[n].id] = n),
           \A n \in Made : call[n].caller \in open' /\ (pending[call[n].id] = n \/ Answering(n))
                              => pending'[call[n].id] = n \/ Answering(n)'
    PROVE  NotForgotten'
  BY DEF NotForgotten

\* Being answered, in the terms of the invariant.
LEMMA AnsweringIs ==
    ASSUME NEW n
    PROVE  Answering(n) <=> \/ \E c \in Conns : At(c, n, Answering3)
                            \/ Mail("result", n) \in ToSet(mail[call[n].caller])
                            \/ Mail("result", n) \in ToSet(got[call[n].caller])
  BY DEF Answering, At, In, Answering3

\* A call that is on its way, in the terms of the handlers and the queues.
LEMMA SameNotForgotten ==
    ASSUME Basic, NotForgotten, open' \subseteq open, pending' = pending,
           \A n \in Made : call'[n] = call[n],
           \A c \in Conns : /\ ToSet(mail[c]) \subseteq ToSet(mail'[c])
                            /\ ToSet(got[c]) \subseteq ToSet(got'[c])
                            /\ tasks'[c] = tasks[c],
           \A n \in Calls, c \in Conns :
              /\ At(c, n, {"forward"})' => At(c, n, {"forward"})
              /\ Mail("call", n) \in ToSet(mail'[c])
                    => Mail("call", n) \in ToSet(mail[c]) \/ At(c, n, {"forward"}) \/ Sent(n)
              /\ n \in Made /\ At(c, n, Answering3) =>
                    \/ At(c, n, Answering3)'
                    \/ call[n].caller \notin open'
                    \/ Mail("result", n) \in ToSet(mail'[call[n].caller])
    PROVE  NotForgotten'
<1>1. ASSUME NEW n \in Calls, Sent(n)'
      PROVE  n \in Made /\ Sent(n)
  <2>1. PICK c \in Conns : \/ At(c, n, {"forward"})'
                           \/ Mail("call", n) \in ToSet(mail'[c])
                           \/ n \in tasks'[c]
    BY <1>1 DEF Sent
  <2>2. Sent(n)
    BY <2>1 DEF Sent
  <2> QED
    BY <2>2, SentMade
<1>2. ASSUME NEW n \in Made, call[n].caller \in open', pending[call[n].id] = n \/ Answering(n)
      PROVE  pending'[call[n].id] = n \/ Answering(n)'
  <2>1. call[n].caller \in Conns /\ n \in Calls /\ call'[n] = call[n]
    BY <1>2 DEF Basic, TypeOK, Made
  <2>2. Answering(n)' <=> \/ \E c \in Conns : At(c, n, Answering3)'
                          \/ Mail("result", n) \in ToSet(mail'[call[n].caller])
                          \/ Mail("result", n) \in ToSet(got'[call[n].caller])
    BY <2>1 DEF Answering, At, In, Answering3, Mail
  <2> QED
    BY <1>2, <2>1, <2>2, AnsweringIs
<1> QED
  BY <1>1, <1>2, KeptNotForgotten

\* Initially there is no call.
LEMMA InitNotForgotten == Init => DistinctIds /\ NotForgotten
<1> SUFFICES ASSUME Init PROVE DistinctIds /\ NotForgotten
  OBVIOUS
<1>1. \A n \in Calls : ~Sent(n)
  BY DEF Init, Sent, At, ToSet
<1> QED
  BY <1>1 DEF DistinctIds, NotForgotten, Init, Made

\* The handler of c goes to p.
LEMMA GotoFacts ==
    ASSUME TypeOK, NEW c \in Conns, NEW p, at' = [at EXCEPT ![c] = p]
    PROVE  at'[c] = p /\ \A d \in Conns \ {c} : at'[d] = at[d]
  BY DEF TypeOK

\* Registrations and closes move no call.
LEMMA OtherNotForgotten ==
    ASSUME Basic, NotForgotten, NEW c \in Conns,
           \/ \E new \in SUBSET Caps : Register(c, new)
           \/ RegisterExecutor(c) \/ Disconnect(c)
           \/ Close(c) \/ CloseArchive(c) \/ CloseSession(c)
    PROVE  NotForgotten'
<1>1. /\ open' \subseteq open /\ pending' = pending /\ call' = call /\ mail' = mail /\ got' = got
      /\ tasks' = tasks
  BY DEF Register, RegisterExecutor, Disconnect, Close, CloseArchive, CloseSession
<1>2. ASSUME NEW n \in Calls, NEW d \in Conns
      PROVE  /\ At(d, n, {"forward"})' => At(d, n, {"forward"})
             /\ n \in Made /\ At(d, n, Answering3) => At(d, n, Answering3)'
  <2>1. CASE at' = at
    BY <2>1 DEF At
  <2>2. CASE Close(c)
    <3> DEFINE q(step) == [step |-> step, call |-> None, peer |-> c]
    <3>1. at[c] = None /\ \E step \in {"archive", "session"} : at' = [at EXCEPT ![c] = q(step)]
      BY <2>2 DEF Close, Goto
    <3>2. PICK step \in {"archive", "session"} : at'[c] = q(step) /\ \A e \in Conns \ {c} : at'[e] = at[e]
      BY <3>1, GotoFacts DEF Basic
    <3>3. at'[c].step # "forward"
      BY <3>2
    <3> QED
      BY <3>1, <3>2, <3>3 DEF At
  <2>3. CASE CloseArchive(c) \/ CloseSession(c)
    <3> DEFINE q(step) == [at[c] EXCEPT !.step = step]
    <3>1. at[c] # None /\ at[c].step \in Closing
      BY <2>3 DEF CloseArchive, CloseSession, In, Closing
    <3>2. at[c] \in Place
      BY <3>1 DEF Basic, TypeOK, Place
    <3>3. PICK step \in {"session", "closed"} : at' = [at EXCEPT ![c] = q(step)]
      BY <2>3 DEF CloseArchive, CloseSession, Goto
    <3>4. q(step).step # "forward"
      BY <3>2 DEF Place
    <3>5. at'[c] = q(step) /\ \A e \in Conns \ {c} : at'[e] = at[e]
      BY <3>3, GotoFacts DEF Basic
    <3> QED
      BY <3>1, <3>4, <3>5 DEF At, Answering3, Closing
  <2> QED
    BY <2>1, <2>2, <2>3 DEF Register, RegisterExecutor, Disconnect
<1> QED
  BY <1>1, <1>2, SameNotForgotten

\* A call that is made was not sent.
LEMMA CallNotForgotten ==
    ASSUME Basic, NotForgotten, NEW c \in Conns, NEW id \in CallIds, NEW k \in Caps,
           NEW t \in Conns \cup {None}, CallHit(c, id, k) \/ CallMiss(c, id, k, t)
    PROVE  NotForgotten'
<1> DEFINE n == LastCall
           m == Mail("result", n)
           p == [step |-> "route", call |-> n, peer |-> t]
<1>1. /\ NewCall(c, id, k) /\ open' = open /\ pending' = pending /\ got' = got /\ tasks' = tasks
      /\ at[c] = None
      /\ \/ Post(c, m) /\ at' = at
         \/ mail' = mail /\ at' = [at EXCEPT ![c] = p]
  BY DEF CallHit, CallMiss, Idle, Goto
<1>2. n \in Calls /\ \A i \in Made : call'[i] = call[i]
  BY <1>1, NewCallFacts
<1>3. m \in Msg /\ \A i : m # Mail("call", i)
  BY <1>2 DEF Mail, Msg, Answer
<1> HIDE DEF m
<1>4. \A d \in Conns : /\ ToSet(mail[d]) \subseteq ToSet(mail'[d])
                       /\ ToSet(mail'[d]) \subseteq ToSet(mail[d]) \cup {m}
  BY <1>1, <1>3, PostFacts DEF Basic
<1>5. ASSUME NEW i \in Calls, NEW d \in Conns
      PROVE  /\ At(d, i, {"forward"})' => At(d, i, {"forward"})
             /\ At(d, i, Answering3) => At(d, i, Answering3)'
  <2>1. CASE at' = at
    BY <2>1 DEF At
  <2>2. CASE at' = [at EXCEPT ![c] = p]
    <3>1. at'[c] = p /\ \A e \in Conns \ {c} : at'[e] = at[e]
      BY <2>2, GotoFacts DEF Basic
    <3>2. at'[c].step # "forward"
      BY <3>1
    <3> QED
      BY <1>1, <3>1, <3>2 DEF At
  <2> QED
    BY <1>1, <2>1, <2>2
<1> QED
  BY <1>1, <1>2, <1>3, <1>4, <1>5, SameNotForgotten

\* route sends nothing yet.
LEMMA RouteNotForgotten ==
    ASSUME Basic, NotForgotten, NEW c \in Conns, Route(c)
    PROVE  NotForgotten'
<1> DEFINE n == at[c].call
           m == Mail("no_agent", n)
           p == [step |-> "record", call |-> n, peer |-> Routed(at[c].peer, call[n].cap)]
<1>1. /\ open' = open /\ pending' = pending /\ got' = got /\ tasks' = tasks /\ call' = call
      /\ \/ Post(c, m) /\ at' = [at EXCEPT ![c] = None]
         \/ mail' = mail /\ at' = [at EXCEPT ![c] = p]
  BY DEF Route, Goto
<1>2. n \in Calls /\ at[c].step = "route"
  BY PlaceFacts DEF Route, Steps, Closing
<1>3. m \in Msg /\ \A i : m # Mail("call", i)
  BY <1>2 DEF Mail, Msg, Answer
<1>4. p.step = "record"
  OBVIOUS
<1> HIDE DEF m, p
<1>5. \A d \in Conns : /\ ToSet(mail[d]) \subseteq ToSet(mail'[d])
                       /\ ToSet(mail'[d]) \subseteq ToSet(mail[d]) \cup {m}
  BY <1>1, <1>3, PostFacts DEF Basic
<1>6. at'[c] \in {None, p} /\ \A d \in Conns \ {c} : at'[d] = at[d]
  BY <1>1, GotoFacts DEF Basic
<1>7. ASSUME NEW i \in Calls, NEW d \in Conns
      PROVE  /\ At(d, i, {"forward"})' => At(d, i, {"forward"})
             /\ At(d, i, Answering3) => At(d, i, Answering3)'
  BY <1>2, <1>4, <1>6 DEF At, Answering3
<1> QED
  BY <1>1, <1>3, <1>5, <1>7, SameNotForgotten

\* A call that is recorded is pending; no other call has its id.
LEMMA RecordNotForgotten ==
    ASSUME Basic, NotForgotten, DistinctIds, NEW c \in Conns, Record(c)
    PROVE  NotForgotten'
<1> DEFINE n == at[c].call
           p == [at[c] EXCEPT !.step = "forward"]
<1>1. /\ open' = open /\ mail' = mail /\ got' = got /\ tasks' = tasks /\ call' = call
      /\ at' = [at EXCEPT ![c] = p] /\ pending' = [pending EXCEPT ![call[n].id] = n]
  BY DEF Record, Goto
<1>2. /\ at[c] \in Place /\ at[c].step = "record" /\ n \in Made /\ n \in Calls
      /\ call[n] \in CallRec
  BY PlaceFacts DEF Record, Steps, Closing
<1>3. p.call = n
  BY <1>2 DEF Place
<1> HIDE DEF p, n
<1>4. at'[c] = p /\ \A d \in Conns \ {c} : at'[d] = at[d]
  BY <1>1, GotoFacts DEF Basic
<1>5. \A i \in Made : call[i].id \in CallIds
  BY DEF Basic, TypeOK, Made
<1>6. /\ pending'[call[n].id] = n
      /\ \A i \in Made : pending[call[i].id] = i => pending'[call[i].id] = i
  <2>1. \A i \in CallIds : pending'[i] = IF i = call[n].id THEN n ELSE pending[i]
    BY <1>1 DEF Basic, TypeOK
  <2> QED
    BY <1>2, <1>5, <2>1 DEF DistinctIds, CallRec
<1>7. ASSUME NEW i \in Calls, Sent(i)'
      PROVE  i \in Made /\ (Sent(i) \/ pending'[call[i].id] = i)
  <2>1. PICK d \in Conns : \/ At(d, i, {"forward"})'
                           \/ Mail("call", i) \in ToSet(mail'[d])
                           \/ i \in tasks'[d]
    BY <1>7 DEF Sent
  <2>2. CASE i = n
    BY <1>2, <1>6, <2>2
  <2>3. CASE i # n
    <3>1. At(d, i, {"forward"})' => At(d, i, {"forward"})
      BY <1>3, <1>4, <2>3 DEF At
    <3>2. Sent(i)
      BY <1>1, <2>1, <3>1 DEF Sent
    <3> QED
      BY <3>2, SentMade
  <2> QED
    BY <2>2, <2>3
<1>8. ASSUME NEW i \in Made, Answering(i) PROVE Answering(i)'
  <2>1. \A d \in Conns : At(d, i, Answering3) => At(d, i, Answering3)'
    BY <1>2, <1>4 DEF At, Answering3
  <2> QED
    BY <1>1, <1>8, <2>1 DEF Answering, At, In, Answering3, Mail
<1> QED
  BY <1>1, <1>6, <1>7, <1>8, KeptNotForgotten

\* A call that is handed over is in the queue of the agent.
LEMMA ForwardNotForgotten ==
    ASSUME Basic, NotForgotten, NEW c \in Conns, Forward(c)
    PROVE  NotForgotten'
<1> DEFINE n == at[c].call
           m == Mail("call", n)
<1>1. /\ open' = open /\ pending' = pending /\ got' = got /\ tasks' = tasks /\ call' = call
      /\ at' = [at EXCEPT ![c] = None]
      /\ mail' = mail \/ (at[c].peer \in sessions /\ Post(at[c].peer, m))
  BY DEF Forward, Goto
<1>2. n \in Calls /\ at[c].step = "forward" /\ At(c, n, {"forward"})
  BY PlaceFacts DEF Forward, Steps, Closing, At
<1>3. m \in Msg /\ \A i : m = Mail("call", i) => i = n
  BY <1>2 DEF Mail, Msg
<1> HIDE DEF m, n
<1>4. \A d \in Conns : /\ ToSet(mail[d]) \subseteq ToSet(mail'[d])
                       /\ ToSet(mail'[d]) \subseteq ToSet(mail[d]) \cup {m}
  <2>1. TypeOK
    BY DEF Basic
  <2>2. CASE mail' = mail
    BY <2>2
  <2>3. CASE at[c].peer \in sessions /\ Post(at[c].peer, m)
    <3>1. at[c].peer \in Conns
      BY <2>1, <2>3 DEF TypeOK
    <3> QED
      BY <1>3, <2>1, <2>3, <3>1, PostFacts
  <2> QED
    BY <1>1, <2>2, <2>3
<1>5. at'[c] = None /\ \A d \in Conns \ {c} : at'[d] = at[d]
  BY <1>1, GotoFacts DEF Basic
<1>6. ASSUME NEW i \in Calls, NEW d \in Conns
      PROVE  /\ At(d, i, {"forward"})' => At(d, i, {"forward"})
             /\ At(d, i, Answering3) => At(d, i, Answering3)'
  BY <1>2, <1>5 DEF At, Answering3
<1>7. Sent(n)
  BY <1>2 DEF Sent
<1>8. ASSUME NEW i \in Calls, NEW d \in Conns, Mail("call", i) \in ToSet(mail'[d])
      PROVE  Mail("call", i) \in ToSet(mail[d]) \/ Sent(i)
  BY <1>3, <1>4, <1>7, <1>8
<1> QED
  BY <1>1, <1>4, <1>6, <1>8, SameNotForgotten

\* The handler of a result that is not sent yet has a caller that is gone, or goes on.
LEMMA ResultNotForgotten ==
    ASSUME Basic, NotForgotten, NEW c \in Conns,
           CheckCaller(c) \/ TakeBuffer(c) \/ AppendAndSend(c)
    PROVE  NotForgotten'
<1> DEFINE n == at[c].call
           b == at[c].peer
<1>1. /\ at[c] \in Place /\ n \in Made /\ n \in Calls /\ b = call[n].caller /\ b \in Conns
      /\ at[c].step \in Answering3
  BY PlaceFacts DEF CheckCaller, TakeBuffer, AppendAndSend, Steps, Closing, Answering3, CallRec
<1>2. /\ open' = open /\ pending' = pending /\ got' = got /\ tasks' = tasks /\ call' = call
  BY DEF CheckCaller, TakeBuffer, AppendAndSend
<1> DEFINE q(step) == [at[c] EXCEPT !.step = step]
<1>3. PICK p \in {q("buffer"), q("append"), None} : at' = [at EXCEPT ![c] = p]
  BY DEF CheckCaller, TakeBuffer, AppendAndSend, Goto
<1>4. p # None => p.step \in Answering3 /\ p.call = n /\ p.step # "forward"
  BY <1>1 DEF Place, Answering3
<1>5. at'[c] = p /\ \A d \in Conns \ {c} : at'[d] = at[d]
  BY <1>3, GotoFacts DEF Basic
<1>6. /\ at'[c] # None \/ b \notin open \/ Post(b, Mail("result", n))
      /\ mail' = mail \/ Post(c, Mail("caller_gone", n)) \/ Post(b, Mail("result", n))
  <2>1. CASE CheckCaller(c) /\ b \in open
    <3>1. at' = [at EXCEPT ![c] = q("buffer")] /\ mail' = mail
      BY <2>1 DEF CheckCaller, Goto
    <3>2. q("buffer") # None
      <4>1. q("buffer") \in Place
        BY <1>1 DEF Place, Steps
      <4> QED
        BY <4>1, NoneIsNothing
    <3>3. at'[c] = q("buffer")
      BY <3>1, GotoFacts DEF Basic
    <3> QED
      BY <3>1, <3>2, <3>3
  <2>2. CASE CheckCaller(c) /\ b \notin open
    BY <2>2 DEF CheckCaller
  <2>3. CASE TakeBuffer(c)
    <3>1. at' = [at EXCEPT ![c] = q("append")] /\ mail' = mail
      BY <2>3 DEF TakeBuffer, Goto
    <3>2. q("append") # None
      <4>1. q("append") \in Place
        BY <1>1 DEF Place, Steps
      <4> QED
        BY <4>1, NoneIsNothing
    <3>3. at'[c] = q("append")
      BY <3>1, GotoFacts DEF Basic
    <3> QED
      BY <3>1, <3>2, <3>3
  <2>4. CASE AppendAndSend(c)
    BY <2>4 DEF AppendAndSend
  <2> QED
    BY <2>1, <2>2, <2>3, <2>4
<1>7. /\ Mail("caller_gone", n) \in Msg /\ Mail("result", n) \in Msg
      /\ \A i : Mail("call", i) \notin {Mail("caller_gone", n), Mail("result", n)}
  BY <1>1 DEF Mail, Msg, Answer
<1> HIDE DEF n, b, q
<1>8. /\ \A d \in Conns :
          /\ ToSet(mail[d]) \subseteq ToSet(mail'[d])
          /\ ToSet(mail'[d]) \subseteq ToSet(mail[d]) \cup {Mail("caller_gone", n), Mail("result", n)}
      /\ Post(b, Mail("result", n)) => Mail("result", n) \in ToSet(mail'[b])
  <2>1. CASE mail' = mail
    BY <1>1, <2>1, PostFacts, <1>7 DEF Basic
  <2>2. ASSUME NEW d \in Conns, NEW m \in {Mail("caller_gone", n), Mail("result", n)}, Post(d, m)
        PROVE  \A e \in Conns : ToSet(mail'[e]) = ToSet(mail[e]) \cup (IF e = d THEN {m} ELSE {})
    BY <1>7, <2>2, PostFacts DEF Basic
  <2>3. CASE Post(c, Mail("caller_gone", n))
    BY <1>1, <1>7, <2>2, <2>3
  <2>4. CASE Post(b, Mail("result", n))
    BY <1>1, <1>7, <2>2, <2>4
  <2>5. Post(b, Mail("result", n)) => Mail("result", n) \in ToSet(mail'[b])
    BY <1>1, <2>2
  <2> QED
    BY <1>6, <2>1, <2>3, <2>4, <2>5
<1>9. ASSUME NEW i \in Calls, NEW d \in Conns
      PROVE  /\ At(d, i, {"forward"})' => At(d, i, {"forward"})
             /\ At(d, i, Answering3) =>
                    \/ At(d, i, Answering3)'
                    \/ call[i].caller \notin open'
                    \/ Mail("result", i) \in ToSet(mail'[call[i].caller])
  <2>1. CASE d # c
    BY <1>5, <2>1 DEF At
  <2>2. CASE d = c
    <3>1. At(c, i, Answering3) => i = n
      BY DEF At, n
    <3>2. At(c, i, {"forward"})' => FALSE
      BY <1>3, <1>4, <1>5 DEF At
    <3>3. i = n /\ at'[c] # None => At(c, i, Answering3)'
      BY <1>3, <1>4, <1>5 DEF At
    <3>4. i = n => call[i].caller = b
      BY <1>1
    <3> QED
      BY <1>2, <1>6, <1>8, <2>2, <3>1, <3>2, <3>3, <3>4
  <2> QED
    BY <2>1, <2>2
<1>10. \A d \in Conns, i \in Calls : Mail("call", i) \in ToSet(mail'[d])
                                       => Mail("call", i) \in ToSet(mail[d])
  BY <1>7, <1>8
<1> QED
  BY <1>2, <1>8, <1>9, <1>10, SameNotForgotten

\* A result takes the call it answers out of the map, and goes on to answer it.
LEMMA AgentResultNotForgotten ==
    ASSUME Basic, NotForgotten, DistinctIds, NEW c \in Conns, NEW n \in Calls, AgentResult(c, n)
    PROVE  NotForgotten'
<1> DEFINE id == call[n].id
           r == pending[id]
<1>1. /\ open' = open /\ got' = got /\ tasks' = tasks /\ call' = call /\ at[c] = None
      /\ n \in Made
  BY DEF AgentResult, MayAnswer, Idle
<1>2. id \in CallIds
  BY <1>1 DEF Basic, TypeOK, Made
<1>3. CASE r = None
  <2> DEFINE m == Mail("no_pending", n)
  <2>1. Post(c, m) /\ pending' = pending /\ at' = at
    BY <1>3 DEF AgentResult
  <2>2. m \in Msg /\ \A i : m # Mail("call", i)
    BY DEF Mail, Msg, Answer
  <2> HIDE DEF m
  <2>3. \A d \in Conns : /\ ToSet(mail[d]) \subseteq ToSet(mail'[d])
                         /\ ToSet(mail'[d]) \subseteq ToSet(mail[d]) \cup {m}
    BY <2>1, <2>2, PostFacts DEF Basic
  <2>4. ASSUME NEW i \in Calls, NEW d \in Conns
        PROVE  /\ At(d, i, {"forward"})' => At(d, i, {"forward"})
               /\ At(d, i, Answering3) => At(d, i, Answering3)'
    BY <2>1 DEF At
  <2> QED
    BY <1>1, <2>1, <2>2, <2>3, <2>4, SameNotForgotten
<1>4. CASE r # None
  <2> DEFINE p == [step |-> "check", call |-> r, peer |-> call[r].caller]
  <2>1. at' = [at EXCEPT ![c] = p] /\ mail' = mail /\ pending' = [pending EXCEPT ![id] = None]
    BY <1>4 DEF AgentResult, Goto
  <2>2. r \in Made /\ call[r].id = id /\ call[r] \in CallRec
    BY <1>2, <1>4 DEF Basic, TypeOK, Known, Made, CallRec
  <2>3. p \in Place /\ p # None /\ p.step = "check" /\ p.call = r
    <3>1. p \in Place
      BY <2>2 DEF Place, Steps, CallRec, Made
    <3> QED
      BY <3>1, NoneIsNothing
  <2> HIDE DEF p
  <2>4. at'[c] = p /\ \A d \in Conns \ {c} : at'[d] = at[d]
    BY <2>1, GotoFacts DEF Basic
  <2>5. \A i \in CallIds : pending'[i] = IF i = id THEN None ELSE pending[i]
    BY <2>1 DEF Basic, TypeOK
  <2>6. \A i \in Calls : /\ \A d \in Conns : At(d, i, Answering3) => At(d, i, Answering3)'
                         /\ i = r => At(c, i, Answering3)'
                         /\ \A d \in Conns : At(d, i, {"forward"})' => At(d, i, {"forward"})
    BY <1>1, <2>3, <2>4 DEF At, Answering3
  <2>7. ASSUME NEW i \in Calls, Sent(i)' PROVE i \in Made /\ Sent(i)
    <3>1. Sent(i)
      BY <1>1, <2>1, <2>6, <2>7 DEF Sent
    <3> QED
      BY <3>1, SentMade
  <2>8. ASSUME NEW i \in Made, pending[call[i].id] = i \/ Answering(i)
        PROVE  pending'[call[i].id] = i \/ Answering(i)'
    <3>1. call[i].id \in CallIds /\ i \in Calls
      BY DEF Basic, TypeOK, Made
    <3>2. (\E d \in Conns : At(d, i, Answering3)') => Answering(i)'
      BY DEF Answering, At, In, Answering3
    <3>3. CASE Answering(i)
      BY <1>1, <2>1, <2>6, <3>1, <3>2, <3>3, AnsweringIs DEF Answering, Mail
    <3>4. CASE pending[call[i].id] = i /\ call[i].id = id
      BY <2>6, <3>1, <3>2, <3>4
    <3>5. CASE pending[call[i].id] = i /\ call[i].id # id
      BY <2>5, <3>1, <3>5
    <3> QED
      BY <2>8, <3>3, <3>4, <3>5
  <2> QED
    BY <1>1, <2>7, <2>8, KeptNotForgotten
<1> QED
  BY <1>3, <1>4

\* A message that is delivered is with its client, unless the client is gone.
LEMMA DeliverNotForgotten ==
    ASSUME Basic, NotForgotten, NEW c \in Conns, Deliver(c)
    PROVE  NotForgotten'
<1> DEFINE m == Head(mail[c])
           Ans == [type : Answer, call : Calls]
<1>1. mail[c] \in Seq(Msg) /\ mail[c] # <<>> /\ got[c] \in Seq(Ans)
  BY DEF Deliver, Basic, TypeOK, Msg
<1>2. open' = open /\ call' = call /\ pending' = pending /\ at' = at
  BY DEF Deliver
<1>3. m \in Msg /\ ToSet(mail[c]) = {m} \cup ToSet(mail'[c])
  BY <1>1, TailAt, ToSetTail DEF Deliver, Basic, TypeOK
<1>4. \A d \in Conns \ {c} : mail'[d] = mail[d] /\ got'[d] = got[d] /\ tasks'[d] = tasks[d]
  BY DEF Deliver, Basic, TypeOK
<1>5. \/ c \notin open /\ tasks' = tasks /\ got' = got
      \/ m.type = "call" /\ tasks' = [tasks EXCEPT ![c] = @ \cup {m.call}] /\ got' = got
      \/ m.type # "call" /\ got' = [got EXCEPT ![c] = Append(@, m)] /\ tasks' = tasks
  BY DEF Deliver
<1> HIDE DEF m
<1>6. /\ ToSet(got[c]) \subseteq ToSet(got'[c])
      /\ c \in open /\ m.type # "call" => m \in ToSet(got'[c])
  <2>1. CASE m.type # "call" /\ got' = [got EXCEPT ![c] = Append(@, m)]
    <3>1. m \in Ans /\ got'[c] = Append(got[c], m)
      BY <1>3, <2>1 DEF Msg, Basic, TypeOK
    <3> HIDE DEF Ans
    <3> QED
      BY <1>1, <3>1, ToSetAppend
  <2> QED
    BY <1>5, <2>1
<1>7. /\ tasks[c] \subseteq tasks'[c]
      /\ \A i \in tasks'[c] : i \in tasks[c] \/ m = Mail("call", i)
  <2>1. CASE m.type = "call" /\ tasks' = [tasks EXCEPT ![c] = @ \cup {m.call}]
    <3>1. tasks'[c] = tasks[c] \cup {m.call}
      BY <2>1 DEF Basic, TypeOK
    <3>2. m = Mail("call", m.call)
      BY <1>3, <2>1 DEF Mail, Msg
    <3> QED
      BY <3>1, <3>2
  <2> QED
    BY <1>5, <2>1
<1>8. ASSUME NEW i \in Calls, Sent(i)' PROVE i \in Made /\ Sent(i)
  <2>1. PICK d \in Conns : \/ At(d, i, {"forward"})'
                           \/ Mail("call", i) \in ToSet(mail'[d])
                           \/ i \in tasks'[d]
    BY <1>8 DEF Sent
  <2>2. At(d, i, {"forward"})' <=> At(d, i, {"forward"})
    BY <1>2 DEF At
  <2>3. Mail("call", i) \in ToSet(mail'[d]) => Mail("call", i) \in ToSet(mail[d])
    BY <1>3, <1>4
  <2>4. i \in tasks'[d] => i \in tasks[d] \/ Mail("call", i) \in ToSet(mail[d])
    BY <1>3, <1>4, <1>7
  <2>5. Sent(i)
    BY <2>1, <2>2, <2>3, <2>4 DEF Sent
  <2> QED
    BY <2>5, SentMade
<1>9. ASSUME NEW i \in Made, call[i].caller \in open, Answering(i)
      PROVE  Answering(i)'
  <2> DEFINE b == call[i].caller
             x == Mail("result", i)
  <2>1. x.type # "call" /\ b \in Conns
    BY DEF Mail, Basic, TypeOK, Made
  <2>2. x \in ToSet(mail[b]) \cup ToSet(got[b]) => x \in ToSet(mail'[b]) \cup ToSet(got'[b])
    BY <1>3, <1>4, <1>6, <1>9, <2>1
  <2> QED
    BY <1>2, <1>9, <2>2, AnsweringIs DEF Answering, In, At, Answering3, Mail
<1> QED
  BY <1>2, <1>8, <1>9, KeptNotForgotten

\* Every step keeps calls from being forgotten.
LEMMA StepNotForgotten ==
    ASSUME Basic, DistinctIds, NotForgotten, [Next]_vars
    PROVE  NotForgotten'
<1>1. CASE UNCHANGED vars
  <2>1. ASSUME NEW n \in Calls, NEW d \in Conns
        PROVE  /\ At(d, n, {"forward"})' => At(d, n, {"forward"})
               /\ At(d, n, Answering3) => At(d, n, Answering3)'
    BY <1>1 DEF vars, At
  <2>2. /\ open' = open /\ pending' = pending /\ call' = call /\ mail' = mail /\ got' = got
        /\ tasks' = tasks
    BY <1>1 DEF vars
  <2> QED
    BY <2>1, <2>2, SameNotForgotten
<1>2. CASE Next
  <2>1. PICK c \in Conns : LoopStep(c) \/ Client(c)
    BY <1>2 DEF Next
  <2>2. CASE LoopStep(c)
    BY <2>2, RouteNotForgotten, RecordNotForgotten, ForwardNotForgotten, ResultNotForgotten,
       DeliverNotForgotten, OtherNotForgotten DEF LoopStep
  <2>3. CASE Client(c)
    BY <2>3, CallNotForgotten, AgentResultNotForgotten, OtherNotForgotten DEF Client
  <2> QED
    BY <2>1, <2>2, <2>3
<1> QED
  BY <1>1, <1>2

\* If callers use distinct call_ids, a call that reached an agent is never forgotten while its
\* caller is connected: it is pending, or its result is on the way to the caller or there,
\* whatever closes meanwhile (route_agent_call, route_agent_result).
THEOREM CallsKept ==
    ASSUME UniqueIds
    PROVE  Spec => []NoCallForgotten
<1>1. ASSUME Basic, DistinctIds, NotForgotten, [Next]_vars PROVE DistinctIds' /\ NotForgotten'
  BY <1>1, UniqueIds, StepDistinctIds, StepNotForgotten
<1>2. Basic /\ NotForgotten => NoCallForgotten
  BY DEF NotForgotten, NoCallForgotten, Sent, Basic, TypeOK
<1> QED
  BY <1>1, <1>2, InitNotForgotten, AlwaysBasic, PTL DEF Spec

\* If callers use distinct call_ids, the result that is taken for a call is the result of that
\* call, and goes to its caller (pending_agents_, route_agent_result).
THEOREM OwnResult ==
    ASSUME UniqueIds
    PROVE  Spec => ResultToItsCaller
<1>1. ASSUME Basic, DistinctIds, [Next]_vars PROVE DistinctIds'
  BY <1>1, UniqueIds, StepDistinctIds
<1>2. ASSUME Basic, DistinctIds, NEW c \in Conns, NEW n \in Calls, AgentResult(c, n), at' # at
      PROVE  at'[c].peer = call[n].caller
  <2> DEFINE r == pending[call[n].id]
             p == [step |-> "check", call |-> r, peer |-> call[r].caller]
  <2>1. r # None /\ at' = [at EXCEPT ![c] = p] /\ n \in Made
    BY <1>2 DEF AgentResult, MayAnswer, Goto, Idle
  <2>2. call[n].id \in CallIds
    BY <1>2, <2>1 DEF Basic, TypeOK, Made
  <2>3. r = n
    BY <1>2, <2>1, <2>2 DEF Basic, Known, DistinctIds
  <2>4. p.peer = call[n].caller
    BY <2>3
  <2> HIDE DEF p
  <2>5. at'[c] = p
    BY <1>2, <2>1, GotoFacts DEF Basic
  <2> QED
    BY <2>4, <2>5
<1>3. Basic /\ DistinctIds =>
          [\A c \in Conns, n \in Calls : AgentResult(c, n) /\ at' # at => at'[c].peer = call[n].caller]_vars
  BY <1>2
<1> QED
  BY <1>1, <1>3, InitNotForgotten, AlwaysBasic, PTL DEF Spec, ResultToItsCaller

-----------------------------------------------------------------------------
(* The capability index.                                                   *)

\* The lists after an agent was taken out of those of its old capabilities.
LEMMA UnindexedAt ==
    ASSUME NEW idx, IsIndex(idx), NEW c \in Conns, NEW old \in SUBSET Caps, NEW k
    PROVE  LET list == List(Unindexed(idx, c, old), k)
           IN  /\ ToSet(list) = IF k \in old THEN ToSet(List(idx, k)) \ {c} ELSE ToSet(List(idx, k))
               /\ IsInjective(List(idx, k)) => IsInjective(list)
               /\ k \notin old => list = List(idx, k)
<1> DEFINE kept == Keep(List(idx, k), Conns \ {c})
<1>1. List(idx, k) \in Seq(Conns)
  BY ListType
<1>2. /\ ToSet(kept) = ToSet(List(idx, k)) \cap (Conns \ {c})
      /\ IsInjective(List(idx, k)) => IsInjective(kept)
  BY <1>1, KeepFacts
<1>3. ToSet(List(idx, k)) \subseteq Conns
  BY <1>1, ElementOfSeq, LenProperties DEF ToSet
<1>4. List(Unindexed(idx, c, old), k) = IF k \in old THEN kept ELSE List(idx, k)
  BY DEF Unindexed, List
<1> HIDE DEF kept
<1> QED
  BY <1>2, <1>3, <1>4

\* The lists after an agent was entered in those of its new capabilities.
LEMMA IndexedAt ==
    ASSUME NEW idx, IsIndex(idx), NEW c \in Conns, NEW new \in SUBSET Caps, NEW k
    PROVE  LET list == List(Indexed(idx, c, new), k)
           IN  /\ ToSet(list) = IF k \in new THEN ToSet(List(idx, k)) \cup {c} ELSE ToSet(List(idx, k))
               /\ IsInjective(List(idx, k)) => IsInjective(list)
               /\ k \notin new => list = List(idx, k)
<1>1. List(idx, k) \in Seq(Conns)
  BY ListType
<1>2. List(Indexed(idx, c, new), k) = IF k \in new /\ c \notin ToSet(List(idx, k))
                                      THEN Append(List(idx, k), c) ELSE List(idx, k)
  BY DEF Indexed, List
<1>3. /\ ToSet(Append(List(idx, k), c)) = ToSet(List(idx, k)) \cup {c}
      /\ IsInjective(List(idx, k)) /\ c \notin ToSet(List(idx, k))
            => IsInjective(Append(List(idx, k), c))
  BY <1>1, ToSetAppend, InjectiveAppend
<1> QED
  BY <1>2, <1>3

\* The index, as the lists of it tell: no list is empty, none has an agent twice, and they
\* have the agents that offer the capability.
LEMMA ExactIs ==
    ASSUME TypeOK, RegistryExact
    PROVE  \A k : /\ IsInjective(List(index, k))
                  /\ k \in DOMAIN index => List(index, k) = index[k] /\ index[k] # <<>>
                  /\ k \in Caps => ToSet(List(index, k)) = {c \in Conns : k \in CapsOf(c)}
  BY DEF RegistryExact, List, IsInjective

\* An element is in no empty list.
LEMMA EmptyToSet == ToSet(<<>>) = {} /\ IsInjective(<<>>)
  BY DEF ToSet, IsInjective

\* Initially nothing is registered.
LEMMA InitRegistry == Init => Listed /\ RegistryExact
<1> SUFFICES ASSUME Init PROVE Listed /\ RegistryExact
  OBVIOUS
<1>1. \A k : List(index, k) = <<>> /\ k \notin DOMAIN index
  BY DEF Init, List
<1>2. \A c \in Conns : CapsOf(c) = {} /\ at[c] = None /\ agents[c] = None
  BY DEF Init, CapsOf
<1> QED
  BY <1>1, <1>2, EmptyToSet DEF Listed, RegistryExact, In

\* An agent registers, possibly again, with capabilities added to those it has.
LEMMA RegisterRegistry ==
    ASSUME Basic, Listed, RegistryExact, NEW c \in Conns, NEW new \in SUBSET Caps, Register(c, new)
    PROVE  Listed' /\ RegistryExact'
<1> DEFINE all == caps[c] \cup new
           old == CapsOf(c)
           idx == Unindexed(index, c, old)
<1>1. all \in SUBSET Caps /\ old \in SUBSET Caps /\ IsIndex(index) /\ all # None
  BY CapsOfType, NoneIsNothing DEF Basic, TypeOK
<1>2. old \subseteq all
  BY DEF Listed, CapsOf
<1>3. /\ index' = Indexed(idx, c, all) /\ agents' = [agents EXCEPT ![c] = all]
      /\ caps' = [caps EXCEPT ![c] = all] /\ at' = at /\ sessions' = sessions
      /\ at[c] = None /\ role' = [role EXCEPT ![c] = "agent"]
  BY DEF Register, RegisterAgent, Idle
<1>4. IsIndex(idx)
  BY <1>1, UnindexedType
<1> HIDE DEF all, old, idx
<1>5. ASSUME NEW k
      PROVE  /\ ToSet(List(index', k)) = IF k \in all THEN ToSet(List(index, k)) \cup {c}
                                         ELSE ToSet(List(index, k))
             /\ IsInjective(List(index', k))
             /\ k \notin all => List(index', k) = List(index, k)
  <2>1. LET list == List(idx, k)
        IN  /\ ToSet(list) = IF k \in old THEN ToSet(List(index, k)) \ {c} ELSE ToSet(List(index, k))
            /\ IsInjective(List(index, k)) => IsInjective(list)
            /\ k \notin old => list = List(index, k)
    BY <1>1, UnindexedAt DEF idx
  <2>2. LET list == List(index', k)
        IN  /\ ToSet(list) = IF k \in all THEN ToSet(List(idx, k)) \cup {c} ELSE ToSet(List(idx, k))
            /\ IsInjective(List(idx, k)) => IsInjective(list)
            /\ k \notin all => list = List(idx, k)
    BY <1>1, <1>3, <1>4, IndexedAt
  <2>3. IsInjective(List(index, k))
    BY ExactIs DEF Basic
  <2> QED
    BY <1>2, <2>1, <2>2, <2>3
<1>6. /\ agents'[c] = all /\ caps'[c] = all
      /\ \A d \in Conns \ {c} : agents'[d] = agents[d] /\ caps'[d] = caps[d] /\ role'[d] = role[d]
  BY <1>3 DEF Basic, TypeOK
<1>7. CapsOf(c)' = all /\ \A d \in Conns \ {c} : CapsOf(d)' = CapsOf(d)
  BY <1>1, <1>6 DEF CapsOf
<1>8. Listed'
  BY <1>3, <1>6 DEF Listed
<1>9. ASSUME NEW k \in Caps
      PROVE  ToSet(List(index', k)) = {d \in Conns : k \in CapsOf(d)'}
  <2>1. ToSet(List(index, k)) = {d \in Conns : k \in CapsOf(d)}
    BY ExactIs DEF Basic
  <2>2. k \in old <=> k \in CapsOf(c)
    BY DEF old
  <2> QED
    BY <1>2, <1>5, <1>7, <2>1, <2>2
<1>10. ASSUME NEW k \in DOMAIN index'
       PROVE  index'[k] # <<>> /\ IsInjective(index'[k])
  <2>1. List(index', k) = index'[k]
    BY DEF List
  <2>2. CASE k \in all
    BY <1>5, <2>1, <2>2, EmptyToSet
  <2>3. CASE k \notin all
    <3>1. k \in DOMAIN index
      BY <1>2, <1>3, <2>3 DEF Indexed, Unindexed, idx
    <3> QED
      BY <1>5, <2>1, <2>3, <3>1, ExactIs DEF Basic
  <2> QED
    BY <2>2, <2>3
<1>11. \A d \in Conns : In(d, "closed")' =>
          d \notin sessions' /\ (role'[d] = "agent" => agents'[d] = None)
  BY <1>3, <1>6 DEF RegistryExact, In
<1> QED
  BY <1>8, <1>9, <1>10, <1>11 DEF RegistryExact

\* A connection begins to close: an agent leaves the registry, and the lists it empties go.
LEMMA CloseRegistry ==
    ASSUME Basic, Listed, RegistryExact, NEW c \in Conns, Close(c)
    PROVE  Listed' /\ RegistryExact'
<1> DEFINE old == CapsOf(c)
           idx == Unindexed(index, c, old)
           S   == {j \in DOMAIN idx : idx[j] # <<>> \/ j \notin old}
           q(step) == [step |-> step, call |-> None, peer |-> c]
<1>1. old \in SUBSET Caps /\ IsIndex(index)
  BY CapsOfType DEF Basic
<1>2. sessions' = sessions /\ caps' = caps /\ role' = role
  BY DEF Close
<1>3. PICK step \in {"archive", "session"} : at' = [at EXCEPT ![c] = q(step)]
  BY DEF Close, Goto
<1>4. q(step).step # "closed"
  OBVIOUS
<1> HIDE DEF q
<1>5. at'[c].step # "closed" /\ \A d \in Conns \ {c} : at'[d] = at[d]
  BY <1>3, <1>4, GotoFacts DEF Basic
<1>6. CASE role[c] = "agent"
  <2>1. agents' = [agents EXCEPT ![c] = None] /\ index' = [k \in S |-> idx[k]]
    BY <1>6 DEF Close, UnregisterAgent
  <2>2. agents'[c] = None /\ \A d \in Conns \ {c} : agents'[d] = agents[d]
    BY <2>1 DEF Basic, TypeOK
  <2>3. CapsOf(c)' = {} /\ \A d \in Conns \ {c} : CapsOf(d)' = CapsOf(d)
    BY <2>2 DEF CapsOf
  <2>4. ASSUME NEW k
        PROVE  /\ ToSet(List(idx, k)) = IF k \in old THEN ToSet(List(index, k)) \ {c}
                                        ELSE ToSet(List(index, k))
               /\ IsInjective(List(idx, k))
               /\ k \notin old => List(idx, k) = List(index, k)
    BY <1>1, UnindexedAt, ExactIs DEF Basic
  <2>5. DOMAIN idx = DOMAIN index \cup old
    BY DEF Unindexed
  <2> HIDE DEF idx, old
  <2>6. ASSUME NEW k \in DOMAIN index'
        PROVE  index'[k] # <<>> /\ IsInjective(index'[k])
    <3>1. k \in S /\ index'[k] = idx[k] /\ List(idx, k) = idx[k]
      BY <2>1 DEF List
    <3>2. k \notin old => k \in DOMAIN index /\ idx[k] = index[k]
      BY <2>4, <2>5, <3>1 DEF List
    <3> QED
      BY <2>4, <3>1, <3>2, ExactIs DEF Basic
  <2>7. ASSUME NEW k \in Caps
        PROVE  ToSet(List(index', k)) = {d \in Conns : k \in CapsOf(d)'}
    <3>1. ToSet(List(index', k)) = ToSet(List(idx, k))
      BY <2>1, EmptyToSet DEF List
    <3>2. ToSet(List(index, k)) = {d \in Conns : k \in CapsOf(d)}
      BY ExactIs DEF Basic
    <3>3. k \in old <=> k \in CapsOf(c)
      BY DEF old
    <3> QED
      BY <2>3, <2>4, <3>1, <3>2, <3>3
  <2>8. Listed'
    BY <1>2, <1>5, <2>2 DEF Listed
  <2>9. \A d \in Conns : In(d, "closed")' =>
          d \notin sessions' /\ (role'[d] = "agent" => agents'[d] = None)
    BY <1>2, <1>5, <2>2 DEF RegistryExact, In
  <2> QED
    BY <2>6, <2>7, <2>8, <2>9 DEF RegistryExact
<1>7. CASE role[c] # "agent"
  <2>1. agents' = agents /\ index' = index
    BY <1>7 DEF Close, registry
  <2>2. Listed'
    BY <1>2, <1>5, <1>7, <2>1 DEF Listed
  <2>3. \A d \in Conns : In(d, "closed")' =>
          d \notin sessions' /\ (role'[d] = "agent" => agents'[d] = None)
    BY <1>2, <1>5, <2>1 DEF RegistryExact, In
  <2>4. \A d \in Conns : CapsOf(d)' = CapsOf(d)
    BY <2>1 DEF CapsOf
  <2> QED
    BY <2>1, <2>2, <2>3, <2>4 DEF RegistryExact
<1> QED
  BY <1>6, <1>7

\* A step that leaves the registry alone.
LEMMA SameRegistry ==
    ASSUME Listed, RegistryExact, agents' = agents, index' = index, caps' = caps,
           \A d \in Conns :
              /\ at'[d] # None /\ at'[d].step \in Closing /\ role'[d] = "agent" => agents[d] = None
              /\ In(d, "closed")' => d \notin sessions'
    PROVE  Listed' /\ RegistryExact'
<1>1. \A d \in Conns : CapsOf(d)' = CapsOf(d)
  BY DEF CapsOf
<1>2. Listed'
  BY DEF Listed
<1>3. \A d \in Conns : In(d, "closed")' => d \notin sessions' /\ (role'[d] = "agent" => agents'[d] = None)
  BY DEF In, Closing
<1> QED
  BY <1>1, <1>2, <1>3 DEF RegistryExact

\* The steps of calls and results, a change of role and the rest of a close.
LEMMA OtherRegistry ==
    ASSUME Basic, Listed, RegistryExact, NEW c \in Conns,
           \/ RegisterExecutor(c) \/ Disconnect(c) \/ Deliver(c)
           \/ \E id \in CallIds, k \in Caps : CallHit(c, id, k)
           \/ \E id \in CallIds, k \in Caps, t \in Conns \cup {None} : CallMiss(c, id, k, t)
           \/ \E n \in Calls : AgentResult(c, n)
           \/ Route(c) \/ Record(c) \/ Forward(c)
           \/ CheckCaller(c) \/ TakeBuffer(c) \/ AppendAndSend(c)
           \/ CloseArchive(c) \/ CloseSession(c)
    PROVE  Listed' /\ RegistryExact'
<1>1. agents' = agents /\ index' = index /\ caps' = caps
  BY DEF RegisterExecutor, Disconnect, Deliver, CallHit, CallMiss, AgentResult, Route, Record,
         Forward, CheckCaller, TakeBuffer, AppendAndSend, CloseArchive, CloseSession, registry
<1>2. \/ role' = role
      \/ role' = [role EXCEPT ![c] = "executor"]
  BY DEF RegisterExecutor, Disconnect, Deliver, CallHit, CallMiss, AgentResult, Route, Record,
         Forward, CheckCaller, TakeBuffer, AppendAndSend, CloseArchive, CloseSession
<1>3. \A d \in Conns : role'[d] = "agent" => role[d] = "agent"
  BY <1>2 DEF Basic, TypeOK
<1>4. sessions' = sessions \/ (CloseSession(c) /\ sessions' = sessions \ {c})
  BY DEF RegisterExecutor, Disconnect, Deliver, CallHit, CallMiss, AgentResult, Route, Record,
         Forward, CheckCaller, TakeBuffer, AppendAndSend, CloseArchive, CloseSession
<1>5. ASSUME NEW d \in Conns
      PROVE  /\ at'[d] # None /\ at'[d].step \in Closing /\ role'[d] = "agent" => agents[d] = None
             /\ In(d, "closed")' => d \notin sessions'
  <2>1. CASE at' = at
    BY <1>3, <1>4, <2>1 DEF Listed, RegistryExact, In
  <2>2. ASSUME NEW p, at' = [at EXCEPT ![c] = p], p # None => p.step \notin Closing
        PROVE  /\ at'[d] # None /\ at'[d].step \in Closing /\ role'[d] = "agent" => agents[d] = None
               /\ In(d, "closed")' => d \notin sessions'
    <3>1. at'[c] = p /\ \A e \in Conns \ {c} : at'[e] = at[e]
      BY <2>2, GotoFacts DEF Basic
    <3> QED
      BY <1>3, <1>4, <2>2, <3>1 DEF Listed, RegistryExact, In, Closing
  <2>3. CASE \/ \E id \in CallIds, k \in Caps, t \in Conns \cup {None} : CallMiss(c, id, k, t)
             \/ \E n \in Calls : AgentResult(c, n)
             \/ Route(c) \/ Forward(c) \/ AppendAndSend(c)
    <3> DEFINE q(step, n, b) == [step |-> step, call |-> n, peer |-> b]
    <3>1. \/ at' = at
          \/ at' = [at EXCEPT ![c] = None]
          \/ \E step \in {"route", "record", "check"} : \E n, b : at' = [at EXCEPT ![c] = q(step, n, b)]
      BY <2>3 DEF CallMiss, AgentResult, Route, Forward, AppendAndSend, Goto
    <3>2. \A step \in {"route", "record", "check"} : \A n, b : q(step, n, b).step \notin Closing
      BY DEF Closing
    <3> HIDE DEF q
    <3> QED
      BY <2>1, <2>2, <3>1, <3>2
  <2>4. CASE Record(c) \/ CheckCaller(c) \/ TakeBuffer(c)
    <3> DEFINE q(step) == [at[c] EXCEPT !.step = step]
    <3>1. \/ at' = [at EXCEPT ![c] = None]
          \/ \E step \in {"forward", "buffer", "append"} : at' = [at EXCEPT ![c] = q(step)]
      BY <2>4 DEF Record, CheckCaller, TakeBuffer, Goto
    <3>2. at[c] \in Place
      BY <2>4 DEF Record, CheckCaller, TakeBuffer, In, Basic, TypeOK, Place
    <3>3. \A step \in {"forward", "buffer", "append"} : q(step).step \notin Closing
      BY <3>2 DEF Closing, Place
    <3> HIDE DEF q
    <3> QED
      BY <2>2, <3>1, <3>3
  <2>5. CASE CloseArchive(c) \/ CloseSession(c)
    <3> DEFINE q(step) == [at[c] EXCEPT !.step = step]
    <3>1. at[c] # None /\ at[c].step \in Closing
      BY <2>5 DEF CloseArchive, CloseSession, In, Closing
    <3>2. at[c] \in Place
      BY <3>1 DEF Basic, TypeOK, Place
    <3>3. \/ CloseArchive(c) /\ at' = [at EXCEPT ![c] = q("session")]
          \/ CloseSession(c) /\ at' = [at EXCEPT ![c] = q("closed")]
      BY <2>5 DEF CloseArchive, CloseSession, Goto
    <3>4. q("session").step = "session" /\ q("closed").step = "closed"
      BY <3>2 DEF Place
    <3> HIDE DEF q
    <3>5. CASE CloseArchive(c) /\ at' = [at EXCEPT ![c] = q("session")]
      <4>1. at'[c] = q("session") /\ \A e \in Conns \ {c} : at'[e] = at[e]
        BY <3>5, GotoFacts DEF Basic
      <4> QED
        BY <1>3, <1>4, <3>1, <3>4, <4>1 DEF Listed, RegistryExact, In
    <3>6. CASE CloseSession(c) /\ at' = [at EXCEPT ![c] = q("closed")]
      <4>1. at'[c] = q("closed") /\ \A e \in Conns \ {c} : at'[e] = at[e]
        BY <3>6, GotoFacts DEF Basic
      <4>2. sessions' = sessions \ {c}
        BY <3>6 DEF CloseSession
      <4> QED
        BY <1>3, <3>1, <3>4, <4>1, <4>2 DEF Listed, RegistryExact, In
    <3> QED
      BY <3>3, <3>5, <3>6
  <2>6. CASE \/ RegisterExecutor(c) \/ Disconnect(c) \/ Deliver(c)
             \/ \E id \in CallIds, k \in Caps : CallHit(c, id, k)
    BY <2>1, <2>6 DEF RegisterExecutor, Disconnect, Deliver, CallHit
  <2> QED
    BY <2>3, <2>4, <2>5, <2>6
<1> QED
  BY <1>1, <1>5, SameRegistry

\* Every step keeps the index exact.
LEMMA StepRegistry ==
    ASSUME Basic, Listed, RegistryExact, [Next]_vars
    PROVE  Listed' /\ RegistryExact'
<1>1. CASE UNCHANGED vars
  <2>1. agents' = agents /\ index' = index /\ caps' = caps /\ at' = at /\ role' = role
        /\ sessions' = sessions
    BY <1>1 DEF vars, registry
  <2> QED
    BY <2>1, SameRegistry DEF Listed, RegistryExact, In
<1>2. CASE Next
  <2>1. PICK c \in Conns : LoopStep(c) \/ Client(c)
    BY <1>2 DEF Next
  <2> QED
    BY <2>1, RegisterRegistry, CloseRegistry, OtherRegistry DEF LoopStep, Client
<1> QED
  BY <1>1, <1>2

\* The capability index has exactly the registered agents, each once, and no empty list, and a
\* connection that has closed is in neither the session map nor, as an agent, the registry
\* (register_agent, unregister_agent, handleConnectionClosed).
THEOREM IndexIsExact == Spec => []RegistryExact
<1>1. Basic /\ Listed /\ RegistryExact /\ [Next]_vars => Listed' /\ RegistryExact'
  BY StepRegistry
<1> QED
  BY <1>1, InitRegistry, AlwaysBasic, PTL DEF Spec
=============================================================================
