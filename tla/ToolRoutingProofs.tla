-------------------------- MODULE ToolRoutingProofs --------------------------
(***************************************************************************)
(* Proofs about ToolRouting, for any number of connections, tools, calls   *)
(* and results.                                                            *)
(***************************************************************************)
EXTENDS ToolRouting, SequenceLemmas, FiniteSetTheorems

-----------------------------------------------------------------------------
(* The inductive invariant, in parts.                                      *)

\* The handler of c works on call n in one of these steps.
At(c, n, steps) == at[c] # None /\ at[c].step \in steps /\ at[c].call = n

\* Calls are numbered in the order they are made.
Numbered == \E k \in 0..MaxCalls : Made = 1..k

Working == {"record", "forward", "answer"}

\* What refers to a call refers to one that was made, and to its sender.
Known ==
    /\ \A c \in Conns : tasks[c] \subseteq Made
    /\ \A c \in Conns : \A m \in ToSet(mail[c]) \cup ToSet(got[c]) : m.call \in Made
    /\ \A k \in Keys : pending[k] # None => pending[k] \in Made /\ call[pending[k]].key = k
    /\ \A c \in Conns : at[c] # None =>
          /\ at[c].step \in Working => at[c].call \in Made
          /\ at[c].step = "record" => c = call[at[c].call].sender
          /\ at[c].step = "answer" => at[c].peer = call[at[c].call].sender

Basic == TypeOK /\ Numbered /\ Known

\* A connection has no entry left in the registry.
Withdrawn(c) == \A e \in entries : e[2] # c

\* An open connection has its tools offered, one that never registered offers none, and one that
\* is closing as an executor has left the registry before it leaves the pool.
Offered ==
    \A c \in Conns :
        /\ c \in open => tools[c] \X {c} \subseteq entries
        /\ role[c] = "user" => Withdrawn(c) /\ c \notin ToSet(executors)
        /\ In(c, "join") => role[c] = "executor" /\ c \notin closed
        /\ In(c, "leave") => role[c] = "executor" /\ c \notin open \cup closed /\ Withdrawn(c)
        /\ c \in closed /\ role[c] # "agent" => Withdrawn(c) /\ c \notin ToSet(executors)

\* The answers that end call n.
Ends(n) == [type : Final, call : {n}]

Holding == {"record", "answer"}

\* A call is held by one handler, pending, or answered, never two of these, and its answer
\* is in one place, its sender's: as far as c goes.
OneHolder(n, c) ==
    /\ HasAny(mail[c], Ends(n)) \/ HasAny(got[c], Ends(n)) => call[n].sender = c
    /\ AtMostOne(mail[c], Ends(n)) /\ AtMostOne(got[c], Ends(n))
    /\ ~(HasAny(mail[c], Ends(n)) /\ HasAny(got[c], Ends(n)))
    /\ At(c, n, Holding) =>
          /\ pending[call[n].key] # n
          /\ \A d \in Conns : /\ ~HasAny(mail[d], Ends(n)) /\ ~HasAny(got[d], Ends(n))
                              /\ At(d, n, Holding) => d = c
    /\ n \in Made /\ pending[call[n].key] = n =>
          ~HasAny(mail[c], Ends(n)) /\ ~HasAny(got[c], Ends(n))

HeldOnce == \A n \in Calls, c \in Conns : OneHolder(n, c)

\* j is among the places taken from first to last, going round.
Between(j, first, last) ==
    IF first <= last THEN first <= j /\ j <= last ELSE first <= j \/ j <= last

\* The members of the pool used last were taken in a round that began somewhere: those from
\* there to the index once more than the others.
Round ==
    /\ share \in [pool : Seq(Conns), taken : [Conns -> Nat]]
    /\ IsInjective(share.pool) /\ share.pool # <<>> =>
          /\ rr \in 0..(Len(share.pool) - 1)
          /\ \E first \in 0..(Len(share.pool) - 1), q \in Nat :
                \A j \in 0..(Len(share.pool) - 1) :
                    share.taken[share.pool[j + 1]] = IF Between(j, first, rr) THEN q + 1 ELSE q

-----------------------------------------------------------------------------
(* The operators of the model.                                             *)

Msg == [type : Answer \cup {"call"}, call : Calls]

\* None is no call, no connection, no record of a call and no place.
LEMMA NoneIsNothing ==
    /\ \A n \in Calls : n # None
    /\ \A c \in Conns : c # None
    /\ \A r \in CallRecords : r # None
    /\ \A p \in Places : p # None
  BY NoneAssumption

\* The places of a registration, of a close and of a call.
LEMMA PlaceTypes ==
    /\ \A step \in {"join", "leave"} : Place(step, None, None) \in Places
    /\ \A step \in Working, n \in Calls, c \in Conns : Place(step, n, c) \in Places
    /\ \A step, n, c : /\ Place(step, n, c).step = step /\ Place(step, n, c).call = n
                       /\ Place(step, n, c).peer = c
  BY DEF Place, Places, Working

\* The handler of c goes to another place, the others stay.
LEMMA GotoFacts ==
    ASSUME TypeOK, NEW c \in Conns, NEW p \in Places \cup {None}, Goto(c, p)
    PROVE  /\ at' \in [Conns -> Places \cup {None}]
           /\ at'[c] = p
           /\ \A d \in Conns \ {c} : at'[d] = at[d]
  BY DEF TypeOK, Goto

\* The place of a handler that works on a call.
LEMMA PlaceFacts ==
    ASSUME Basic, NEW c \in Conns, NEW step \in Working, In(c, step)
    PROVE  /\ at[c] \in Places /\ at[c].step = step /\ at[c] # None
           /\ at[c].call \in Made /\ at[c].call \in Calls /\ at[c].peer \in Conns
           /\ call[at[c].call] \in CallRecords
           /\ step = "record" => c = call[at[c].call].sender
           /\ step = "answer" => at[c].peer = call[at[c].call].sender
<1>1. at[c] # None /\ at[c].step = step
  BY DEF In
<1>2. at[c] \in Places
  BY <1>1 DEF Basic, TypeOK
<1>3. at[c].call \in Calls /\ at[c].peer \in Conns
  BY <1>1, <1>2 DEF Places, Working
<1>4. at[c].call \in Made
  BY <1>1 DEF Basic, Known
<1>5. call[at[c].call] \in CallRecords
  BY <1>4 DEF Made, Basic, TypeOK
<1> QED
  BY <1>1, <1>2, <1>3, <1>4, <1>5 DEF Basic, Known

\* Messages that are posted.
LEMMA PostFacts ==
    ASSUME TypeOK, NEW c \in Conns, NEW m \in Msg, Post(c, m)
    PROVE  /\ mail' \in [Conns -> Seq(Msg)]
           /\ mail'[c] = Append(mail[c], m)
           /\ \A d \in Conns \ {c} : mail'[d] = mail[d]
           /\ \A d \in Conns : ToSet(mail'[d]) \subseteq ToSet(mail[d]) \cup {m}
<1>1. mail \in [Conns -> Seq(Msg)]
  BY DEF TypeOK, Msg
<1>2. Append(mail[c], m) \in Seq(Msg) /\ ToSet(Append(mail[c], m)) = ToSet(mail[c]) \cup {m}
  BY <1>1, AppendAt, ToSetAppend
<1> QED
  BY <1>1, <1>2 DEF Post

\* What a connection is told at once.
LEMMA TellFacts ==
    ASSUME TypeOK, NEW c \in Conns, NEW m \in [type : Answer, call : Calls], Tell(c, m)
    PROVE  /\ got' \in [Conns -> Seq([type : Answer, call : Calls])]
           /\ got'[c] = Append(got[c], m)
           /\ \A d \in Conns \ {c} : got'[d] = got[d]
           /\ \A d \in Conns : ToSet(got'[d]) \subseteq ToSet(got[d]) \cup {m}
<1> DEFINE Ans == [type : Answer, call : Calls]
<1>1. got \in [Conns -> Seq(Ans)] /\ m \in Ans
  BY DEF TypeOK
<1> HIDE DEF Ans
<1>2. Append(got[c], m) \in Seq(Ans) /\ ToSet(Append(got[c], m)) = ToSet(got[c]) \cup {m}
  BY <1>1, AppendAt, ToSetAppend
<1>3. /\ got' \in [Conns -> Seq(Ans)]
      /\ got'[c] = Append(got[c], m)
      /\ \A d \in Conns \ {c} : got'[d] = got[d]
      /\ \A d \in Conns : ToSet(got'[d]) \subseteq ToSet(got[d]) \cup {m}
  BY <1>1, <1>2 DEF Tell
<1> QED
  BY <1>3 DEF Ans

\* The executors that a call may go to.
LEMMA PoolFacts ==
    ASSUME TypeOK, NEW t
    PROVE  /\ Connected \in Seq(Conns) /\ ToSet(Connected) = ToSet(executors) \cap open
           /\ Pool(t) \in Seq(Conns)
<1>1. Connected \in Seq(Conns) /\ ToSet(Connected) = ToSet(executors) \cap open
  BY KeepFacts DEF TypeOK, Connected
<1>2. Keep(Connected, {c \in Conns : t \in tools[c]}) \in Seq(Conns)
  BY <1>1, KeepFacts
<1> QED
  BY <1>1, <1>2 DEF Pool

\* The next index is one of the pool: the one after the last, going round.
LEMMA NextIndexFacts ==
    ASSUME rr \in Nat, NEW pool \in Seq(Conns), pool # <<>>
    PROVE  /\ NextIndex(pool) \in 0..(Len(pool) - 1)
           /\ Len(pool) \in Nat \ {0}
           /\ pool[NextIndex(pool) + 1] \in Conns
           /\ rr \in 0..(Len(pool) - 1) =>
                 NextIndex(pool) = IF rr = Len(pool) - 1 THEN 0 ELSE rr + 1
<1>1. Len(pool) \in Nat /\ Len(pool) # 0
  BY EmptySeq, LenProperties
<1> DEFINE n == Len(pool)
<1> HIDE DEF n
<1>2. n \in Nat \ {0}
  BY <1>1 DEF n
<1>3. (rr + 1) % n \in 0..(n - 1)
  BY <1>2
<1>4. ASSUME rr \in 0..(n - 1) PROVE (rr + 1) % n = IF rr = n - 1 THEN 0 ELSE rr + 1
  <2>1. CASE rr = n - 1
    <3>1. rr + 1 = n /\ n % n = 0
      BY <1>2, <2>1
    <3> QED
      BY <2>1, <3>1
  <2>2. CASE rr # n - 1
    <3>1. rr + 1 \in Nat /\ rr + 1 < n
      BY <1>2, <1>4, <2>2
    <3>2. \A k \in Nat : k < n => k % n = k
      BY <1>2
    <3> QED
      BY <2>2, <3>1, <3>2
  <2> QED
    BY <2>1, <2>2
<1>5. NextIndex(pool) = (rr + 1) % n
  BY DEF NextIndex, n
<1>6. NextIndex(pool) + 1 \in 1..Len(pool)
  BY <1>2, <1>3, <1>5 DEF n
<1>7. pool[NextIndex(pool) + 1] \in Conns
  BY <1>6, ElementOfSeq
<1> QED
  BY <1>2, <1>3, <1>4, <1>5, <1>7 DEF n

\* The number of the next call.
Number == Cardinality(Made) + 1

\* A new call takes the next number, and its record is the only one that changes.
LEMMA NewCallFacts ==
    ASSUME Basic, NEW c \in Conns, NEW k \in Keys, NEW t \in Tools, ToolCall(c, k, t)
    PROVE  /\ Number \in Calls
           /\ call'[Number] = [sender |-> c, key |-> k, tool |-> t]
           /\ \A i \in Calls \ {Number} : call'[i] = call[i]
           /\ \A i \in Made : call'[i] = call[i]
           /\ call' \in [Calls -> CallRecords \cup {None}]
           /\ Numbered' /\ Made' = Made \cup {Number} /\ Number \notin Made
           /\ UniqueKeys => \A m \in Made : call[m].key # k
<1>1. PICK n \in 0..MaxCalls : Made = 1..n
  BY DEF Basic, Numbered
<1>2. Cardinality(Made) = n /\ MaxCalls \in Nat
  BY <1>1, FS_Interval, BoundAssumption
<1>3. /\ n + 1 <= MaxCalls /\ (UniqueKeys => \A m \in 1..n : call[m].key # k)
      /\ call' = [call EXCEPT ![n + 1] = [sender |-> c, key |-> k, tool |-> t]]
  BY <1>2 DEF ToolCall
<1>4. n + 1 \in Calls /\ n + 1 \notin Made /\ Number = n + 1
  BY <1>1, <1>2, <1>3 DEF Calls, Number
<1>5. [sender |-> c, key |-> k, tool |-> t] \in CallRecords
  BY DEF CallRecords
<1>6. call \in [Calls -> CallRecords \cup {None}]
  BY DEF Basic, TypeOK
<1>7. /\ call' \in [Calls -> CallRecords \cup {None}]
      /\ call'[n + 1] = [sender |-> c, key |-> k, tool |-> t]
      /\ \A m \in Calls \ {n + 1} : call'[m] = call[m]
  BY <1>3, <1>4, <1>5, <1>6
<1>8. call'[n + 1] # None
  BY <1>5, <1>7, NoneIsNothing
<1>9. Made' = Made \cup {n + 1}
  BY <1>4, <1>7, <1>8 DEF Made
<1>10. Made' = 1..(n + 1) /\ n + 1 \in 0..MaxCalls
  BY <1>1, <1>2, <1>3, <1>9
<1>11. Numbered'
  BY <1>10 DEF Numbered
<1>12. \A i \in Made : i \in Calls \ {n + 1}
  BY <1>4 DEF Made
<1> QED
  BY <1>1, <1>3, <1>4, <1>7, <1>9, <1>11, <1>12

-----------------------------------------------------------------------------
(* Types, and what refers to a call.                                       *)

\* The initial state.
LEMMA InitBasic == Init => Basic
<1> SUFFICES ASSUME Init PROVE Basic
  OBVIOUS
<1>1. TypeOK
  BY DEF Init, TypeOK
<1>2. Numbered
  <2>1. Made = 1..0 /\ 0 \in 0..MaxCalls
    BY BoundAssumption DEF Init, Made
  <2> QED
    BY <2>1 DEF Numbered
<1>3. Known
  BY DEF Init, Known, ToSet
<1> QED
  BY <1>1, <1>2, <1>3 DEF Basic

\* register, the first half
LEMMA RegisterBasic ==
    ASSUME Basic, NEW c \in Conns, NEW new \in SUBSET Tools, Register(c, new)
    PROVE  Basic'
<1> DEFINE p == Place("join", None, None)
<1>1. p \in Places /\ p.step = "join"
  BY PlaceTypes
<1>2. Goto(c, p)
  BY DEF Register
<1> HIDE DEF p
<1>3. /\ at' \in [Conns -> Places \cup {None}] /\ at'[c] = p
      /\ \A d \in Conns \ {c} : at'[d] = at[d]
  BY <1>1, <1>2, GotoFacts DEF Basic
<1>4. TypeOK'
  <2>1. entries' \subseteq Tools \X Conns
    BY DEF Basic, TypeOK, Register, Added
  <2> QED
    BY <1>3, <2>1 DEF Basic, TypeOK, Register
<1>5. Numbered' /\ Made' = Made
  BY DEF Register, Basic, Numbered, Made
<1>6. Known'
  BY <1>1, <1>3, <1>5 DEF Basic, Known, Register, Working
<1> QED
  BY <1>4, <1>5, <1>6 DEF Basic

\* register, the second half
LEMMA JoinBasic ==
    ASSUME Basic, NEW c \in Conns, Join(c)
    PROVE  Basic'
<1>1. /\ at' \in [Conns -> Places \cup {None}] /\ at'[c] = None
      /\ \A d \in Conns \ {c} : at'[d] = at[d]
  BY GotoFacts DEF Join, Basic
<1>2. executors' \in Seq(Conns)
  BY AppendAt DEF Join, Basic, TypeOK
<1>3. TypeOK'
  BY <1>1, <1>2 DEF Basic, TypeOK, Join, config
<1>4. Numbered' /\ Made' = Made
  BY DEF Join, Basic, Numbered, Made
<1>5. Known'
  BY <1>1, <1>4 DEF Basic, Known, Join
<1> QED
  BY <1>3, <1>4, <1>5 DEF Basic

\* Steps that change neither calls nor handlers.
LEMMA ConnectionBasic ==
    ASSUME Basic, NEW c \in Conns, RegisterAgent(c) \/ Disconnect(c)
    PROVE  Basic'
<1>1. TypeOK'
  BY DEF Basic, TypeOK, RegisterAgent, Disconnect
<1>2. Numbered' /\ Made' = Made
  BY DEF RegisterAgent, Disconnect, Basic, Numbered, Made
<1>3. Known'
  BY <1>2 DEF Basic, Known, RegisterAgent, Disconnect
<1> QED
  BY <1>1, <1>2, <1>3 DEF Basic

\* A new call is answered at once, or goes to the member of the pool whose turn it is.
LEMMA ToolCallBasic ==
    ASSUME Basic, NEW c \in Conns, NEW k \in Keys, NEW t \in Tools, ToolCall(c, k, t)
    PROVE  Basic'
<1> DEFINE n == Number
           m == Mail("no_executor", n)
           e == Pool(t)[NextIndex(Pool(t)) + 1]
           p == Place("record", n, e)
<1>1. /\ n \in Calls /\ n \notin Made /\ Made' = Made \cup {n} /\ Numbered'
      /\ call' \in [Calls -> CallRecords \cup {None}] /\ \A i \in Made : call'[i] = call[i]
      /\ call'[n].sender = c
  <2>1. call'[n] = [sender |-> c, key |-> k, tool |-> t]
    BY NewCallFacts
  <2>2. call'[n].sender = c
    BY <2>1
  <2> QED
    BY <2>2, NewCallFacts
<1>2. /\ executors' = Connected
      /\ IF Pool(t) = <<>>
         THEN Post(c, m) /\ UNCHANGED <<rr, at, share>>
         ELSE rr' = NextIndex(Pool(t)) /\ Goto(c, p) /\ UNCHANGED mail
  BY DEF ToolCall, Number
<1>3. /\ UNCHANGED <<open, closed, role, tools, entries>>
      /\ UNCHANGED <<pending, tasks, got, answers, registered>>
  BY DEF ToolCall, config
<1>4. executors' \in Seq(Conns)
  BY <1>2, PoolFacts DEF Basic
<1> HIDE DEF n, e
<1>5. CASE Pool(t) = <<>>
  <2>1. m \in Msg /\ m.call = n
    BY <1>1 DEF Mail, Msg, Answer
  <2> HIDE DEF m
  <2>2. /\ mail' \in [Conns -> Seq(Msg)]
        /\ \A d \in Conns : ToSet(mail'[d]) \subseteq ToSet(mail[d]) \cup {m}
    BY <1>2, <1>5, <2>1, PostFacts DEF Basic
  <2>3. TypeOK'
    BY <1>1, <1>2, <1>3, <1>4, <1>5, <2>2 DEF Basic, TypeOK, Msg
  <2>4. Known'
    <3>1. at' = at
      BY <1>2, <1>5
    <3>2. \A d \in Conns : at'[d] # None =>
             /\ at'[d].step \in Working => at'[d].call \in Made'
             /\ at'[d].step = "record" => d = call'[at'[d].call].sender
             /\ at'[d].step = "answer" => at'[d].peer = call'[at'[d].call].sender
      BY <1>1, <3>1 DEF Basic, Known, Working
    <3>3. /\ \A d \in Conns : tasks'[d] \subseteq Made'
          /\ \A d \in Conns : \A x \in ToSet(mail'[d]) \cup ToSet(got'[d]) : x.call \in Made'
      BY <1>1, <1>3, <2>1, <2>2 DEF Basic, Known
    <3>4. \A j \in Keys : pending'[j] # None => pending'[j] \in Made' /\ call'[pending'[j]].key = j
      BY <1>1, <1>3 DEF Basic, Known
    <3> QED
      BY <3>2, <3>3, <3>4 DEF Known
  <2> QED
    BY <1>1, <2>3, <2>4 DEF Basic
<1>6. CASE Pool(t) # <<>>
  <2>1. e \in Conns /\ NextIndex(Pool(t)) \in Nat
    <3>1. Pool(t) \in Seq(Conns) /\ rr \in Nat
      BY PoolFacts DEF Basic, TypeOK
    <3> QED
      BY <1>6, <3>1, NextIndexFacts DEF e
  <2>2. p \in Places /\ p.step = "record" /\ p.call = n
    BY <1>1, <2>1, PlaceTypes DEF Working
  <2> HIDE DEF p
  <2>3. /\ at' \in [Conns -> Places \cup {None}] /\ at'[c] = p
        /\ \A d \in Conns \ {c} : at'[d] = at[d]
    BY <1>2, <1>6, <2>2, GotoFacts DEF Basic
  <2>4. TypeOK'
    BY <1>1, <1>2, <1>3, <1>4, <1>6, <2>1, <2>3 DEF Basic, TypeOK
  <2>5. Known'
    <3>1. \A d \in Conns : at'[d] # None =>
             /\ at'[d].step \in Working => at'[d].call \in Made'
             /\ at'[d].step = "record" => d = call'[at'[d].call].sender
             /\ at'[d].step = "answer" => at'[d].peer = call'[at'[d].call].sender
      BY <1>1, <2>2, <2>3 DEF Basic, Known, Working
    <3> QED
      BY <1>1, <1>2, <1>3, <1>6, <3>1 DEF Basic, Known
  <2> QED
    BY <1>1, <2>4, <2>5 DEF Basic
<1> QED
  BY <1>5, <1>6

\* The call is recorded as pending.
LEMMA RecordBasic ==
    ASSUME Basic, NEW c \in Conns, Record(c)
    PROVE  Basic'
<1> DEFINE n == at[c].call
           p == [at[c] EXCEPT !.step = "forward"]
<1>1. /\ at[c] \in Places /\ at[c].peer \in Conns /\ at[c] # None /\ at[c].step = "record"
      /\ n \in Made /\ n \in Calls /\ call[n] \in CallRecords
  BY PlaceFacts DEF Record, Working
<1>2. p \in Places /\ p.call = n /\ p.step = "forward"
  BY <1>1 DEF Places
<1>3. Goto(c, p) /\ pending' = [pending EXCEPT ![call[n].key] = n]
  BY DEF Record
<1>4. Numbered' /\ Made' = Made
  BY DEF Record, Basic, Numbered, Made
<1> HIDE DEF p, n
<1>5. /\ at' \in [Conns -> Places \cup {None}] /\ at'[c] = p
      /\ \A d \in Conns \ {c} : at'[d] = at[d]
  BY <1>2, <1>3, GotoFacts DEF Basic
<1>6. /\ pending' \in [Keys -> Calls \cup {None}]
      /\ \A k \in Keys : pending'[k] # None => pending'[k] \in Made /\ call[pending'[k]].key = k
  BY <1>1, <1>3 DEF Basic, TypeOK, CallRecords, Known
<1>7. TypeOK'
  BY <1>5, <1>6 DEF Basic, TypeOK, Record, config
<1>8. Known'
  BY <1>1, <1>2, <1>4, <1>5, <1>6 DEF Basic, Known, Record, Working
<1> QED
  BY <1>4, <1>7, <1>8 DEF Basic

\* The call is sent to the executor.
LEMMA ForwardBasic ==
    ASSUME Basic, NEW c \in Conns, Forward(c)
    PROVE  Basic'
<1> DEFINE n == at[c].call
           m == Mail("call", n)
<1>1. at[c].peer \in Conns /\ n \in Made /\ n \in Calls
  BY PlaceFacts DEF Forward, Working
<1>2. m \in Msg /\ m.call = n
  BY <1>1 DEF Mail, Msg
<1>3. Post(at[c].peer, m) /\ Goto(c, None)
  BY DEF Forward
<1> HIDE DEF m, n
<1>4. /\ mail' \in [Conns -> Seq(Msg)]
      /\ \A d \in Conns : ToSet(mail'[d]) \subseteq ToSet(mail[d]) \cup {m}
  BY <1>1, <1>2, <1>3, PostFacts DEF Basic
<1>5. /\ at' \in [Conns -> Places \cup {None}] /\ at'[c] = None
      /\ \A d \in Conns \ {c} : at'[d] = at[d]
  BY <1>3, GotoFacts DEF Basic
<1>6. Numbered' /\ Made' = Made
  BY DEF Forward, Basic, Numbered, Made
<1>7. TypeOK'
  BY <1>4, <1>5 DEF Basic, TypeOK, Forward, config, Msg
<1>8. Known'
  BY <1>1, <1>2, <1>4, <1>5, <1>6 DEF Basic, Known, Forward
<1> QED
  BY <1>6, <1>7, <1>8 DEF Basic

\* A result takes a call out of the map, or the executor is told that there is none.
LEMMA ToolResultBasic ==
    ASSUME Basic, NEW c \in Conns, NEW n \in Calls, ToolResult(c, n)
    PROVE  Basic'
<1> DEFINE k == call[n].key
           r == pending[k]
<1>1. n \in Made /\ call[n] \in CallRecords /\ k \in Keys
  <2>1. n \in Made
    BY DEF ToolResult, MayAnswer
  <2> QED
    BY <2>1 DEF Basic, TypeOK, Made, CallRecords
<1>2. Numbered' /\ Made' = Made
  BY DEF ToolResult, Basic, Numbered, Made
<1>3. UNCHANGED config /\ UNCHANGED <<executors, rr, call, mail, tasks, registered, share>>
  BY DEF ToolResult
<1>4. CASE r = None
  <2> DEFINE m == Mail("no_pending", n)
  <2>1. Tell(c, m) /\ UNCHANGED <<pending, at>>
    BY <1>4 DEF ToolResult
  <2>2. m \in [type : Answer, call : Calls] /\ m.call = n
    BY DEF Mail, Answer
  <2> HIDE DEF m
  <2>3. /\ got' \in [Conns -> Seq([type : Answer, call : Calls])]
        /\ \A d \in Conns : ToSet(got'[d]) \subseteq ToSet(got[d]) \cup {m}
    BY <2>1, <2>2, TellFacts DEF Basic
  <2>4. TypeOK'
    BY <1>3, <2>1, <2>3 DEF Basic, TypeOK, config
  <2>5. Known'
    BY <1>1, <1>2, <1>3, <2>1, <2>2, <2>3 DEF Basic, Known
  <2> QED
    BY <1>2, <2>4, <2>5 DEF Basic
<1>5. CASE r # None
  <2> DEFINE p == Place("answer", r, call[r].sender)
  <2>1. pending' = [pending EXCEPT ![k] = None] /\ Goto(c, p) /\ UNCHANGED got
    BY <1>5 DEF ToolResult
  <2>2. r \in Made /\ r \in Calls
    BY <1>1, <1>5 DEF Basic, Known, Made
  <2>3. call[r].sender \in Conns
    BY <2>2 DEF Basic, TypeOK, Made, CallRecords
  <2>4. p \in Places /\ p.step = "answer" /\ p.call = r /\ p.peer = call[r].sender
    BY <2>2, <2>3, PlaceTypes DEF Working
  <2> HIDE DEF p, r, k
  <2>5. /\ at' \in [Conns -> Places \cup {None}] /\ at'[c] = p
        /\ \A d \in Conns \ {c} : at'[d] = at[d]
    BY <2>1, <2>4, GotoFacts DEF Basic
  <2>6. /\ pending' \in [Keys -> Calls \cup {None}]
        /\ \A j \in Keys : pending'[j] # None => pending'[j] \in Made /\ call[pending'[j]].key = j
    BY <1>1, <2>1 DEF Basic, TypeOK, Known
  <2>7. TypeOK'
    BY <1>3, <2>1, <2>5, <2>6 DEF Basic, TypeOK, config
  <2>8. Known'
    BY <1>2, <1>3, <2>1, <2>2, <2>4, <2>5, <2>6 DEF Basic, Known
  <2> QED
    BY <1>2, <2>7, <2>8 DEF Basic
<1> QED
  BY <1>4, <1>5

\* The result is sent to the client, or the executor is told that the client is gone.
LEMMA AnswerClientBasic ==
    ASSUME Basic, NEW c \in Conns, AnswerClient(c)
    PROVE  Basic'
<1> DEFINE n == at[c].call
           b == at[c].peer
<1>1. b \in Conns /\ n \in Made /\ n \in Calls
  BY PlaceFacts DEF AnswerClient, Working
<1>2. Goto(c, None) /\ UNCHANGED config
      /\ UNCHANGED <<executors, rr, pending, call, tasks, answers, registered, share>>
  BY DEF AnswerClient
<1>3. \/ Post(b, Mail("result", n)) /\ UNCHANGED got
      \/ Tell(c, Mail("client_gone", n)) /\ UNCHANGED mail
  BY DEF AnswerClient
<1>4. /\ Mail("result", n) \in Msg /\ Mail("result", n).call = n
      /\ Mail("client_gone", n) \in [type : Answer, call : Calls] /\ Mail("client_gone", n).call = n
  BY <1>1 DEF Mail, Msg, Answer
<1> HIDE DEF n, b
<1>5. /\ mail' \in [Conns -> Seq(Msg)]
      /\ \A d \in Conns : ToSet(mail'[d]) \subseteq ToSet(mail[d]) \cup {Mail("result", n)}
  <2>1. CASE Post(b, Mail("result", n))
    BY <1>1, <1>4, <2>1, PostFacts DEF Basic
  <2>2. CASE mail' = mail
    BY <2>2 DEF Basic, TypeOK, Msg
  <2> QED
    BY <1>3, <2>1, <2>2
<1>6. /\ got' \in [Conns -> Seq([type : Answer, call : Calls])]
      /\ \A d \in Conns : ToSet(got'[d]) \subseteq ToSet(got[d]) \cup {Mail("client_gone", n)}
  <2>1. CASE Tell(c, Mail("client_gone", n))
    BY <1>1, <1>4, <2>1, TellFacts DEF Basic
  <2>2. CASE got' = got
    BY <2>2 DEF Basic, TypeOK
  <2> QED
    BY <1>3, <2>1, <2>2
<1>7. /\ at' \in [Conns -> Places \cup {None}] /\ at'[c] = None
      /\ \A d \in Conns \ {c} : at'[d] = at[d]
  BY <1>2, GotoFacts DEF Basic
<1>8. Numbered' /\ Made' = Made
  BY <1>2 DEF Basic, Numbered, Made
<1>9. TypeOK'
  BY <1>2, <1>5, <1>6, <1>7 DEF Basic, TypeOK, config, Msg
<1>10. Known'
  <2>1. \A d \in Conns : \A x \in ToSet(mail'[d]) \cup ToSet(got'[d]) : x.call \in Made'
    BY <1>1, <1>4, <1>5, <1>6, <1>8 DEF Basic, Known
  <2> QED
    BY <1>2, <1>7, <1>8, <2>1 DEF Basic, Known
<1> QED
  BY <1>8, <1>9, <1>10 DEF Basic

\* A message reaches c, or is lost.
LEMMA DeliverBasic ==
    ASSUME Basic, NEW c \in Conns, Deliver(c)
    PROVE  Basic'
<1> DEFINE m == Head(mail[c])
           Ans == [type : Answer, call : Calls]
<1>1. mail[c] \in Seq(Msg) /\ mail[c] # <<>>
  BY DEF Deliver, Basic, TypeOK, Msg
<1>2. m \in Msg /\ ToSet(mail[c]) = {m} \cup ToSet(Tail(mail[c])) /\ Tail(mail[c]) \in Seq(Msg)
  BY <1>1, TailAt, ToSetTail
<1>3. m.call \in Made
  BY <1>2 DEF Basic, Known
<1>4. /\ mail' \in [Conns -> Seq(Msg)]
      /\ \A d \in Conns : ToSet(mail'[d]) \subseteq ToSet(mail[d])
  BY <1>2 DEF Deliver, Basic, TypeOK, Msg
<1>5. \/ UNCHANGED <<tasks, got>>
      \/ m.type = "call" /\ tasks' = [tasks EXCEPT ![c] = @ \cup {m.call}] /\ UNCHANGED got
      \/ m.type # "call" /\ Tell(c, m) /\ UNCHANGED tasks
  BY DEF Deliver
<1> HIDE DEF m
<1>6. /\ got' \in [Conns -> Seq(Ans)]
      /\ \A d \in Conns : ToSet(got'[d]) \subseteq ToSet(got[d]) \cup {m}
  <2>1. CASE got' = got
    BY <2>1 DEF Basic, TypeOK
  <2>2. CASE m.type # "call" /\ Tell(c, m)
    <3>1. m \in Ans
      BY <1>2, <2>2 DEF Msg
    <3> QED
      BY <2>2, <3>1, TellFacts DEF Basic
  <2> QED
    BY <1>5, <2>1, <2>2
<1>7. /\ tasks' \in [Conns -> SUBSET Calls]
      /\ \A d \in Conns : tasks'[d] \subseteq tasks[d] \cup {m.call}
  <2>1. tasks \in [Conns -> SUBSET Calls] /\ m.call \in Calls
    BY <1>2 DEF Basic, TypeOK, Msg
  <2> QED
    BY <1>5, <2>1
<1>8. /\ Numbered' /\ Made' = Made
      /\ call' = call /\ pending' = pending /\ at' = at
  BY DEF Deliver, Basic, Numbered, Made
<1>9. TypeOK'
  BY <1>4, <1>6, <1>7 DEF Basic, TypeOK, Deliver, config, Msg
<1>10. Known'
  BY <1>3, <1>4, <1>6, <1>7, <1>8 DEF Basic, Known
<1> QED
  BY <1>8, <1>9, <1>10 DEF Basic

\* handleConnectionClosed: the registry, then the pool
LEMMA CloseBasic ==
    ASSUME Basic, NEW c \in Conns, Close(c)
    PROVE  Basic'
<1> DEFINE p == Place("leave", None, None)
<1>1. \/ Goto(c, p) /\ UNCHANGED closed
      \/ UNCHANGED at /\ closed' = closed \cup {c}
  BY DEF Close
<1>2. p \in Places /\ p.step = "leave"
  BY PlaceTypes
<1> HIDE DEF p
<1>3. /\ at' \in [Conns -> Places \cup {None}] /\ at'[c] \in {at[c], p}
      /\ \A d \in Conns \ {c} : at'[d] = at[d]
  <2>1. CASE Goto(c, p)
    BY <1>2, <2>1, GotoFacts DEF Basic
  <2>2. CASE at' = at
    BY <2>2 DEF Basic, TypeOK
  <2> QED
    BY <1>1, <2>1, <2>2
<1>4. entries' \subseteq Tools \X Conns
  BY DEF Basic, TypeOK, Close, Without
<1>5. closed' \subseteq Conns \ open
  BY <1>1 DEF Basic, TypeOK, Close
<1>6. TypeOK'
  BY <1>3, <1>4, <1>5 DEF Basic, TypeOK, Close
<1>7. Numbered' /\ Made' = Made
  BY DEF Close, Basic, Numbered, Made
<1>8. Known'
  BY <1>2, <1>3, <1>7 DEF Basic, Known, Close, Working
<1> QED
  BY <1>6, <1>7, <1>8 DEF Basic

\* The connection leaves the pool.
LEMMA LeaveBasic ==
    ASSUME Basic, Offered, NEW c \in Conns, Leave(c)
    PROVE  Basic'
<1>1. /\ at' \in [Conns -> Places \cup {None}] /\ at'[c] = None
      /\ \A d \in Conns \ {c} : at'[d] = at[d]
  BY GotoFacts DEF Leave, Basic
<1>2. executors' \in Seq(Conns)
  BY KeepFacts DEF Leave, Basic, TypeOK
<1>3. closed' \subseteq Conns \ open
  BY DEF Leave, Offered, Basic, TypeOK
<1>4. TypeOK'
  BY <1>1, <1>2, <1>3 DEF Basic, TypeOK, Leave
<1>5. Numbered' /\ Made' = Made
  BY DEF Leave, Basic, Numbered, Made
<1>6. Known'
  BY <1>1, <1>5 DEF Basic, Known, Leave
<1> QED
  BY <1>4, <1>5, <1>6 DEF Basic

\* Every step keeps the types and the references.
LEMMA StepBasic == Basic /\ Offered /\ [Next]_vars => Basic'
<1> SUFFICES ASSUME Basic, Offered, [Next]_vars PROVE Basic'
  OBVIOUS
<1>1. CASE UNCHANGED vars
  <2>1. TypeOK'
    BY <1>1 DEF Basic, TypeOK, vars, config
  <2>2. Numbered' /\ Known'
    BY <1>1 DEF Basic, Numbered, Made, Known, vars, config
  <2> QED
    BY <2>1, <2>2 DEF Basic
<1>2. CASE Next
  <2>1. PICK c \in Conns : Handler(c)
    BY <1>2 DEF Next
  <2> QED
    BY <2>1, RegisterBasic, JoinBasic, ConnectionBasic, ToolCallBasic, RecordBasic, ForwardBasic,
       ToolResultBasic, AnswerClientBasic, DeliverBasic, CloseBasic, LeaveBasic
       DEF Handler
<1> QED
  BY <1>1, <1>2

-----------------------------------------------------------------------------
(* The tools that are offered.                                             *)

\* Initially nothing is offered.
LEMMA InitOffered == Init => Offered
  BY DEF Init, Offered, In, Withdrawn, ToSet

\* register, the first half
LEMMA RegisterOffered ==
    ASSUME Basic, Offered, NEW c \in Conns, NEW new \in SUBSET Tools, Register(c, new)
    PROVE  Offered'
<1>1. /\ c \in open /\ c \notin closed /\ at[c] = None
      /\ role' = [role EXCEPT ![c] = "executor"]
      /\ tools' = [tools EXCEPT ![c] = @ \cup new]
      /\ entries' = entries \cup (new \X {c})
      /\ UNCHANGED <<open, closed, executors>>
  BY DEF Register, Idle, Added, Basic, TypeOK
<1>2. at' = [at EXCEPT ![c] = Place("join", None, None)]
  BY DEF Register, Goto
<1>3. Place("join", None, None).step = "join"
  BY PlaceTypes
<1>4. ASSUME NEW d \in Conns, d # c
      PROVE  /\ role'[d] = role[d] /\ tools'[d] = tools[d] /\ at'[d] = at[d]
             /\ Withdrawn(d)' <=> Withdrawn(d)
  BY <1>1, <1>2, <1>4 DEF Basic, TypeOK, Withdrawn
<1>5. role'[c] = "executor" /\ tools'[c] = tools[c] \cup new /\ at'[c].step = "join"
  BY <1>1, <1>2, <1>3 DEF Basic, TypeOK
<1>6. tools'[c] \X {c} \subseteq entries'
  BY <1>1, <1>5 DEF Offered
<1> QED
  BY <1>1, <1>4, <1>5, <1>6 DEF Offered, In

\* register, the second half
LEMMA JoinOffered ==
    ASSUME Basic, Offered, NEW c \in Conns, Join(c)
    PROVE  Offered'
<1>1. /\ In(c, "join") /\ executors' = Append(executors, c)
      /\ UNCHANGED <<open, closed, role, tools, entries>>
  BY DEF Join, config
<1>2. ToSet(executors') = ToSet(executors) \cup {c}
  BY <1>1, ToSetAppend DEF Basic, TypeOK
<1>3. at'[c] = None /\ \A d \in Conns \ {c} : at'[d] = at[d]
  BY GotoFacts DEF Join, Basic
<1>4. role[c] = "executor" /\ c \notin closed
  BY <1>1 DEF Offered
<1> QED
  BY <1>1, <1>2, <1>3, <1>4 DEF Offered, In, Withdrawn

\* Calls only take connections that are gone out of the pool.
LEMMA ToolCallOffered ==
    ASSUME Basic, Offered, NEW c \in Conns, NEW k \in Keys, NEW t \in Tools, ToolCall(c, k, t)
    PROVE  Offered'
<1>1. UNCHANGED <<open, closed, role, tools, entries>> /\ executors' = Connected
  BY DEF ToolCall, config
<1>2. ToSet(executors') \subseteq ToSet(executors)
  BY <1>1, PoolFacts DEF Basic
<1>3. \A d \in Conns : \A step \in {"join", "leave"} : In(d, step)' => In(d, step)
  <2>1. CASE at' = at
    BY <2>1 DEF In
  <2>2. CASE at' # at
    <3>1. PICK n, e : at' = [at EXCEPT ![c] = Place("record", n, e)]
      BY <2>2 DEF ToolCall, Goto
    <3>2. Place("record", n, e).step = "record"
      BY DEF Place
    <3> QED
      BY <3>1, <3>2 DEF In, Basic, TypeOK
  <2> QED
    BY <2>1, <2>2
<1> QED
  BY <1>1, <1>2, <1>3 DEF Offered, Withdrawn

\* Steps that change neither the registry nor the pool, nor begin a registration or a close.
LEMMA CallOffered ==
    ASSUME Basic, Offered, NEW c \in Conns,
           \/ Record(c) \/ Forward(c) \/ \E n \in Calls : ToolResult(c, n)
           \/ AnswerClient(c) \/ Deliver(c)
    PROVE  Offered'
<1>1. UNCHANGED <<open, closed, role, tools, entries, executors>>
  BY DEF Record, Forward, ToolResult, AnswerClient, Deliver, config
<1>2. \/ at' = at
      \/ \E p : at' = [at EXCEPT ![c] = p] /\ (p = None \/ p.step \in {"forward", "answer"})
  <2>1. CASE Record(c)
    <3>1. at[c] \in Places
      BY <2>1, PlaceFacts DEF Record, Working
    <3>2. [at[c] EXCEPT !.step = "forward"].step = "forward"
      BY <3>1 DEF Places
    <3> QED
      BY <2>1, <3>2 DEF Record, Goto
  <2>2. CASE \E n \in Calls : ToolResult(c, n)
    BY <2>2, PlaceTypes DEF ToolResult, Goto
  <2>3. CASE Forward(c) \/ AnswerClient(c) \/ Deliver(c)
    BY <2>3 DEF Forward, AnswerClient, Deliver, Goto
  <2> QED
    BY <2>1, <2>2, <2>3
<1>3. \A d \in Conns : \A step \in {"join", "leave"} : In(d, step)' => In(d, step)
  BY <1>2 DEF In, Basic, TypeOK
<1> QED
  BY <1>1, <1>3 DEF Offered, Withdrawn

\* An open connection may change its role, or break.
LEMMA ConnectionOffered ==
    ASSUME Basic, Offered, NEW c \in Conns, RegisterAgent(c) \/ Disconnect(c)
    PROVE  Offered'
<1>1. CASE RegisterAgent(c)
  <2>1. /\ UNCHANGED <<open, closed, tools, entries, executors, at>>
        /\ c \in open /\ at[c] = None /\ role' = [role EXCEPT ![c] = "agent"]
    BY <1>1 DEF RegisterAgent, Idle
  <2>2. role'[c] = "agent" /\ \A d \in Conns \ {c} : role'[d] = role[d]
    BY <2>1 DEF Basic, TypeOK
  <2> QED
    BY <2>1, <2>2 DEF Offered, In, Withdrawn
<1>2. CASE Disconnect(c)
  BY <1>2 DEF Disconnect, Offered, In, Withdrawn
<1> QED
  BY <1>1, <1>2

\* A connection that closes leaves the registry, if it is an executor.
LEMMA CloseOffered ==
    ASSUME Basic, Offered, NEW c \in Conns, Close(c)
    PROVE  Offered'
<1>1. /\ c \notin open \cup closed /\ at[c] = None
      /\ UNCHANGED <<open, role, tools, executors>>
  BY DEF Close
<1>2. CASE role[c] = "executor"
  <2>1. /\ entries' = Without(c) /\ closed' = closed
        /\ at' = [at EXCEPT ![c] = Place("leave", None, None)]
    BY <1>2 DEF Close, Goto
  <2>2. Place("leave", None, None).step = "leave"
    BY PlaceTypes
  <2>3. at'[c].step = "leave" /\ \A d \in Conns \ {c} : at'[d] = at[d]
    BY <2>1, <2>2 DEF Basic, TypeOK
  <2>4. \A d \in Conns : Withdrawn(d) \/ d = c => Withdrawn(d)'
    BY <2>1 DEF Withdrawn, Without
  <2>5. \A d \in open : tools[d] \X {d} \subseteq entries'
    BY <1>1, <2>1 DEF Without, Offered, Basic, TypeOK
  <2> QED
    BY <1>1, <1>2, <2>1, <2>3, <2>4, <2>5 DEF Offered, In
<1>3. CASE role[c] # "executor"
  <2>1. /\ closed' = closed \cup {c} /\ UNCHANGED <<entries, at>>
        /\ role[c] \in {"user", "agent"}
    BY <1>3 DEF Close, Basic, TypeOK
  <2> QED
    BY <1>1, <2>1 DEF Offered, In, Withdrawn
<1> QED
  BY <1>2, <1>3

\* It leaves the pool, all its places, and is closed.
LEMMA LeaveOffered ==
    ASSUME Basic, Offered, NEW c \in Conns, Leave(c)
    PROVE  Offered'
<1>1. /\ In(c, "leave") /\ executors' = Keep(executors, Conns \ {c}) /\ closed' = closed \cup {c}
      /\ UNCHANGED <<open, role, tools, entries>>
  BY DEF Leave
<1>2. ToSet(executors') = ToSet(executors) \cap (Conns \ {c})
  BY <1>1, KeepFacts DEF Basic, TypeOK
<1>3. at'[c] = None /\ \A d \in Conns \ {c} : at'[d] = at[d]
  BY GotoFacts DEF Leave, Basic
<1>4. c \notin open /\ Withdrawn(c)
  BY <1>1 DEF Offered
<1> QED
  BY <1>1, <1>2, <1>3, <1>4 DEF Offered, In, Withdrawn

\* Every step keeps the tools on offer those of the executors that are there.
LEMMA StepOffered == Basic /\ Offered /\ [Next]_vars => Offered'
<1> SUFFICES ASSUME Basic, Offered, [Next]_vars PROVE Offered'
  OBVIOUS
<1>1. CASE UNCHANGED vars
  BY <1>1 DEF Offered, In, Withdrawn, vars, config
<1>2. CASE Next
  <2>1. PICK c \in Conns : Handler(c)
    BY <1>2 DEF Next
  <2> QED
    BY <2>1, RegisterOffered, JoinOffered, ToolCallOffered, CallOffered, ConnectionOffered,
       CloseOffered, LeaveOffered
       DEF Handler
<1> QED
  BY <1>1, <1>2

\* In every behaviour.
LEMMA AlwaysBasic == Spec => [](Basic /\ Offered)
  BY InitBasic, StepBasic, InitOffered, StepOffered, PTL DEF Spec

\* Every variable stays in its domain, and a call is recorded and forwarded only when an
\* executor was found for it (the handlers of WsChatController).
THEOREM TypeCorrect == Spec => []TypeOK
<1>1. Basic => TypeOK
  BY DEF Basic
<1> QED
  BY <1>1, AlwaysBasic, PTL

\* A connection that closed in the role of an executor has neither an entry nor a place in the
\* pool left, and the tools of one in the pool are all offered, whatever registrations, calls
\* and closes go on at the same time (register, handleConnectionClosed, ToolRegistry).
THEOREM OfferedAreThere == Spec => []OfferedByExecutor
<1>1. Basic /\ Offered => OfferedByExecutor
  BY DEF Offered, OfferedByExecutor, Withdrawn
<1> QED
  BY <1>1, AlwaysBasic, PTL

-----------------------------------------------------------------------------
(* Who holds a call.                                                       *)

\* A posted answer is in the queue it was put into and in no other.
LEMMA PostHas ==
    ASSUME TypeOK, NEW c \in Conns, NEW m \in Msg, Post(c, m), NEW d \in Conns, NEW F
    PROVE  /\ HasAny(mail'[d], F) <=> HasAny(mail[d], F) \/ (d = c /\ m \in F)
           /\ AtMostOne(mail[d], F) /\ ~(d = c /\ HasAny(mail[d], F) /\ m \in F)
                 => AtMostOne(mail'[d], F)
<1>1. mail[c] \in Seq(Msg)
  BY DEF TypeOK, Msg
<1>2. mail'[c] = Append(mail[c], m) /\ (d # c => mail'[d] = mail[d])
  BY PostFacts
<1>3. CASE d = c
  <2>1. mail[d] \in Seq(Msg) /\ mail'[d] = Append(mail[d], m)
    BY <1>1, <1>2, <1>3
  <2>2. /\ HasAny(Append(mail[d], m), F) <=> HasAny(mail[d], F) \/ m \in F
        /\ AtMostOne(mail[d], F) /\ ~(HasAny(mail[d], F) /\ m \in F)
              => AtMostOne(Append(mail[d], m), F)
    BY <1>1, <2>1, HasAnyAppend
  <2> QED
    BY <1>3, <2>1, <2>2
<1>4. CASE d # c
  BY <1>2, <1>4
<1> QED
  BY <1>3, <1>4

\* What a connection is told is in what it got.
LEMMA TellHas ==
    ASSUME TypeOK, NEW c \in Conns, NEW m \in [type : Answer, call : Calls], Tell(c, m),
           NEW d \in Conns, NEW F
    PROVE  /\ HasAny(got'[d], F) <=> HasAny(got[d], F) \/ (d = c /\ m \in F)
           /\ AtMostOne(got[d], F) /\ ~(d = c /\ HasAny(got[d], F) /\ m \in F)
                 => AtMostOne(got'[d], F)
<1> DEFINE Ans == [type : Answer, call : Calls]
<1>1. got[c] \in Seq(Ans) /\ m \in Ans
  BY DEF TypeOK
<1>2. got'[c] = Append(got[c], m) /\ (d # c => got'[d] = got[d])
  BY TellFacts
<1> HIDE DEF Ans
<1>3. CASE d = c
  <2>1. got[d] \in Seq(Ans) /\ got'[d] = Append(got[d], m)
    BY <1>1, <1>2, <1>3
  <2>2. /\ HasAny(Append(got[d], m), F) <=> HasAny(got[d], F) \/ m \in F
        /\ AtMostOne(got[d], F) /\ ~(HasAny(got[d], F) /\ m \in F)
              => AtMostOne(Append(got[d], m), F)
    BY <1>1, <2>1, HasAnyAppend
  <2> QED
    BY <1>3, <2>1, <2>2
<1>4. CASE d # c
  BY <1>2, <1>4
<1> QED
  BY <1>3, <1>4

\* Which messages end a call.
LEMMA EndsFacts ==
    ASSUME NEW n \in Calls, NEW i \in Calls
    PROVE  /\ \A type \in Final : Mail(type, n) \in Ends(i) <=> i = n
           /\ \A type \in {"call", "no_pending", "client_gone"} : Mail(type, n) \notin Ends(i)
  BY DEF Mail, Ends, Final

\* A step that moves no call and no final answer; a handler may let go of a call.
LEMMA QuietHeldOnce ==
    ASSUME HeldOnce, call' = call, pending' = pending,
           \A d \in Conns, n \in Calls :
              /\ HasAny(mail'[d], Ends(n)) <=> HasAny(mail[d], Ends(n))
              /\ AtMostOne(mail[d], Ends(n)) => AtMostOne(mail'[d], Ends(n))
              /\ HasAny(got'[d], Ends(n)) <=> HasAny(got[d], Ends(n))
              /\ AtMostOne(got[d], Ends(n)) => AtMostOne(got'[d], Ends(n))
              /\ At(d, n, Holding)' => At(d, n, Holding)
    PROVE  HeldOnce'
<1>1. Made' = Made
  BY DEF Made
<1>2. ASSUME NEW n \in Calls, NEW c \in Conns PROVE OneHolder(n, c)'
  <2>1. OneHolder(n, c)
    BY DEF HeldOnce
  <2> DEFINE E == Ends(n)
  <2>2. Ends(n)' = E
    BY DEF Ends, Final
  <2> QED
    BY <1>1, <2>1, <2>2, Zenon DEF OneHolder
<1> QED
  BY <1>2 DEF HeldOnce

\* Nobody holds a call that was not made yet.
LEMMA NotMade ==
    ASSUME Basic, NEW n \in Calls, n \notin Made
    PROVE  /\ \A d \in Conns : /\ ~HasAny(mail[d], Ends(n)) /\ ~HasAny(got[d], Ends(n))
                               /\ ~At(d, n, Holding)
           /\ \A k \in Keys : pending[k] # n
<1>1. ASSUME NEW d \in Conns
      PROVE  ~HasAny(mail[d], Ends(n)) /\ ~HasAny(got[d], Ends(n)) /\ ~At(d, n, Holding)
  <2>1. mail[d] \in Seq(Msg) /\ got[d] \in Seq([type : Answer, call : Calls])
    BY DEF Basic, TypeOK, Msg
  <2>2. \A i \in 1..Len(mail[d]) : mail[d][i] \in ToSet(mail[d])
    BY <2>1, LenProperties DEF ToSet
  <2>3. \A i \in 1..Len(got[d]) : got[d][i] \in ToSet(got[d])
    BY <2>1, LenProperties DEF ToSet
  <2>4. \A m \in Ends(n) : m.call = n
    BY DEF Ends
  <2>5. ~HasAny(mail[d], Ends(n)) /\ ~HasAny(got[d], Ends(n))
    BY <2>2, <2>3, <2>4 DEF HasAny, Basic, Known
  <2>6. ~At(d, n, Holding)
    BY DEF At, Holding, Working, Basic, Known
  <2> QED
    BY <2>5, <2>6
<1>2. ASSUME NEW k \in Keys PROVE pending[k] # n
  BY NoneIsNothing DEF Basic, Known
<1> QED
  BY <1>1, <1>2

\* Initially there is no call.
LEMMA InitHeldOnce == Init => HeldOnce
<1> SUFFICES ASSUME Init PROVE HeldOnce
  OBVIOUS
<1>1. \A c \in Conns, n \in Calls :
         /\ ~HasAny(mail[c], Ends(n)) /\ ~HasAny(got[c], Ends(n)) /\ ~At(c, n, Holding)
         /\ AtMostOne(mail[c], Ends(n)) /\ AtMostOne(got[c], Ends(n))
  BY DEF Init, HasAny, AtMostOne, At
<1> QED
  BY <1>1, NoneIsNothing DEF HeldOnce, OneHolder, Init, Made

\* A new call is held by its sender's handler, or answered at once.
LEMMA ToolCallHeldOnce ==
    ASSUME Basic, HeldOnce, NEW c \in Conns, NEW k \in Keys, NEW t \in Tools, ToolCall(c, k, t)
    PROVE  HeldOnce'
<1> DEFINE n == Number
           m == Mail("no_executor", n)
           p == Place("record", n, Pool(t)[NextIndex(Pool(t)) + 1])
<1>1. /\ n \in Calls /\ n \notin Made /\ Made' = Made \cup {n}
      /\ \A i \in Calls \ {n} : call'[i] = call[i]
  BY NewCallFacts
<1>2. call'[n].sender = c /\ call'[n].key \in Keys
  <2>1. call'[n] = [sender |-> c, key |-> k, tool |-> t]
    BY NewCallFacts
  <2> QED
    BY <2>1
<1>3. \/ Post(c, m) /\ at' = at
      \/ Goto(c, p) /\ mail' = mail
  BY DEF ToolCall, Number
<1>4. pending' = pending /\ got' = got /\ at[c] = None
  BY DEF ToolCall
<1>5. p.call = n
  BY PlaceTypes
<1> HIDE DEF n, p
<1>6. m \in Msg /\ \A i \in Calls : m \in Ends(i) <=> i = n
  BY <1>1, EndsFacts DEF Mail, Msg, Answer, Final
<1> HIDE DEF m
<1>7. \A i \in Calls : Ends(i)' = Ends(i)
  BY DEF Ends, Final
<1>8. /\ \A d \in Conns : /\ ~HasAny(mail[d], Ends(n)) /\ ~HasAny(got[d], Ends(n))
                          /\ ~At(d, n, Holding)
      /\ \A i \in Keys : pending[i] # n
  BY <1>1, NotMade
<1>9. CASE Post(c, m) /\ at' = at
  <2>1. ASSUME NEW d \in Conns, NEW i \in Calls
        PROVE  /\ HasAny(mail'[d], Ends(i)) <=> HasAny(mail[d], Ends(i)) \/ (d = c /\ i = n)
               /\ AtMostOne(mail[d], Ends(i)) /\ ~(d = c /\ HasAny(mail[d], Ends(i)) /\ i = n)
                     => AtMostOne(mail'[d], Ends(i))
               /\ At(d, i, Holding)' <=> At(d, i, Holding)
    BY <1>6, <1>9, PostHas DEF Basic, At
  <2>2. ASSUME NEW i \in Calls, NEW d \in Conns PROVE OneHolder(i, d)'
    <3>1. CASE i = n
      BY <1>1, <1>2, <1>4, <1>7, <1>8, <2>1, <3>1 DEF HeldOnce, OneHolder
    <3>2. CASE i # n
      <4>1. call'[i] = call[i] /\ (i \in Made' <=> i \in Made)
        BY <1>1, <3>2
      <4> QED
        BY <1>4, <1>7, <2>1, <3>2, <4>1 DEF HeldOnce, OneHolder
    <3> QED
      BY <3>1, <3>2
  <2> QED
    BY <2>2 DEF HeldOnce
<1>10. CASE Goto(c, p) /\ mail' = mail
  <2>1. \A d \in Conns, i \in Calls : At(d, i, Holding)' => At(d, i, Holding) \/ (d = c /\ i = n)
    <3>1. at'[c] = p /\ \A d \in Conns \ {c} : at'[d] = at[d]
      BY <1>10 DEF Goto, Basic, TypeOK
    <3> QED
      BY <1>5, <3>1 DEF At
  <2>2. ASSUME NEW i \in Calls, NEW d \in Conns PROVE OneHolder(i, d)'
    <3>1. CASE i = n
      BY <1>1, <1>2, <1>4, <1>7, <1>8, <1>10, <2>1, <3>1 DEF HeldOnce, OneHolder
    <3>2. CASE i # n
      <4>1. call'[i] = call[i] /\ (i \in Made' <=> i \in Made)
        BY <1>1, <3>2
      <4> QED
        BY <1>4, <1>7, <1>10, <2>1, <3>2, <4>1 DEF HeldOnce, OneHolder
    <3> QED
      BY <3>1, <3>2
  <2> QED
    BY <2>2 DEF HeldOnce
<1> QED
  BY <1>3, <1>9, <1>10

\* A handler gives its call to the map of pending calls.
LEMMA RecordHeldOnce ==
    ASSUME Basic, HeldOnce, NEW c \in Conns, Record(c)
    PROVE  HeldOnce'
<1> DEFINE n == at[c].call
           p == [at[c] EXCEPT !.step = "forward"]
<1>1. /\ at[c] \in Places /\ at[c] # None /\ at[c].step = "record" /\ n \in Made /\ n \in Calls
      /\ call[n] \in CallRecords
  BY PlaceFacts DEF Record, Working
<1>2. call' = call /\ got' = got /\ mail' = mail /\ Made' = Made
  BY DEF Record, Made
<1>3. At(c, n, Holding)
  BY <1>1 DEF At, Holding
<1>4. at' = [at EXCEPT ![c] = p] /\ pending' = [pending EXCEPT ![call[n].key] = n]
  BY DEF Record, Goto
<1>5. p.step = "forward"
  BY <1>1 DEF Places
<1> HIDE DEF p, n
<1>6. \A d \in Conns, i \in Calls : At(d, i, Holding)' => At(d, i, Holding) /\ d # c
  <2>1. at'[c] = p /\ \A d \in Conns \ {c} : at'[d] = at[d]
    BY <1>4 DEF Basic, TypeOK
  <2> QED
    BY <1>5, <2>1 DEF At, Holding
<1>7. ASSUME NEW i \in Made, i # n, pending[call[i].key] # i PROVE pending'[call[i].key] # i
  <2>1. call[i].key \in Keys /\ i \in Calls
    BY DEF Basic, TypeOK, Made, CallRecords
  <2> QED
    BY <1>4, <1>7, <2>1 DEF Basic, TypeOK
<1>8. \A i \in Calls, d \in Conns : At(d, i, Holding) => i \in Made
  BY NotMade
<1>9. ASSUME NEW i \in Calls, NEW d \in Conns PROVE OneHolder(i, d)'
  <2>0. Ends(i)' = Ends(i)
    BY DEF Ends, Final
  <2>1. CASE i = n
    BY <1>2, <1>3, <1>6, <2>0, <2>1 DEF HeldOnce, OneHolder
  <2>2. CASE i # n
    BY <1>2, <1>6, <1>7, <1>8, <2>0, <2>2 DEF HeldOnce, OneHolder
  <2> QED
    BY <2>1, <2>2
<1> QED
  BY <1>9 DEF HeldOnce

\* A result takes a call out of the map, for the handler of the executor that sent it.
LEMMA ToolResultHeldOnce ==
    ASSUME Basic, HeldOnce, NEW c \in Conns, NEW n \in Calls, ToolResult(c, n)
    PROVE  HeldOnce'
<1> DEFINE k == call[n].key
           r == pending[k]
<1>1. at[c] = None /\ n \in Made
  BY DEF ToolResult, MayAnswer, Idle
<1>2. k \in Keys
  BY <1>1 DEF Basic, TypeOK, Made, CallRecords
<1>3. call' = call /\ mail' = mail /\ Made' = Made
  BY DEF ToolResult, Made
<1>4. CASE r = None
  <2> DEFINE m == Mail("no_pending", n)
  <2>1. Tell(c, m) /\ pending' = pending /\ at' = at
    BY <1>4 DEF ToolResult
  <2>2. m \in [type : Answer, call : Calls] /\ \A i \in Calls : m \notin Ends(i)
    BY EndsFacts DEF Mail, Answer
  <2> HIDE DEF m
  <2>3. ASSUME NEW d \in Conns, NEW i \in Calls
        PROVE  /\ HasAny(got'[d], Ends(i)) <=> HasAny(got[d], Ends(i))
               /\ AtMostOne(got[d], Ends(i)) => AtMostOne(got'[d], Ends(i))
               /\ At(d, i, Holding)' => At(d, i, Holding)
    BY <2>1, <2>2, TellHas DEF Basic, At
  <2> QED
    BY <1>3, <2>1, <2>3, QuietHeldOnce
<1>5. CASE r # None
  <2> DEFINE p == Place("answer", r, call[r].sender)
  <2>1. /\ at' = [at EXCEPT ![c] = p] /\ got' = got
        /\ pending' = [pending EXCEPT ![k] = None]
    BY <1>5 DEF ToolResult, Goto
  <2>2. r \in Made /\ r \in Calls /\ call[r].key = k /\ r # None
    BY <1>2, <1>5 DEF Basic, Known, Made
  <2>3. p.call = r
    BY PlaceTypes
  <2> HIDE DEF p
  <2>4. /\ \A d \in Conns, i \in Calls : At(d, i, Holding)' => At(d, i, Holding) \/ (d = c /\ i = r)
        /\ \A d \in Conns, i \in Calls : At(d, i, Holding)' /\ d = c => i = r
    <3>1. at'[c] = p /\ \A d \in Conns \ {c} : at'[d] = at[d]
      BY <2>1 DEF Basic, TypeOK
    <3> QED
      BY <2>3, <3>1 DEF At
  <2>5. \A i \in Keys : pending'[i] = IF i = k THEN None ELSE pending[i]
    BY <2>1 DEF Basic, TypeOK
  <2>6. \A i \in Made : call[i].key \in Keys /\ i # None
    BY NoneIsNothing DEF Basic, TypeOK, Made, CallRecords
  <2>7. \A i \in Calls, d \in Conns : At(d, i, Holding) => i \in Made
    BY NotMade
  <2> HIDE DEF r
  <2>8. pending[call[r].key] = r
    BY <2>2 DEF r
  <2>9. ASSUME NEW i \in Calls, NEW d \in Conns PROVE OneHolder(i, d)'
    <3>0. Ends(i)' = Ends(i)
      BY DEF Ends, Final
    <3>1. CASE i = r
      BY <1>3, <2>1, <2>2, <2>4, <2>5, <2>6, <2>8, <3>0, <3>1 DEF HeldOnce, OneHolder
    <3>2. CASE i # r
      BY <1>3, <2>1, <2>4, <2>5, <2>6, <2>7, <3>0, <3>2 DEF HeldOnce, OneHolder
    <3> QED
      BY <3>1, <3>2
  <2> QED
    BY <2>9 DEF HeldOnce
<1> QED
  BY <1>4, <1>5

\* The handler that holds a call puts its result into the client's queue, or drops it.
LEMMA AnswerClientHeldOnce ==
    ASSUME Basic, HeldOnce, NEW c \in Conns, AnswerClient(c)
    PROVE  HeldOnce'
<1> DEFINE n == at[c].call
           b == at[c].peer
           m == Mail("result", n)
           g == Mail("client_gone", n)
<1>1. /\ at[c] # None /\ at[c].step = "answer" /\ n \in Made /\ n \in Calls
      /\ b = call[n].sender /\ b \in Conns
  BY PlaceFacts DEF AnswerClient, Working
<1>2. call' = call /\ pending' = pending /\ Made' = Made
  BY DEF AnswerClient, Made
<1>3. At(c, n, Holding)
  BY <1>1 DEF At, Holding
<1>4. /\ at' = [at EXCEPT ![c] = None]
      /\ \/ Post(b, m) /\ got' = got
         \/ Tell(c, g) /\ mail' = mail
  BY DEF AnswerClient, Goto
<1> HIDE DEF b, n
<1>5. /\ m \in Msg /\ \A i \in Calls : m \in Ends(i) <=> i = n
      /\ g \in [type : Answer, call : Calls] /\ \A i \in Calls : g \notin Ends(i)
  BY <1>1, EndsFacts DEF Mail, Msg, Answer, Final
<1> HIDE DEF m, g
<1>6. \A d \in Conns, i \in Calls : At(d, i, Holding)' => At(d, i, Holding) /\ d # c
  BY <1>4 DEF At, Basic, TypeOK
<1>7. CASE Post(b, m) /\ got' = got
  <2>1. ASSUME NEW d \in Conns, NEW i \in Calls
        PROVE  /\ HasAny(mail'[d], Ends(i)) <=> HasAny(mail[d], Ends(i)) \/ (d = b /\ i = n)
               /\ AtMostOne(mail[d], Ends(i)) /\ ~(d = b /\ HasAny(mail[d], Ends(i)) /\ i = n)
                     => AtMostOne(mail'[d], Ends(i))
    BY <1>1, <1>5, <1>7, PostHas DEF Basic
  <2>2. ASSUME NEW i \in Calls, NEW d \in Conns PROVE OneHolder(i, d)'
    <3>0. Ends(i)' = Ends(i)
      BY DEF Ends, Final
    <3>1. CASE i = n
      BY <1>1, <1>2, <1>3, <1>6, <1>7, <2>1, <3>0, <3>1 DEF HeldOnce, OneHolder
    <3>2. CASE i # n
      BY <1>2, <1>6, <1>7, <2>1, <3>0, <3>2 DEF HeldOnce, OneHolder
    <3> QED
      BY <3>1, <3>2
  <2> QED
    BY <2>2 DEF HeldOnce
<1>8. CASE Tell(c, g) /\ mail' = mail
  <2>1. ASSUME NEW d \in Conns, NEW i \in Calls
        PROVE  /\ HasAny(got'[d], Ends(i)) <=> HasAny(got[d], Ends(i))
               /\ AtMostOne(got[d], Ends(i)) => AtMostOne(got'[d], Ends(i))
    BY <1>5, <1>8, TellHas DEF Basic
  <2> QED
    BY <1>2, <1>6, <1>8, <2>1, QuietHeldOnce
<1> QED
  BY <1>4, <1>7, <1>8

\* An answer goes from the queue to its client, or is lost.
LEMMA DeliverHeldOnce ==
    ASSUME Basic, HeldOnce, NEW c \in Conns, Deliver(c)
    PROVE  HeldOnce'
<1> DEFINE m == Head(mail[c])
<1>1. mail[c] \in Seq(Msg) /\ mail[c] # <<>>
  BY DEF Deliver, Basic, TypeOK, Msg
<1>2. call' = call /\ pending' = pending /\ at' = at /\ Made' = Made
  BY DEF Deliver, Made
<1>3. mail'[c] = Tail(mail[c]) /\ \A d \in Conns \ {c} : mail'[d] = mail[d]
  BY DEF Deliver, Basic, TypeOK
<1>4. m \in Msg
  BY <1>1, TailAt
<1>5. got' = got \/ (m.type # "call" /\ Tell(c, m))
  BY DEF Deliver
<1>6. ASSUME NEW i \in Calls
      PROVE  /\ HasAny(mail[c], Ends(i)) <=> m \in Ends(i) \/ HasAny(mail'[c], Ends(i))
             /\ AtMostOne(mail[c], Ends(i))
                   => AtMostOne(mail'[c], Ends(i)) /\ ~(m \in Ends(i) /\ HasAny(mail'[c], Ends(i)))
  BY <1>1, <1>3, HasAnyTail
<1> HIDE DEF m
<1>7. ASSUME NEW i \in Calls, NEW d \in Conns
      PROVE  /\ HasAny(got'[d], Ends(i)) => HasAny(got[d], Ends(i)) \/ (d = c /\ m \in Ends(i))
             /\ AtMostOne(got[d], Ends(i)) /\ ~(d = c /\ HasAny(got[d], Ends(i)) /\ m \in Ends(i))
                   => AtMostOne(got'[d], Ends(i))
  <2>1. CASE got' = got
    BY <2>1
  <2>2. CASE m.type # "call" /\ Tell(c, m)
    <3>1. m \in [type : Answer, call : Calls]
      BY <1>4, <2>2 DEF Msg
    <3> QED
      BY <2>2, <3>1, TellHas DEF Basic
  <2> QED
    BY <1>5, <2>1, <2>2
<1>8. \A d \in Conns, i \in Calls : At(d, i, Holding)' <=> At(d, i, Holding)
  BY <1>2 DEF At
<1>9. ASSUME NEW i \in Calls, NEW d \in Conns PROVE OneHolder(i, d)'
  <2>1. OneHolder(i, d) /\ OneHolder(i, c)
    BY DEF HeldOnce
  <2> DEFINE E == Ends(i)
  <2>2. Ends(i)' = E
    BY DEF Ends, Final
  <2>3. HasAny(mail'[d], E) => HasAny(mail[d], E)
    BY <1>3, <1>6
  <2>4. /\ HasAny(mail'[d], E) \/ HasAny(got'[d], E) => call'[i].sender = d
        /\ AtMostOne(mail'[d], E) /\ AtMostOne(got'[d], E)
        /\ ~(HasAny(mail'[d], E) /\ HasAny(got'[d], E))
    <3>1. CASE d = c
      BY <1>2, <1>6, <1>7, <2>1, <3>1 DEF OneHolder
    <3>2. CASE d # c
      BY <1>2, <1>3, <1>7, <2>1, <3>2 DEF OneHolder
    <3> QED
      BY <3>1, <3>2
  <2>5. \A e \in Conns : HasAny(mail'[e], E) \/ HasAny(got'[e], E)
                            => HasAny(mail[e], E) \/ HasAny(got[e], E)
    BY <1>3, <1>6, <1>7
  <2> HIDE DEF E
  <2> QED
    BY <1>2, <1>8, <2>1, <2>2, <2>4, <2>5 DEF OneHolder, E
<1> QED
  BY <1>9 DEF HeldOnce

\* The steps that move no call.
LEMMA OtherHeldOnce ==
    ASSUME Basic, HeldOnce, NEW c \in Conns,
           \/ \E new \in SUBSET Tools : Register(c, new)
           \/ Join(c) \/ RegisterAgent(c) \/ Forward(c)
           \/ Disconnect(c) \/ Close(c) \/ Leave(c)
    PROVE  HeldOnce'
<1>1. call' = call /\ pending' = pending /\ got' = got
  BY DEF Register, Join, RegisterAgent, Forward, Disconnect, Close, Leave
<1>2. \/ at' = at
      \/ \E p : at' = [at EXCEPT ![c] = p] /\ (p = None \/ p.step \in {"join", "leave"})
  BY PlaceTypes DEF Register, Join, RegisterAgent, Forward, Disconnect, Close, Leave, Goto
<1>3. \A d \in Conns, i \in Calls : At(d, i, Holding)' => At(d, i, Holding)
  BY <1>2 DEF At, Holding, Basic, TypeOK
<1>4. ASSUME NEW d \in Conns, NEW i \in Calls
      PROVE  /\ HasAny(mail'[d], Ends(i)) <=> HasAny(mail[d], Ends(i))
             /\ AtMostOne(mail[d], Ends(i)) => AtMostOne(mail'[d], Ends(i))
  <2>1. CASE mail' = mail
    BY <2>1
  <2>2. CASE Forward(c)
    <3> DEFINE m == Mail("call", at[c].call)
    <3>1. at[c].call \in Calls /\ at[c].peer \in Conns /\ Post(at[c].peer, m)
      BY <2>2, PlaceFacts DEF Forward, Working
    <3>2. m \in Msg /\ m \notin Ends(i)
      BY <3>1, EndsFacts DEF Mail, Msg
    <3> HIDE DEF m
    <3> QED
      BY <3>1, <3>2, PostHas DEF Basic
  <2> QED
    BY <2>1, <2>2 DEF Register, Join, RegisterAgent, Disconnect, Close, Leave
<1> QED
  BY <1>1, <1>3, <1>4, QuietHeldOnce

\* Every step keeps a call in one place.
LEMMA StepHeldOnce == Basic /\ HeldOnce /\ [Next]_vars => HeldOnce'
<1> SUFFICES ASSUME Basic, HeldOnce, [Next]_vars PROVE HeldOnce'
  OBVIOUS
<1>1. CASE UNCHANGED vars
  <2>1. \A d \in Conns, n \in Calls : At(d, n, Holding)' => At(d, n, Holding)
    BY <1>1 DEF vars, At
  <2>2. UNCHANGED <<call, pending, mail, got>>
    BY <1>1 DEF vars
  <2> QED
    BY <2>1, <2>2, QuietHeldOnce
<1>2. CASE Next
  <2>1. PICK c \in Conns : Handler(c)
    BY <1>2 DEF Next
  <2> QED
    BY <2>1, ToolCallHeldOnce, RecordHeldOnce, ToolResultHeldOnce, AnswerClientHeldOnce,
       DeliverHeldOnce, OtherHeldOnce
       DEF Handler
<1> QED
  BY <1>1, <1>2

\* An answer reaches the connection the call came from, and it gets at most one, however often
\* and from whom results arrive.  The proof does not need that the keys are distinct: they only
\* make the result taken for a call the result of that call (see OwnResult) (route_tool_call,
\* route_tool_result).
THEOREM AnswersReachSenders == Spec => []ResultToSender
<1>1. Basic /\ HeldOnce => ResultToSender
  <2> SUFFICES ASSUME Basic, HeldOnce, NEW c \in Conns, NEW i \in 1..Len(got[c]),
                      NEW j \in 1..Len(got[c]), got[c][i].type \in Final
               PROVE  /\ call[got[c][i].call].sender = c
                      /\ got[c][j].type \in Final /\ got[c][i].call = got[c][j].call => i = j
    BY DEF ResultToSender
  <2> DEFINE n == got[c][i].call
  <2>1. got[c] \in Seq([type : Answer, call : Calls])
    BY DEF Basic, TypeOK
  <2>2. got[c][i] \in [type : Answer, call : Calls] /\ got[c][j] \in [type : Answer, call : Calls]
    BY <2>1, ElementOfSeq
  <2>3. n \in Calls /\ got[c][i] \in Ends(n)
        /\ (got[c][j].type \in Final /\ got[c][j].call = n => got[c][j] \in Ends(n))
    BY <2>2 DEF Ends
  <2>4. HasAny(got[c], Ends(n))
    BY <2>3 DEF HasAny
  <2>5. call[n].sender = c /\ AtMostOne(got[c], Ends(n))
    BY <2>3, <2>4 DEF HeldOnce, OneHolder
  <2> QED
    BY <2>3, <2>5 DEF AtMostOne
<1> QED
  BY <1>1, InitHeldOnce, StepHeldOnce, AlwaysBasic, PTL DEF Spec

\* If keys are distinct, an executor's result takes the call it answers out of the map and no
\* other, or none: n's result is never sent as the answer to another call (route_tool_result).
OwnResultStep == \A c \in Conns, n \in Calls :
                    ToolResult(c, n) => Goto(c, Place("answer", n, call[n].sender)) \/ UNCHANGED at

DistinctKeys == \A m, n \in Made : call[m].key = call[n].key => m = n

\* A new call has a key of its own.
LEMMA StepDistinctKeys ==
    ASSUME UniqueKeys, Basic, DistinctKeys, [Next]_vars
    PROVE  DistinctKeys'
<1>1. CASE call' = call
  BY <1>1 DEF DistinctKeys, Made
<1>2. ASSUME NEW c \in Conns, NEW k \in Keys, NEW t \in Tools, ToolCall(c, k, t)
      PROVE  DistinctKeys'
  <2>1. /\ Made' = Made \cup {Number} /\ Number \notin Made
        /\ \A i \in Made : call'[i] = call[i] /\ call[i].key # k
        /\ call'[Number] = [sender |-> c, key |-> k, tool |-> t]
    BY <1>2, NewCallFacts
  <2>2. call'[Number].key = k
    BY <2>1
  <2> QED
    BY <2>1, <2>2 DEF DistinctKeys
<1>3. CASE Next
  <2>1. PICK c \in Conns : Handler(c)
    BY <1>3 DEF Next
  <2>2. CASE \E k \in Keys, t \in Tools : ToolCall(c, k, t)
    BY <1>2, <2>2
  <2>3. CASE ~\E k \in Keys, t \in Tools : ToolCall(c, k, t)
    <3>1. call' = call
      BY <2>1, <2>3 DEF Handler, Register, Join, RegisterAgent, Record, Forward, ToolResult,
         AnswerClient, Deliver, Disconnect, Close, Leave
    <3> QED
      BY <1>1, <3>1
  <2> QED
    BY <2>2, <2>3
<1> QED
  BY <1>1, <1>3 DEF vars

\* Each result is sent on as the answer to its own call (route_tool_result).
THEOREM OwnResult == ASSUME UniqueKeys PROVE Spec => [][OwnResultStep]_vars
<1>1. Init => DistinctKeys
  BY DEF Init, DistinctKeys, Made
<1>2. Basic /\ DistinctKeys /\ [Next]_vars => DistinctKeys'
  BY StepDistinctKeys
<1>3. Basic /\ DistinctKeys /\ [Next]_vars => [OwnResultStep]_vars
  <2> SUFFICES ASSUME Basic, DistinctKeys, NEW c \in Conns, NEW n \in Calls, ToolResult(c, n)
               PROVE  Goto(c, Place("answer", n, call[n].sender)) \/ UNCHANGED at
    BY DEF OwnResultStep
  <2> DEFINE r == pending[call[n].key]
  <2>1. n \in Made /\ call[n].key \in Keys
    BY DEF ToolResult, MayAnswer, Basic, Made, TypeOK, CallRecords
  <2>2. r # None => r \in Made /\ call[r].key = call[n].key
    BY <2>1 DEF Basic, Known
  <2>3. r # None => r = n
    BY <2>1, <2>2 DEF DistinctKeys
  <2> QED
    BY <2>3 DEF ToolResult
<1> QED
  BY <1>1, <1>2, <1>3, AlwaysBasic, PTL DEF Spec

-----------------------------------------------------------------------------
(* The round robin.                                                        *)

\* The next index adds one place to a round, or begins the next.
LEMMA BetweenNext ==
    ASSUME NEW n \in Nat \ {0}, NEW last \in 0..(n - 1), NEW first \in 0..(n - 1), NEW i,
           i = IF last = n - 1 THEN 0 ELSE last + 1
    PROVE  /\ i # first => /\ ~Between(i, first, last)
                           /\ \A j \in 0..(n - 1) : Between(j, first, i) <=>
                                                       Between(j, first, last) \/ j = i
           /\ i = first => /\ \A j \in 0..(n - 1) : Between(j, first, last)
                           /\ \A j \in 0..(n - 1) : Between(j, first, i) <=> j = i
<1>1. CASE last = n - 1
  BY <1>1 DEF Between
<1>2. CASE last # n - 1
  BY <1>2 DEF Between
<1> QED
  BY <1>1, <1>2

\* Initially no pool was used.
LEMMA InitRound == Init => Round
  BY DEF Init, Round

\* A step that uses no pool.
LEMMA QuietRound ==
    ASSUME Round, rr' = rr, share' = share
    PROVE  Round'
  BY DEF Round, Between

\* A call takes the next member of its pool.
LEMMA ToolCallRound ==
    ASSUME Basic, Round, NEW c \in Conns, NEW k \in Keys, NEW t \in Tools, ToolCall(c, k, t)
    PROVE  Round'
<1> DEFINE pool == Pool(t)
           i == NextIndex(pool)
           e == pool[i + 1]
<1>1. CASE pool = <<>>
  <2>1. UNCHANGED <<rr, share>>
    BY <1>1 DEF ToolCall
  <2> QED
    BY <2>1, QuietRound
<1>2. CASE pool # <<>>
  <2>1. rr' = i /\ Count(pool, e)
    BY <1>2 DEF ToolCall
  <2>2. pool \in Seq(Conns) /\ rr \in Nat
    BY PoolFacts DEF Basic, TypeOK
  <2> DEFINE n == Len(pool)
             before(d) == IF share.pool = pool THEN share.taken[d] ELSE 0
             after == [d \in Conns |-> before(d) + (IF d = e THEN 1 ELSE 0)]
  <2>3. share' = [pool |-> pool, taken |-> after]
    BY <2>1 DEF Count
  <2> HIDE DEF pool
  <2>4. /\ i \in 0..(n - 1) /\ n \in Nat \ {0} /\ e \in Conns
        /\ rr \in 0..(n - 1) => i = IF rr = n - 1 THEN 0 ELSE rr + 1
    BY <1>2, <2>2, NextIndexFacts
  <2> HIDE DEF i, e
  <2>5. \A d \in Conns : before(d) \in Nat
    BY DEF Round
  <2>6. after \in [Conns -> Nat] /\ \A d \in Conns : after[d] = IF d = e THEN before(d) + 1 ELSE before(d)
    BY <2>5
  <2>7. \A j \in 0..(n - 1) : j + 1 \in 1..n /\ pool[j + 1] \in Conns
    BY <2>2, <2>4, ElementOfSeq
  <2> HIDE DEF before, after
  <2>8. ASSUME IsInjective(pool)
        PROVE  \E first \in 0..(n - 1), q \in Nat : \A j \in 0..(n - 1) :
                  after[pool[j + 1]] = IF Between(j, first, i) THEN q + 1 ELSE q
    <3>1. \A j \in 0..(n - 1) : pool[j + 1] = e <=> j = i
      <4>1. DOMAIN pool = 1..n
        BY <2>2, LenProperties
      <4>2. \A x, y \in 1..n : pool[x] = pool[y] => x = y
        BY <2>8, <4>1 DEF IsInjective
      <4>3. e = pool[i + 1]
        BY DEF e
      <4> QED
        BY <2>4, <2>7, <4>2, <4>3
    <3>2. \A j \in 0..(n - 1) : after[pool[j + 1]] =
             IF j = i THEN before(pool[j + 1]) + 1 ELSE before(pool[j + 1])
      BY <2>6, <2>7, <3>1
    <3> HIDE DEF n
    <3>3. CASE share.pool # pool
      <4>1. \A d : before(d) = 0
        BY <3>3 DEF before
      <4>2. \A j \in 0..(n - 1) : Between(j, i, i) <=> j = i
        BY <2>4 DEF Between
      <4>3. \A j \in 0..(n - 1) : after[pool[j + 1]] = IF Between(j, i, i) THEN 0 + 1 ELSE 0
        BY <3>2, <4>1, <4>2
      <4> QED
        BY <2>4, <4>3
    <3>4. CASE share.pool = pool
      <4>1. \A d : before(d) = share.taken[d]
        BY <3>4 DEF before
      <4>2. rr \in 0..(n - 1)
            /\ \E first \in 0..(n - 1), q \in Nat : \A j \in 0..(n - 1) :
                  share.taken[pool[j + 1]] = IF Between(j, first, rr) THEN q + 1 ELSE q
        BY <1>2, <2>8, <3>4 DEF Round, n
      <4>3. PICK first \in 0..(n - 1), q \in Nat : \A j \in 0..(n - 1) :
                  before(pool[j + 1]) = IF Between(j, first, rr) THEN q + 1 ELSE q
        BY <4>1, <4>2
      <4>4. i = IF rr = n - 1 THEN 0 ELSE rr + 1
        BY <2>4, <4>2
      <4>5. /\ i # first => /\ ~Between(i, first, rr)
                            /\ \A j \in 0..(n - 1) : Between(j, first, i) <=>
                                                        Between(j, first, rr) \/ j = i
            /\ i = first => /\ \A j \in 0..(n - 1) : Between(j, first, rr)
                            /\ \A j \in 0..(n - 1) : Between(j, first, i) <=> j = i
        <5>1. n \in Nat \ {0} /\ rr \in 0..(n - 1) /\ first \in 0..(n - 1)
          BY <2>4, <4>2
        <5> QED
          BY <4>4, <5>1, BetweenNext
      <4>6. CASE i # first
        <5>1. \A j \in 0..(n - 1) :
                 after[pool[j + 1]] = IF Between(j, first, i) THEN q + 1 ELSE q
          BY <2>4, <3>2, <4>3, <4>5, <4>6
        <5> QED
          BY <5>1
      <4>7. CASE i = first
        <5>1. \A j \in 0..(n - 1) :
                 after[pool[j + 1]] = IF Between(j, first, i) THEN (q + 1) + 1 ELSE q + 1
          BY <3>2, <4>3, <4>5, <4>7
        <5>2. q + 1 \in Nat
          OBVIOUS
        <5> QED
          BY <5>1, <5>2
      <4> QED
        BY <4>6, <4>7
    <3> QED
      BY <3>3, <3>4
  <2>9. share' \in [pool : Seq(Conns), taken : [Conns -> Nat]]
    BY <2>2, <2>3, <2>6
  <2>10. share'.pool = pool /\ share'.taken = after
    BY <2>3
  <2> QED
    BY <2>1, <2>4, <2>8, <2>9, <2>10 DEF Round, Between
<1> QED
  BY <1>1, <1>2

\* Every step keeps the round.
LEMMA StepRound == Basic /\ Round /\ [Next]_vars => Round'
<1> SUFFICES ASSUME Basic, Round, [Next]_vars PROVE Round'
  OBVIOUS
<1>1. CASE UNCHANGED <<rr, share>>
  BY <1>1, QuietRound
<1>2. CASE Next
  <2>1. PICK c \in Conns : Handler(c)
    BY <1>2 DEF Next
  <2>2. CASE \E k \in Keys, t \in Tools : ToolCall(c, k, t)
    BY <2>2, ToolCallRound
  <2>3. CASE ~\E k \in Keys, t \in Tools : ToolCall(c, k, t)
    <3>1. UNCHANGED <<rr, share>>
      BY <2>1, <2>3 DEF Handler, Register, Join, RegisterAgent, Record, Forward, ToolResult,
         AnswerClient, Deliver, Disconnect, Close, Leave
    <3> QED
      BY <1>1, <3>1
  <2> QED
    BY <2>2, <2>3
<1> QED
  BY <1>1, <1>2 DEF vars

\* As long as calls go to the same pool, without double places, no member gets two calls more
\* than another, although one index serves all pools (the round robin of route_tool_call).
THEOREM SharesAreEven == Spec => []EvenShare
<1>1. Basic /\ Round => EvenShare
  <2> SUFFICES ASSUME Round, IsInjective(share.pool),
                      NEW c \in ToSet(share.pool), NEW d \in ToSet(share.pool)
               PROVE  share.taken[c] <= share.taken[d] + 1
    BY DEF EvenShare
  <2> DEFINE pool == share.pool
             n == Len(pool)
  <2>1. n \in Nat /\ DOMAIN pool = 1..n
    BY LenProperties DEF Round
  <2>2. PICK x \in 1..n, y \in 1..n : c = pool[x] /\ d = pool[y]
    BY <2>1 DEF ToSet
  <2>3. pool # <<>>
    BY <2>1, <2>2
  <2>4. PICK first \in 0..(n - 1), q \in Nat : \A j \in 0..(n - 1) :
           share.taken[pool[j + 1]] = IF Between(j, first, rr) THEN q + 1 ELSE q
    BY <2>3 DEF Round
  <2> HIDE DEF pool, n
  <2>5. x - 1 \in 0..(n - 1) /\ (x - 1) + 1 = x /\ y - 1 \in 0..(n - 1) /\ (y - 1) + 1 = y
    BY <2>1
  <2>6. share.taken[c] \in {q, q + 1} /\ share.taken[d] \in {q, q + 1}
    BY <2>2, <2>4, <2>5
  <2> QED
    BY <2>6
<1> QED
  BY <1>1, InitRound, StepRound, AlwaysBasic, PTL DEF Spec
=============================================================================
