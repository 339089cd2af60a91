----------------------- MODULE CacheCoordinatorProofs -----------------------
(***************************************************************************)
(* Proofs about CacheCoordinator, for any number of threads, keys and      *)
(* sessions, layers of any size, and any times.                            *)
(***************************************************************************)
EXTENDS CacheCoordinator, SequenceLemmas

-----------------------------------------------------------------------------
(* The inductive invariant, in parts.                                      *)

\* A query that is promoting or replying has its answer.
Answered ==
    \A t \in Threads : InCall(t, "query", "promote") \/ InCall(t, "query", "reply")
                           => call[t].result \in Results

Basic == TypeOK /\ Answered

\* The thread is in a call that changes the cache.
Mutating(t) == call[t] # None /\ call[t].op \in Mutators

\* L1 holds a node with entry e for k.
Holds(k, e) == [key |-> k, entry |-> e] \in ToSet(lru)

\* Where calls on a key are in flight, and one of them changes it, the key is overlapped;
\* a call that changes it alone has no other beside it.
Overlaps ==
    \A t \in Threads : Mutating(t) =>
        /\ call[t].alone => Others(t, call[t].key) = {}
        /\ ~call[t].alone \/ Others(t, call[t].key) # {} => call[t].key \in overlapped

\* A write that is alone has its entry in L1 or nothing there, once it has been there, and
\* its key is not dead; what is too large for L2 is in L3 before L2 is written.
Writing ==
    \A t \in Threads : call[t] # None /\ call[t].op = "write" =>
        /\ call[t].alone => call[t].key \notin dead
        /\ call[t].alone /\ call[t].step # "l1" /\ call[t].key \notin Large
               => \A e \in Entry : Holds(call[t].key, e) => e.version = call[t].entry.version
        /\ call[t].step = "l2" /\ call[t].key \in Mid => call[t].key \in archived

\* An invalidate that is alone has left nothing in L1.
Invalidating ==
    \A t \in Threads : InCall(t, "invalidate", "l2") /\ call[t].alone => call[t].key \notin Cached

\* A copy that is being promoted is of the write L2 holds, unless calls overlapped.
Promoting ==
    \A t \in Threads : InCall(t, "query", "promote") /\ call[t].key \notin overlapped =>
        /\ l2[call[t].key] # None
        /\ call[t].result.entry.version = l2[call[t].key].version
        /\ call[t].key \notin dead

\* What L1 and L2 hold, in terms of the nodes of L1's list.
Agreeing ==
    /\ \A k \in Keys \ (overlapped \cup Large) : \A e \in Entry :
          Holds(k, e) /\ ~Changing(k) /\ l2[k] # None => e.version = l2[k].version
    /\ \A k \in Mid : l2[k] # None => k \in archived

\* A dead key is in neither layer.
Buried ==
    \A k \in dead \ overlapped : k \notin Cached /\ (l2[k] = None \/ l2[k].status = "INVALIDATED")

-----------------------------------------------------------------------------
(* The operators of the model.                                             *)

\* None is no entry, no result and no call.
LEMMA NoneIsNothing ==
    /\ \A e \in Entry : e # None
    /\ \A x \in Results : x # None
    /\ \A c \in Calls : c # None
  BY NoneAssumption

\* The kinds of calls.
QueryCalls == [op : {"query"}, step : {"l1", "session", "l2", "promote", "reply"}, key : Keys,
               session : Sessions, result : Results \cup {None}, alone : BOOLEAN]
WriteCalls == [op : {"write"}, step : {"l1", "l3", "l2"}, key : Keys, entry : Entry,
               session : Sessions, alone : BOOLEAN]
AppendCalls == [op : {"append"}, step : {"turn"}, key : Keys, session : Sessions, alone : BOOLEAN]
InvalidateCalls == [op : {"invalidate"}, step : {"l1", "l2"}, key : Keys, cascade : BOOLEAN,
                    alone : BOOLEAN]

\* A call is of one kind, which its op tells.
LEMMA CallKinds ==
    ASSUME NEW c \in Calls
    PROVE  /\ c.op \in {"query", "write", "append", "invalidate"}
           /\ c.key \in Keys /\ c.alone \in BOOLEAN
           /\ c.op = "query" => c \in QueryCalls
           /\ c.op = "write" => c \in WriteCalls
           /\ c.op = "append" => c \in AppendCalls
           /\ c.op = "invalidate" => c \in InvalidateCalls
<1>1. c \in QueryCalls \cup WriteCalls \cup AppendCalls \cup InvalidateCalls
  BY DEF Calls, QueryCalls, WriteCalls, AppendCalls, InvalidateCalls
<1>2. CASE c \in QueryCalls
  BY <1>2 DEF QueryCalls
<1>3. CASE c \in WriteCalls
  BY <1>3 DEF WriteCalls
<1>4. CASE c \in AppendCalls
  BY <1>4 DEF AppendCalls
<1>5. CASE c \in InvalidateCalls
  BY <1>5 DEF InvalidateCalls
<1> QED
  BY <1>1, <1>2, <1>3, <1>4, <1>5

\* Every kind is a kind of call.
LEMMA KindsAreCalls == QueryCalls \cup WriteCalls \cup AppendCalls \cup InvalidateCalls = Calls
  BY DEF Calls, QueryCalls, WriteCalls, AppendCalls, InvalidateCalls

\* d is the call c, but for alone.
SameCall(c, d) ==
    /\ d.op = c.op /\ d.step = c.step /\ d.key = c.key
    /\ c.op = "query" => d.result = c.result
    /\ c.op = "write" => d.entry = c.entry

\* What setting alone leaves of a call.
LEMMA AloneSet ==
    ASSUME NEW c \in Calls, NEW b \in BOOLEAN
    PROVE  LET d == [c EXCEPT !.alone = b] IN d \in Calls /\ d.alone = b /\ SameCall(c, d)
<1> DEFINE d == [c EXCEPT !.alone = b]
<1>1. CASE c.op = "query"
  <2>1. c \in QueryCalls
    BY <1>1, CallKinds
  <2>2. d \in QueryCalls /\ d.alone = b /\ SameCall(c, d)
    BY <1>1, <2>1 DEF QueryCalls, SameCall
  <2> QED
    BY <2>2, KindsAreCalls
<1>2. CASE c.op = "write"
  <2>1. c \in WriteCalls
    BY <1>2, CallKinds
  <2>2. d \in WriteCalls /\ d.alone = b /\ SameCall(c, d)
    BY <1>2, <2>1 DEF WriteCalls, SameCall
  <2> QED
    BY <2>2, KindsAreCalls
<1>3. CASE c.op = "append"
  <2>1. c \in AppendCalls
    BY <1>3, CallKinds
  <2>2. d \in AppendCalls /\ d.alone = b /\ SameCall(c, d)
    BY <1>3, <2>1 DEF AppendCalls, SameCall
  <2> QED
    BY <2>2, KindsAreCalls
<1>4. CASE c.op = "invalidate"
  <2>1. c \in InvalidateCalls
    BY <1>4, CallKinds
  <2>2. d \in InvalidateCalls /\ d.alone = b /\ SameCall(c, d)
    BY <1>4, <2>1 DEF InvalidateCalls, SameCall
  <2> QED
    BY <2>2, KindsAreCalls
<1> QED
  BY <1>1, <1>2, <1>3, <1>4, CallKinds

\* The calls, after a thread entered one.
LEMMA EnterFacts ==
    ASSUME TypeOK, NEW t \in Threads, NEW c \in Calls, Enter(t, c)
    PROVE  LET rivals == {u \in Others(t, c.key) : {call[u].op, c.op} \cap Mutators # {}}
           IN  /\ call' \in [Threads -> Calls \cup {None}]
               /\ call[t] = None
               /\ call'[t] \in Calls /\ call'[t].alone = (rivals = {}) /\ SameCall(c, call'[t])
               /\ \A u \in rivals : /\ call[u] \in Calls /\ call'[u] \in Calls /\ ~call'[u].alone
                                    /\ SameCall(call[u], call'[u])
               /\ \A u \in Threads : u # t /\ u \notin rivals => call'[u] = call[u]
               /\ overlapped' = IF rivals = {} THEN overlapped ELSE overlapped \cup {c.key}
<1> DEFINE rivals == {u \in Others(t, c.key) : {call[u].op, c.op} \cap Mutators # {}}
<1>1. /\ call[t] = None
      /\ call' = [u \in Threads |->
                     IF u = t THEN [c EXCEPT !.alone = rivals = {}]
                     ELSE IF u \in rivals THEN [call[u] EXCEPT !.alone = FALSE]
                     ELSE call[u]]
      /\ overlapped' = IF rivals = {} THEN overlapped ELSE overlapped \cup {c.key}
  BY DEF Enter
<1>2. \A u \in rivals : u \in Threads /\ u # t /\ call[u] # None
  BY DEF Others
<1> HIDE DEF rivals
<1>3. call \in [Threads -> Calls \cup {None}]
  BY DEF TypeOK
<1>4. \A u \in rivals : call[u] \in Calls
  BY <1>2, <1>3
<1>5. call'[t] = [c EXCEPT !.alone = rivals = {}]
  BY <1>1
<1>6. call'[t] \in Calls /\ call'[t].alone = (rivals = {}) /\ SameCall(c, call'[t])
  BY <1>5, AloneSet
<1>7. ASSUME NEW u \in rivals
      PROVE  call'[u] \in Calls /\ ~call'[u].alone /\ SameCall(call[u], call'[u])
  <2>1. call'[u] = [call[u] EXCEPT !.alone = FALSE]
    BY <1>1, <1>2
  <2> QED
    BY <1>4, <2>1, AloneSet
<1>8. \A u \in Threads : u # t /\ u \notin rivals => call'[u] = call[u]
  BY <1>1
<1>9. DOMAIN call' = Threads /\ call' = [u \in Threads |-> call'[u]]
  BY <1>1
<1>10. call' \in [Threads -> Calls \cup {None}]
  BY <1>3, <1>6, <1>7, <1>8, <1>9
<1> QED
  BY <1>1, <1>4, <1>6, <1>7, <1>8, <1>10 DEF rivals

-----------------------------------------------------------------------------
(* L1's list.                                                              *)

\* A list that holds no key twice.
ListOK(s) ==
    /\ s \in Seq(Node) /\ IsInjective(s)
    /\ \A m, n \in ToSet(s) : m.key = n.key => m = n

\* The same, by position; and the keys it holds.
LEMMA ListFacts ==
    ASSUME NEW s \in Seq(Node)
    PROVE  /\ ListOK(s) <=> \A i, j \in 1..Len(s) : s[i].key = s[j].key => i = j
           /\ {s[i].key : i \in 1..Len(s)} = {n.key : n \in ToSet(s)}
           /\ ToSet(s) \subseteq Node
<1>1. DOMAIN s = 1..Len(s) /\ \A i \in 1..Len(s) : s[i] \in Node
  BY LenProperties, ElementOfSeq
<1>2. ToSet(s) = {s[i] : i \in 1..Len(s)}
  BY <1>1 DEF ToSet
<1>3. ASSUME ListOK(s), NEW i \in 1..Len(s), NEW j \in 1..Len(s), s[i].key = s[j].key
      PROVE  i = j
  <2>1. s[i] = s[j]
    BY <1>2, <1>3 DEF ListOK
  <2> QED
    BY <1>1, <1>3, <2>1 DEF ListOK, IsInjective
<1>4. ASSUME \A i, j \in 1..Len(s) : s[i].key = s[j].key => i = j
      PROVE  ListOK(s)
  <2>1. IsInjective(s)
    BY <1>1, <1>4 DEF IsInjective
  <2>2. ASSUME NEW m \in ToSet(s), NEW n \in ToSet(s), m.key = n.key PROVE m = n
    BY <1>2, <1>4, <2>2
  <2> QED
    BY <2>1, <2>2 DEF ListOK
<1>5. {s[i].key : i \in 1..Len(s)} = {n.key : n \in ToSet(s)}
  BY <1>2
<1> QED
  BY <1>1, <1>2, <1>3, <1>4, <1>5

\* What L1 holds.
LEMMA L1Facts ==
    ASSUME TypeOK
    PROVE  /\ lru \in Seq(Node) /\ Len(lru) \in Nat /\ ListOK(lru) /\ ToSet(lru) \subseteq Node
           /\ \A k : k \in Cached <=> \E e \in Entry : Holds(k, e)
           /\ \A k \in Cached : k \in Keys /\ L1Entry(k) \in Entry /\ Holds(k, L1Entry(k))
           /\ \A k, e : Holds(k, e) => k \in Cached /\ k \in Keys /\ e \in Entry /\ e = L1Entry(k)
<1>1. lru \in Seq(Node) /\ ListOK(lru) /\ ToSet(lru) \subseteq Node /\ Len(lru) \in Nat
  BY ListFacts, LenProperties DEF TypeOK
<1>2. ToSet(lru) = {lru[i] : i \in 1..Len(lru)}
  BY <1>1, LenProperties DEF ToSet
<1>3. Cached = {n.key : n \in ToSet(lru)}
  BY <1>1, ListFacts DEF Cached
<1>4. \A n \in Node : n = [key |-> n.key, entry |-> n.entry] /\ n.key \in Keys /\ n.entry \in Entry
  BY DEF Node
<1>5. \A k : k \in Cached <=> \E e \in Entry : Holds(k, e)
  <2>1. ASSUME NEW k \in Cached PROVE \E e \in Entry : Holds(k, e)
    <3>1. PICK n \in ToSet(lru) : k = n.key
      BY <1>3
    <3>2. n = [key |-> k, entry |-> n.entry] /\ n.entry \in Entry
      BY <1>1, <1>4, <3>1
    <3> QED
      BY <3>1, <3>2 DEF Holds
  <2>2. ASSUME NEW k, NEW e \in Entry, Holds(k, e) PROVE k \in Cached
    <3>1. [key |-> k, entry |-> e].key = k
      OBVIOUS
    <3> QED
      BY <1>3, <2>2, <3>1 DEF Holds
  <2> QED
    BY <2>1, <2>2
<1>6. ASSUME NEW k \in Cached PROVE k \in Keys /\ L1Entry(k) \in Entry /\ Holds(k, L1Entry(k))
  <2>1. \E i \in 1..Len(lru) : lru[i].key = k
    BY DEF Cached
  <2> DEFINE i == CHOOSE i \in 1..Len(lru) : lru[i].key = k
  <2>2. i \in 1..Len(lru) /\ lru[i].key = k
    BY <2>1
  <2>3. L1Entry(k) = lru[i].entry
    BY DEF L1Entry
  <2> HIDE DEF i
  <2>4. lru[i] \in Node /\ lru[i] \in ToSet(lru)
    BY <1>1, <1>2, <2>2
  <2>5. lru[i] = [key |-> k, entry |-> L1Entry(k)]
    BY <1>4, <2>2, <2>3, <2>4
  <2> QED
    BY <1>4, <2>2, <2>3, <2>4, <2>5 DEF Holds
<1>7. ASSUME NEW k, NEW e, Holds(k, e)
      PROVE  k \in Cached /\ k \in Keys /\ e \in Entry /\ e = L1Entry(k)
  <2> DEFINE n == [key |-> k, entry |-> e]
  <2>1. n \in ToSet(lru) /\ n.key = k /\ n.entry = e
    BY <1>7 DEF Holds
  <2> HIDE DEF n
  <2>2. n \in Node
    BY <1>1, <2>1
  <2>3. k \in Keys /\ e \in Entry /\ k \in Cached
    BY <1>3, <1>4, <2>1, <2>2
  <2>4. [key |-> k, entry |-> L1Entry(k)] \in ToSet(lru)
    BY <1>6, <2>3 DEF Holds
  <2>5. n = [key |-> k, entry |-> L1Entry(k)]
    BY <1>1, <2>1, <2>4 DEF ListOK
  <2>6. n.entry = L1Entry(k)
    BY <2>5
  <2> QED
    BY <2>1, <2>3, <2>6
<1> QED
  BY <1>1, <1>5, <1>6, <1>7

\* The list without a key.
LEMMA WithoutFacts ==
    ASSUME TypeOK, NEW k \in Keys
    PROVE  /\ L1Without(k) \in Seq(Node) /\ ListOK(L1Without(k))
           /\ ToSet(L1Without(k)) = {n \in ToSet(lru) : n.key # k}
           /\ Len(L1Without(k)) \in Nat /\ Len(L1Without(k)) <= Len(lru)
           /\ k \in Cached => Len(L1Without(k)) <= Len(lru) - 1
<1> DEFINE T == [key : Keys \ {k}, entry : Entry]
           r == Keep(lru, T)
<1>1. lru \in Seq(Node) /\ IsInjective(lru) /\ ToSet(lru) \subseteq Node
      /\ \A m, n \in ToSet(lru) : m.key = n.key => m = n
  BY L1Facts DEF ListOK
<1>2. \A n \in Node : n \in T <=> n.key # k
  BY DEF Node
<1>3. L1Without(k) = r
  BY DEF L1Without
<1>4. r \in Seq(Node) /\ ToSet(r) = ToSet(lru) \cap T /\ IsInjective(r)
  BY <1>1, KeepFacts
<1> HIDE DEF T, r
<1>5. ToSet(r) = {n \in ToSet(lru) : n.key # k}
  BY <1>1, <1>2, <1>4
<1>6. ListOK(r)
  BY <1>1, <1>4, <1>5 DEF ListOK
<1>7. /\ IsFiniteSet(ToSet(lru)) /\ Cardinality(ToSet(lru)) = Len(lru)
      /\ Cardinality(ToSet(r)) = Len(r) /\ Len(r) \in Nat /\ Len(lru) \in Nat
  BY <1>1, <1>4, InjectiveLen, LenProperties
<1>8. Len(r) <= Len(lru)
  <2>1. ToSet(r) \subseteq ToSet(lru)
    BY <1>4
  <2> QED
    BY <1>7, <2>1, FS_Subset
<1>9. ASSUME k \in Cached PROVE Len(r) <= Len(lru) - 1
  <2>1. PICK e \in Entry : Holds(k, e)
    BY <1>9, L1Facts
  <2> DEFINE n == [key |-> k, entry |-> e]
  <2>2. n \in ToSet(lru) /\ n.key = k
    BY <2>1 DEF Holds
  <2> HIDE DEF n
  <2>3. ToSet(r) \subseteq ToSet(lru) \ {n}
    BY <1>5, <2>2
  <2>4. IsFiniteSet(ToSet(lru) \ {n}) /\ Cardinality(ToSet(lru) \ {n}) = Len(lru) - 1
    BY <1>7, <2>2, FS_RemoveElement
  <2> QED
    BY <1>7, <2>3, <2>4, FS_Subset
<1> QED
  BY <1>3, <1>4, <1>5, <1>6, <1>7, <1>8, <1>9

\* The list with a new node in front.
LEMMA SetFacts ==
    ASSUME TypeOK, NEW k \in Keys, NEW e \in Entry
    PROVE  /\ L1Set(k, e) \in Seq(Node) /\ ListOK(L1Set(k, e)) /\ Len(L1Set(k, e)) <= MaxSize
           /\ [key |-> k, entry |-> e] \in ToSet(L1Set(k, e))
           /\ \A n \in ToSet(L1Set(k, e)) :
                 n = [key |-> k, entry |-> e] \/ (n \in ToSet(lru) /\ n.key # k)
<1> DEFINE x == [key |-> k, entry |-> e]
           r == L1Without(k)
           m == IF k \in Cached \/ Len(r) < MaxSize THEN Len(r) ELSE MaxSize - 1
           p == SubSeq(r, 1, m)
           y == <<x>>
           s == y \o p
<1>1. L1Set(k, e) = s
  BY DEF L1Set
<1>2. /\ r \in Seq(Node) /\ ListOK(r) /\ ToSet(r) = {n \in ToSet(lru) : n.key # k}
      /\ Len(r) \in Nat /\ Len(r) <= Len(lru) /\ (k \in Cached => Len(r) <= Len(lru) - 1)
  BY WithoutFacts
<1>3. Len(lru) <= MaxSize /\ MaxSize \in Nat /\ MaxSize >= 1 /\ Len(lru) \in Nat
  BY SizeAssumption, L1Facts DEF TypeOK
<1>4. x \in Node /\ x.key = k
  BY DEF Node
<1> HIDE DEF x, r
<1>5. m \in 0..Len(r) /\ m <= MaxSize - 1
  BY <1>2, <1>3
<1> HIDE DEF m
<1>6. p \in Seq(Node) /\ Len(p) = m /\ ToSet(p) \subseteq ToSet(r) /\ IsInjective(p)
  BY <1>2, <1>5, PrefixFacts DEF ListOK
<1> HIDE DEF p
<1>7. y \in Seq(Node) /\ Len(y) = 1 /\ ToSet(y) = {x} /\ IsInjective(y)
  BY <1>4 DEF ToSet, IsInjective
<1> HIDE DEF y
<1>8. s \in Seq(Node) /\ Len(s) = 1 + m
  BY <1>6, <1>7, ConcatProperties
<1>9. ToSet(s) = {x} \cup ToSet(p)
  BY <1>6, <1>7, Concatenation
<1>10. x \notin ToSet(p)
  BY <1>2, <1>4, <1>6
<1>11. IsInjective(s)
  BY <1>6, <1>7, <1>10, Concatenation
<1> HIDE DEF s
<1>12. \A n \in ToSet(s) : n = x \/ (n \in ToSet(lru) /\ n.key # k)
  BY <1>2, <1>6, <1>9
<1>13. \A n, o \in ToSet(s) : n.key = o.key => n = o
  <2>1. ListOK(lru)
    BY L1Facts
  <2> QED
    BY <1>4, <1>12, <2>1 DEF ListOK
<1>14. ListOK(s)
  BY <1>8, <1>11, <1>13 DEF ListOK
<1>15. Len(s) <= MaxSize
  BY <1>3, <1>5, <1>8
<1> QED
  BY <1>1, <1>8, <1>9, <1>12, <1>14, <1>15 DEF x

\* L1, after an entry was set.
LEMMA SetL1 ==
    ASSUME TypeOK, NEW k \in Keys, NEW e \in Entry, lru' = L1Set(k, e)
    PROVE  /\ lru' \in Seq(Node) /\ Len(lru') <= MaxSize
           /\ \A i, j \in 1..Len(lru') : lru'[i].key = lru'[j].key => i = j
           /\ \A x, f : Holds(x, f)' => (x = k /\ f = e) \/ (x # k /\ Holds(x, f))
           /\ \A x \in Cached' : x = k \/ x \in Cached
<1>1. /\ lru' \in Seq(Node) /\ ListOK(lru') /\ Len(lru') <= MaxSize
      /\ \A n \in ToSet(lru') :
            n = [key |-> k, entry |-> e] \/ (n \in ToSet(lru) /\ n.key # k)
  BY SetFacts
<1>2. /\ \A i, j \in 1..Len(lru') : lru'[i].key = lru'[j].key => i = j
      /\ Cached' = {n.key : n \in ToSet(lru')}
  BY <1>1, ListFacts DEF Cached
<1>3. ASSUME NEW x, NEW f, Holds(x, f)' PROVE (x = k /\ f = e) \/ (x # k /\ Holds(x, f))
  <2> DEFINE n == [key |-> x, entry |-> f]
  <2>1. n \in ToSet(lru') /\ n.key = x /\ n.entry = f
    BY <1>3 DEF Holds
  <2>2. n = [key |-> k, entry |-> e] => x = k /\ f = e
    OBVIOUS
  <2>3. n \in ToSet(lru) => Holds(x, f)
    BY DEF Holds
  <2> HIDE DEF n
  <2> QED
    BY <1>1, <2>1, <2>2, <2>3
<1>4. ASSUME NEW x \in Cached' PROVE x = k \/ x \in Cached
  <2>1. PICK n \in ToSet(lru') : x = n.key
    BY <1>2
  <2>2. Cached = {m.key : m \in ToSet(lru)}
    BY L1Facts, ListFacts DEF Cached
  <2>3. [key |-> k, entry |-> e].key = k
    OBVIOUS
  <2> QED
    BY <1>1, <2>1, <2>2, <2>3
<1> QED
  BY <1>1, <1>2, <1>3, <1>4

\* L1, after a key was dropped.
LEMMA DropL1 ==
    ASSUME TypeOK, NEW k \in Keys, lru' = L1Without(k)
    PROVE  /\ lru' \in Seq(Node) /\ Len(lru') <= MaxSize
           /\ \A i, j \in 1..Len(lru') : lru'[i].key = lru'[j].key => i = j
           /\ \A x, f : Holds(x, f)' => x # k /\ Holds(x, f)
           /\ \A x \in Cached' : x # k /\ x \in Cached
<1>1. /\ lru' \in Seq(Node) /\ ListOK(lru') /\ Len(lru') \in Nat /\ Len(lru') <= Len(lru)
      /\ ToSet(lru') = {n \in ToSet(lru) : n.key # k}
  BY WithoutFacts
<1>2. Len(lru) <= MaxSize /\ Len(lru) \in Nat /\ MaxSize \in Nat
  BY L1Facts, SizeAssumption DEF TypeOK
<1>3. /\ \A i, j \in 1..Len(lru') : lru'[i].key = lru'[j].key => i = j
      /\ Cached' = {n.key : n \in ToSet(lru')} /\ Cached = {n.key : n \in ToSet(lru)}
  BY <1>1, L1Facts, ListFacts DEF Cached
<1>4. ASSUME NEW x, NEW f, Holds(x, f)' PROVE x # k /\ Holds(x, f)
  <2>1. [key |-> x, entry |-> f] \in ToSet(lru) /\ [key |-> x, entry |-> f].key # k
    BY <1>1, <1>4 DEF Holds
  <2> QED
    BY <2>1 DEF Holds
<1>5. \A x \in Cached' : x # k /\ x \in Cached
  BY <1>1, <1>3
<1>6. Len(lru') <= MaxSize
  BY <1>1, <1>2
<1> QED
  BY <1>1, <1>3, <1>4, <1>5, <1>6

-----------------------------------------------------------------------------
(* L2, the sessions and the steps of a call.                               *)

\* A cascade reaches only entries that exist and are not INVALIDATED.
LEMMA ReachableFacts ==
    ASSUME NEW e, NEW k \in Keys, NEW x \in Reachable(e, k), x # k
    PROVE  e[x] # None /\ e[x].status # "INVALIDATED"
<1> DEFINE S == {k} \cup {z \in Keys : e[z] # None /\ e[z].status # "INVALIDATED"}
<1>1. S \in SUBSET Keys /\ k \in S
  OBVIOUS
<1>2. \A z \in Keys : /\ e[z] # None /\ e[z].status # "INVALIDATED"
                      /\ DependsOn[z] \cap S # {}
                      => z \in S
  OBVIOUS
<1> HIDE DEF S
<1>3. x \in S
  BY <1>1, <1>2 DEF Reachable
<1> QED
  BY <1>3 DEF S

\* hard_invalidate marks entries; it makes and removes none, and revives none.
LEMMA HardFacts ==
    ASSUME TypeOK, NEW k \in Keys, l2[k] # None, NEW cascade \in BOOLEAN
    PROVE  LET h == HardInvalidated(k, cascade)
           IN  /\ h \in [Keys -> Entry \cup {None}]
               /\ \A x \in Keys : h[x] # None <=> l2[x] # None
               /\ \A x \in Keys : l2[x] # None => h[x].version = l2[x].version
               /\ \A x \in Keys : l2[x] # None /\ l2[x].status = "INVALIDATED"
                                     => h[x].status = "INVALIDATED"
               /\ h[k].status = "INVALIDATED"
<1> DEFINE e == [l2 EXCEPT ![k].status = "INVALIDATED", ![k].low = TRUE]
           h == HardInvalidated(k, cascade)
<1>1. l2 \in [Keys -> Entry \cup {None}] /\ l2[k] \in Entry
  BY DEF TypeOK
<1>2. /\ e \in [Keys -> Entry \cup {None}]
      /\ e[k] = [l2[k] EXCEPT !.status = "INVALIDATED", !.low = TRUE]
      /\ \A x \in Keys : x # k => e[x] = l2[x]
  BY <1>1 DEF Entry, Status
<1>3. e[k] \in Entry /\ e[k].status = "INVALIDATED" /\ e[k].version = l2[k].version
  BY <1>1, <1>2 DEF Entry, Status
<1>4. h = IF ~cascade THEN e
          ELSE [x \in Keys |-> IF x \in Reachable(e, k) \ {k}
                               THEN [e[x] EXCEPT !.status = "STALE", !.low = TRUE]
                               ELSE e[x]]
  BY DEF HardInvalidated
<1> HIDE DEF e, h
<1>5. /\ h \in [Keys -> Entry \cup {None}] /\ DOMAIN h = Keys
      /\ \A x \in Keys : \/ h[x] = e[x]
                         \/ /\ x # k /\ e[x] \in Entry /\ e[x].status # "INVALIDATED"
                            /\ h[x] \in Entry /\ h[x].version = e[x].version
  <2>1. CASE ~cascade
    BY <1>2, <1>4, <2>1
  <2>2. CASE cascade
    <3>1. ASSUME NEW x \in Reachable(e, k) \ {k}
          PROVE  /\ x \in Keys /\ e[x] \in Entry /\ e[x].status # "INVALIDATED"
                 /\ [e[x] EXCEPT !.status = "STALE", !.low = TRUE] \in Entry
                 /\ [e[x] EXCEPT !.status = "STALE", !.low = TRUE].version = e[x].version
      <4>1. x \in Keys /\ e[x] # None /\ e[x].status # "INVALIDATED"
        BY <3>1, ReachableFacts DEF Reachable
      <4>2. e[x] \in Entry
        BY <1>2, <4>1
      <4> QED
        BY <4>1, <4>2 DEF Entry, Status
    <3> DEFINE g(x) == IF x \in Reachable(e, k) \ {k}
                       THEN [e[x] EXCEPT !.status = "STALE", !.low = TRUE]
                       ELSE e[x]
    <3>2. \A x \in Keys : /\ g(x) \in Entry \cup {None}
                          /\ \/ g(x) = e[x]
                             \/ /\ x # k /\ e[x] \in Entry /\ e[x].status # "INVALIDATED"
                                /\ g(x) \in Entry /\ g(x).version = e[x].version
      BY <1>2, <3>1
    <3>3. h = [x \in Keys |-> g(x)]
      BY <1>4, <2>2
    <3> HIDE DEF g
    <3> QED
      BY <3>2, <3>3
  <2> QED
    BY <2>1, <2>2
<1>6. \A x \in Keys : e[x] # None <=> l2[x] # None
  BY <1>1, <1>2, <1>3, NoneIsNothing
<1>7. \A x \in Keys : h[x] # None <=> l2[x] # None
  BY <1>5, <1>6, NoneIsNothing
<1>8. \A x \in Keys : l2[x] # None => h[x].version = l2[x].version
  BY <1>2, <1>3, <1>5
<1>9. \A x \in Keys : l2[x] # None /\ l2[x].status = "INVALIDATED" => h[x].status = "INVALIDATED"
  BY <1>2, <1>3, <1>5
<1>10. h[k].status = "INVALIDATED"
  BY <1>3, <1>5
<1> QED
  BY <1>5, <1>7, <1>8, <1>9, <1>10 DEF h

\* A turn that is appended to a session.
LEMMA AppendTurnType ==
    ASSUME TypeOK, NEW s \in Sessions, NEW k \in Keys,
           NEW cap \in {Capability[x] : x \in Keys} \cup {"agent_call"}, AppendTurn(s, cap, k)
    PROVE  /\ turns' \in [Sessions -> Seq(Turn)]
           /\ \A x \in Sessions : Len(turns'[x]) <= MaxTurns
<1> DEFINE turn == [capability |-> cap, key |-> k]
           grown == Append(turns[s], turn)
           a == Appended(s, turn)
<1>1. /\ turns \in [Sessions -> Seq(Turn)] /\ \A x \in Sessions : Len(turns[x]) <= MaxTurns
      /\ turns[s] \in Seq(Turn) /\ Len(turns[s]) \in Nat /\ MaxTurns \in Nat
  BY SizeAssumption, LenProperties DEF TypeOK
<1>2. turn \in Turn
  BY DEF Turn
<1>3. a = IF Len(grown) > MaxTurns THEN Tail(grown) ELSE grown
  BY DEF Appended
<1>4. turns' = [turns EXCEPT ![s] = a]
  BY DEF AppendTurn
<1> HIDE DEF turn
<1>5. grown \in Seq(Turn) /\ Len(grown) = Len(turns[s]) + 1
  BY <1>1, <1>2, AppendAt
<1> HIDE DEF grown
<1>6. Len(grown) > MaxTurns => grown # <<>>
  BY <1>1, <1>5
<1>7. Len(grown) > MaxTurns => Tail(grown) \in Seq(Turn) /\ Len(Tail(grown)) = Len(grown) - 1
  BY <1>5, <1>6, TailAt
<1>8. a \in Seq(Turn) /\ Len(a) <= MaxTurns
  BY <1>1, <1>3, <1>5, <1>7
<1> HIDE DEF a
<1> QED
  BY <1>1, <1>4, <1>8

\* d is what the call c becomes by a step: its step and its answer change.
Moved(c, d) ==
    /\ d.op = c.op /\ d.key = c.key /\ d.alone = c.alone
    /\ c.op = "write" => d.entry = c.entry

\* The next step of a call.
LEMMA GotoFacts ==
    ASSUME TypeOK, NEW t \in Threads, call[t] # None, NEW step, Goto(t, step),
           \/ call[t].op = "query" /\ step \in {"session", "l2", "reply"}
           \/ call[t].op = "write" /\ step \in {"l3", "l2"}
           \/ call[t].op = "invalidate" /\ step = "l2"
    PROVE  /\ call' \in [Threads -> Calls \cup {None}]
           /\ call'[t] \in Calls /\ Moved(call[t], call'[t]) /\ call'[t].step = step
           /\ call[t].op = "query" => call'[t].result = call[t].result
           /\ \A u \in Threads : u # t => call'[u] = call[u]
<1> DEFINE d == [call[t] EXCEPT !.step = step]
<1>1. call \in [Threads -> Calls \cup {None}] /\ call[t] \in Calls
  BY DEF TypeOK
<1>2. call' = [call EXCEPT ![t] = d]
  BY DEF Goto
<1>3. d \in Calls /\ Moved(call[t], d) /\ d.step = step
      /\ (call[t].op = "query" => d.result = call[t].result)
  <2>1. CASE call[t].op = "query" /\ step \in {"session", "l2", "reply"}
    <3>1. call[t] \in QueryCalls
      BY <1>1, <2>1, CallKinds
    <3>2. d \in QueryCalls /\ Moved(call[t], d) /\ d.step = step /\ d.result = call[t].result
      BY <2>1, <3>1 DEF QueryCalls, Moved
    <3> QED
      BY <3>2, KindsAreCalls
  <2>2. CASE call[t].op = "write" /\ step \in {"l3", "l2"}
    <3>1. call[t] \in WriteCalls
      BY <1>1, <2>2, CallKinds
    <3>2. d \in WriteCalls /\ Moved(call[t], d) /\ d.step = step
      BY <2>2, <3>1 DEF WriteCalls, Moved
    <3> QED
      BY <2>2, <3>2, KindsAreCalls
  <2>3. CASE call[t].op = "invalidate" /\ step = "l2"
    <3>1. call[t] \in InvalidateCalls
      BY <1>1, <2>3, CallKinds
    <3>2. d \in InvalidateCalls /\ Moved(call[t], d) /\ d.step = step
      BY <2>3, <3>1 DEF InvalidateCalls, Moved
    <3> QED
      BY <2>3, <3>2, KindsAreCalls
  <2> QED
    BY <2>1, <2>2, <2>3
<1> HIDE DEF d
<1> QED
  BY <1>1, <1>2, <1>3

\* A query is answered.
LEMMA AnswerFacts ==
    ASSUME TypeOK, NEW t \in Threads, call[t] # None, call[t].op = "query",
           NEW step \in {"promote", "reply"}, NEW layer \in {"L1", "L2"}, NEW k \in Keys,
           NEW e \in Entry, NEW stale \in BOOLEAN, Answer(t, step, layer, k, e, stale)
    PROVE  /\ call' \in [Threads -> Calls \cup {None}]
           /\ call'[t] \in Calls /\ Moved(call[t], call'[t]) /\ call'[t].step = step
           /\ call'[t].result \in Results /\ call'[t].result.entry = e
           /\ \A u \in Threads : u # t => call'[u] = call[u]
<1> DEFINE x == [layer |-> layer, key |-> k, entry |-> e, stale |-> stale]
           d == [call[t] EXCEPT !.step = step, !.result = x]
<1>1. call \in [Threads -> Calls \cup {None}] /\ call[t] \in Calls
  BY DEF TypeOK
<1>2. x \in Results /\ x.entry = e
  BY DEF Results
<1>3. call' = [call EXCEPT ![t] = d]
  BY <1>1 DEF Answer
<1> HIDE DEF x
<1>4. call[t] \in QueryCalls
  BY <1>1, CallKinds
<1>5. d \in QueryCalls /\ Moved(call[t], d) /\ d.step = step /\ d.result = x
  BY <1>2, <1>4 DEF QueryCalls, Moved
<1> HIDE DEF d
<1>6. d \in Calls
  BY <1>5, KindsAreCalls
<1> QED
  BY <1>1, <1>2, <1>3, <1>5, <1>6

\* A call ends.
LEMMA LeaveFacts ==
    ASSUME TypeOK, NEW t \in Threads, call' = [call EXCEPT ![t] = None]
    PROVE  /\ call' \in [Threads -> Calls \cup {None}] /\ call'[t] = None
           /\ \A u \in Threads : u # t => call'[u] = call[u]
  BY DEF TypeOK

-----------------------------------------------------------------------------
(* Types: every step keeps Basic.                                          *)

\* The other threads' calls are as they were.
OthersStay(t) == \A u \in Threads : u # t => call'[u] = call[u]

\* What thread t does to its own call keeps Basic, with the rest of the state typed.
LEMMA StepBasic ==
    ASSUME Basic, NEW t \in Threads, call' \in [Threads -> Calls \cup {None}], OthersStay(t),
           call'[t] # None /\ call'[t].op = "query" /\ call'[t].step \in {"promote", "reply"}
               => call'[t].result \in Results,
           /\ lru' \in Seq(Node) /\ Len(lru') <= MaxSize
           /\ \A i, j \in 1..Len(lru') : lru'[i].key = lru'[j].key => i = j,
           l2' \in [Keys -> Entry \cup {None}], archived' \subseteq Keys,
           turns' \in [Sessions -> Seq(Turn)], \A s \in Sessions : Len(turns'[s]) <= MaxTurns,
           now' = now, writes' = writes, overlapped' \subseteq Keys, dead' \subseteq Keys
    PROVE  Basic'
<1>1. TypeOK'
  BY DEF Basic, TypeOK
<1>2. Answered'
  BY DEF Basic, Answered, InCall, OthersStay
<1> QED
  BY <1>1, <1>2 DEF Basic

\* A call that ends settles at most its own key.
LEMMA SettleFacts ==
    ASSUME TypeOK, NEW t \in Threads, call[t] # None, Settle(t)
    PROVE  /\ overlapped' \subseteq overlapped /\ overlapped' \subseteq Keys
           /\ call[t].op \notin Mutators => overlapped' = overlapped
           /\ ~call[t].alone => overlapped' = overlapped
           /\ \A x : x # call[t].key => (x \in overlapped' <=> x \in overlapped)
  BY DEF TypeOK, Settle

\* What a thread's call is.
LEMMA CallFacts ==
    ASSUME TypeOK, NEW t \in Threads, call[t] # None
    PROVE  /\ call \in [Threads -> Calls \cup {None}] /\ call[t] \in Calls /\ call[t].key \in Keys
           /\ call[t].op = "query" => call[t] \in QueryCalls /\ call[t].session \in Sessions
           /\ call[t].op = "write" => call[t] \in WriteCalls /\ call[t].session \in Sessions
                                      /\ call[t].entry \in Entry
           /\ call[t].op = "append" => call[t] \in AppendCalls /\ call[t].session \in Sessions
           /\ call[t].op = "invalidate" => call[t] \in InvalidateCalls /\ call[t].cascade \in BOOLEAN
<1>1. call \in [Threads -> Calls \cup {None}] /\ call[t] \in Calls
  BY DEF TypeOK
<1> QED
  BY <1>1, CallKinds DEF QueryCalls, WriteCalls, AppendCalls, InvalidateCalls

\* What the types of the parts of the state say.
LEMMA StateFacts ==
    ASSUME TypeOK
    PROVE  /\ lru \in Seq(Node) /\ Len(lru) <= MaxSize
           /\ \A i, j \in 1..Len(lru) : lru[i].key = lru[j].key => i = j
           /\ l2 \in [Keys -> Entry \cup {None}] /\ archived \subseteq Keys
           /\ turns \in [Sessions -> Seq(Turn)]
           /\ \A s \in Sessions : Len(turns[s]) <= MaxTurns
           /\ overlapped \subseteq Keys /\ dead \subseteq Keys
  BY DEF TypeOK

\* QueryL1 finds a copy, or goes on without one.
LEMMA QueryL1Basic ==
    ASSUME Basic, NEW t \in Threads, QueryL1(t)
    PROVE  /\ Basic' /\ OthersStay(t)
           /\ call'[t] \in QueryCalls /\ call'[t].step \in {"reply", "session"}
           /\ call'[t].key = call[t].key
           /\ \A x, f : Holds(x, f)' => Holds(x, f)
           /\ \A x \in Cached' : x \in Cached
<1> PICK k : k = call[t].key
  OBVIOUS
<1>1. call[t] # None /\ call[t].op = "query" /\ TypeOK
  BY DEF QueryL1, InCall, Basic
<1>2. k \in Keys
  BY <1>1, CallFacts
<1>3. UNCHANGED <<l2, archived, turns, now, writes, overlapped, dead>>
  BY DEF QueryL1
<1>4. CASE k \in Cached /\ ~L1Expired(L1Entry(k))
  <2>1. lru' = L1Set(k, L1Entry(k)) /\ Answer(t, "reply", "L1", k, L1Entry(k), FALSE)
    BY <1>4 DEF QueryL1
  <2>2. L1Entry(k) \in Entry /\ Holds(k, L1Entry(k))
    BY <1>1, <1>4, L1Facts
  <2> PICK e : e = L1Entry(k)
    OBVIOUS
  <2>3. /\ lru' \in Seq(Node) /\ Len(lru') <= MaxSize
        /\ \A i, j \in 1..Len(lru') : lru'[i].key = lru'[j].key => i = j
        /\ \A x, f : Holds(x, f)' => (x = k /\ f = e) \/ (x # k /\ Holds(x, f))
        /\ \A x \in Cached' : x = k \/ x \in Cached
    BY <1>1, <1>2, <2>1, <2>2, SetL1
  <2>4. /\ call' \in [Threads -> Calls \cup {None}]
        /\ call'[t] \in Calls /\ Moved(call[t], call'[t]) /\ call'[t].step = "reply"
        /\ call'[t].result \in Results
        /\ OthersStay(t)
    BY <1>1, <1>2, <2>1, <2>2, AnswerFacts DEF OthersStay
  <2>5. Basic'
    BY <1>1, <1>3, <2>3, <2>4, StateFacts, StepBasic
  <2>6. call'[t].op = "query" /\ call'[t].key = call[t].key
    BY <1>1, <2>4 DEF Moved
  <2> QED
    BY <1>4, <2>2, <2>3, <2>4, <2>5, <2>6, CallKinds
<1>5. CASE ~(k \in Cached /\ ~L1Expired(L1Entry(k)))
  <2>1. lru' = L1Without(k) /\ Goto(t, "session")
    BY <1>5 DEF QueryL1
  <2>2. /\ lru' \in Seq(Node) /\ Len(lru') <= MaxSize
        /\ \A i, j \in 1..Len(lru') : lru'[i].key = lru'[j].key => i = j
        /\ \A x, f : Holds(x, f)' => x # k /\ Holds(x, f)
        /\ \A x \in Cached' : x # k /\ x \in Cached
    BY <1>1, <1>2, <2>1, DropL1
  <2>3. /\ call' \in [Threads -> Calls \cup {None}]
        /\ call'[t] \in Calls /\ Moved(call[t], call'[t]) /\ call'[t].step = "session"
        /\ OthersStay(t)
    BY <1>1, <2>1, GotoFacts DEF OthersStay
  <2>4. Basic'
    BY <1>1, <1>3, <2>2, <2>3, StateFacts, StepBasic
  <2>5. call'[t].op = "query" /\ call'[t].key = call[t].key
    BY <1>1, <2>3 DEF Moved
  <2> QED
    BY <2>2, <2>3, <2>4, <2>5, CallKinds
<1> QED
  BY <1>4, <1>5

\* QuerySession finds a key of the session's in L2, or goes on.
LEMMA QuerySessionBasic ==
    ASSUME Basic, NEW t \in Threads, QuerySession(t)
    PROVE  /\ Basic' /\ OthersStay(t)
           /\ call'[t] \in QueryCalls /\ call'[t].step \in {"reply", "l2"}
           /\ call'[t].key = call[t].key
<1> PICK k : k = call[t].key
  OBVIOUS
<1> PICK s : s = call[t].session
  OBVIOUS
<1>1. call[t] # None /\ call[t].op = "query" /\ TypeOK
  BY DEF QuerySession, InCall, Basic
<1>2. k \in Keys /\ s \in Sessions
  BY <1>1, CallFacts
<1>3. UNCHANGED <<lru, l2, archived, turns, now, writes, overlapped, dead>>
  BY DEF QuerySession
<1> DEFINE recent == Recent(s, Capability[k])
           last == recent[Len(recent)].key
<1>4. CASE recent # <<>> /\ L2Servable(last)
  <2>1. Answer(t, "reply", "L2", last, l2[last], l2[last].status = "STALE")
    BY <1>4 DEF QuerySession
  <2>2. recent \in Seq(Turn)
    BY <1>1, <1>2, StateFacts, KeepFacts DEF Recent
  <2>3. Len(recent) \in 1..Len(recent)
    BY <1>4, <2>2, EmptySeq, LenProperties
  <2>4. recent[Len(recent)] \in Turn
    BY <2>2, <2>3, ElementOfSeq
  <2>5. last \in Keys
    BY <2>4 DEF Turn
  <2> HIDE DEF recent, last
  <2>6. l2[last] \in Entry
    BY <1>1, <1>4, <2>5, StateFacts DEF L2Servable
  <2>7. /\ call' \in [Threads -> Calls \cup {None}]
        /\ call'[t] \in Calls /\ Moved(call[t], call'[t]) /\ call'[t].step = "reply"
        /\ call'[t].result \in Results
        /\ OthersStay(t)
    BY <1>1, <2>1, <2>5, <2>6, AnswerFacts DEF OthersStay
  <2>8. Basic'
    BY <1>1, <1>3, <2>7, StateFacts, StepBasic
  <2>9. call'[t].op = "query" /\ call'[t].key = call[t].key
    BY <1>1, <2>7 DEF Moved
  <2> QED
    BY <2>7, <2>8, <2>9, CallKinds
<1>5. CASE ~(recent # <<>> /\ L2Servable(last))
  <2>1. Goto(t, "l2")
    BY <1>5 DEF QuerySession
  <2>2. /\ call' \in [Threads -> Calls \cup {None}]
        /\ call'[t] \in Calls /\ Moved(call[t], call'[t]) /\ call'[t].step = "l2"
        /\ OthersStay(t)
    BY <1>1, <2>1, GotoFacts DEF OthersStay
  <2>3. Basic'
    BY <1>1, <1>3, <2>2, StateFacts, StepBasic
  <2>4. call'[t].op = "query" /\ call'[t].key = call[t].key
    BY <1>1, <2>2 DEF Moved
  <2> QED
    BY <2>2, <2>3, <2>4, CallKinds
<1> QED
  BY <1>4, <1>5

\* QueryL2Hit copies what L2 has.
LEMMA QueryL2HitBasic ==
    ASSUME Basic, NEW t \in Threads, QueryL2Hit(t)
    PROVE  /\ Basic' /\ OthersStay(t)
           /\ call'[t] \in QueryCalls /\ call'[t].step = "promote" /\ call'[t].key = call[t].key
           /\ l2[call[t].key] \in Entry /\ call'[t].result.entry = l2[call[t].key]
<1> PICK k : k = call[t].key
  OBVIOUS
<1>1. call[t] # None /\ call[t].op = "query" /\ TypeOK
  BY DEF QueryL2Hit, InCall, Basic
<1>2. k \in Keys
  BY <1>1, CallFacts
<1>3. UNCHANGED <<lru, l2, archived, turns, now, writes, overlapped, dead>>
  BY DEF QueryL2Hit
<1> PICK e : e = l2[k]
  OBVIOUS
<1>4. e \in Entry
  BY <1>1, <1>2, StateFacts DEF QueryL2Hit, L2Servable
<1>5. (e.status = "STALE" \/ e.low) \in BOOLEAN
  OBVIOUS
<1>6. Answer(t, "promote", "L2", k, e, e.status = "STALE" \/ e.low)
  BY DEF QueryL2Hit
<1>7. /\ call' \in [Threads -> Calls \cup {None}]
      /\ call'[t] \in Calls /\ Moved(call[t], call'[t]) /\ call'[t].step = "promote"
      /\ call'[t].result \in Results /\ call'[t].result.entry = e
      /\ OthersStay(t)
  <2> DEFINE b == e.status = "STALE" \/ e.low
  <2>1. b \in BOOLEAN /\ Answer(t, "promote", "L2", k, e, b)
    BY <1>5, <1>6
  <2> HIDE DEF b
  <2> QED
    BY <1>1, <1>2, <1>4, <2>1, AnswerFacts DEF OthersStay
<1>8. Basic'
  BY <1>1, <1>3, <1>7, StateFacts, StepBasic
<1>9. call'[t].op = "query" /\ call'[t].key = k
  BY <1>1, <1>7 DEF Moved
<1> QED
  BY <1>4, <1>7, <1>8, <1>9, CallKinds

\* A call that changes neither layer ends, and may leave a turn.
LEMMA EndBasic ==
    ASSUME Basic, NEW t \in Threads, QueryL2Miss(t) \/ Reply(t) \/ ResultTurn(t)
    PROVE  /\ Basic' /\ OthersStay(t) /\ call'[t] = None
           /\ call[t] # None /\ call[t].op \notin Mutators
           /\ UNCHANGED <<lru, l2, archived, overlapped, dead>>
<1>1. TypeOK
  BY DEF Basic
<1>2. call[t] # None /\ call[t].op \in {"query", "append"} /\ Leave(t)
      /\ UNCHANGED <<lru, l2, archived, now, writes, dead>>
  BY DEF QueryL2Miss, Reply, ResultTurn, InCall
<1>3. /\ call' \in [Threads -> Calls \cup {None}] /\ call'[t] = None /\ OthersStay(t)
      /\ Settle(t)
  BY <1>1, <1>2, LeaveFacts DEF Leave, OthersStay
<1>4. call[t].op \notin Mutators
  BY <1>2 DEF Mutators
<1>5. overlapped' = overlapped
  BY <1>1, <1>2, <1>3, <1>4, SettleFacts
<1>6. turns' \in [Sessions -> Seq(Turn)] /\ \A s \in Sessions : Len(turns'[s]) <= MaxTurns
  <2>1. CASE QueryL2Miss(t)
    BY <1>1, <2>1, StateFacts DEF QueryL2Miss
  <2>2. CASE Reply(t)
    <3> PICK s : s = call[t].session
      OBVIOUS
    <3> PICK k : k = call[t].result.key
      OBVIOUS
    <3> PICK cap : cap = Capability[call[t].key]
      OBVIOUS
    <3>1. call[t].op = "query" /\ call[t].result \in Results
      BY <2>2 DEF Reply, InCall, Basic, Answered
    <3>2. s \in Sessions /\ call[t].key \in Keys
      BY <1>1, <1>2, <3>1, CallFacts
    <3>3. k \in Keys
      BY <3>1 DEF Results
    <3>4. cap \in {Capability[x] : x \in Keys} \cup {"agent_call"}
      BY <3>2
    <3>5. AppendTurn(s, cap, k)
      BY <2>2 DEF Reply
    <3> QED
      BY <1>1, <3>2, <3>3, <3>4, <3>5, AppendTurnType
  <2>3. CASE ResultTurn(t)
    <3> PICK s : s = call[t].session
      OBVIOUS
    <3> PICK k : k = call[t].key
      OBVIOUS
    <3>1. call[t].op = "append"
      BY <2>3 DEF ResultTurn, InCall
    <3>2. s \in Sessions /\ k \in Keys
      BY <1>1, <1>2, <3>1, CallFacts
    <3>3. AppendTurn(s, "agent_call", k)
      BY <2>3 DEF ResultTurn
    <3> QED
      BY <1>1, <3>2, <3>3, AppendTurnType
  <2> QED
    BY <2>1, <2>2, <2>3
<1>7. Basic'
  BY <1>1, <1>2, <1>3, <1>5, <1>6, StateFacts, StepBasic
<1> QED
  BY <1>2, <1>3, <1>4, <1>5, <1>7

\* Promote puts the copy in L1.
LEMMA PromoteBasic ==
    ASSUME Basic, NEW t \in Threads, Promote(t)
    PROVE  /\ Basic' /\ OthersStay(t)
           /\ call'[t] \in QueryCalls /\ call'[t].step = "reply"
           /\ \A x, f : Holds(x, f)' => \/ x = call[t].key /\ f = call[t].result.entry
                                        \/ Holds(x, f)
           /\ \A x \in Cached' : x = call[t].key \/ x \in Cached
<1> PICK k : k = call[t].key
  OBVIOUS
<1> PICK e : e = call[t].result.entry
  OBVIOUS
<1>1. call[t] # None /\ call[t].op = "query" /\ TypeOK /\ call[t].result \in Results
  BY DEF Promote, InCall, Basic, Answered
<1>2. k \in Keys /\ e \in Entry
  BY <1>1, CallFacts DEF Results
<1>3. lru' = L1Set(k, e) /\ Goto(t, "reply")
      /\ UNCHANGED <<l2, archived, turns, now, writes, overlapped, dead>>
  BY DEF Promote
<1>4. /\ lru' \in Seq(Node) /\ Len(lru') <= MaxSize
      /\ \A i, j \in 1..Len(lru') : lru'[i].key = lru'[j].key => i = j
      /\ \A x, f : Holds(x, f)' => (x = k /\ f = e) \/ (x # k /\ Holds(x, f))
      /\ \A x \in Cached' : x = k \/ x \in Cached
  BY <1>1, <1>2, <1>3, SetL1
<1>5. /\ call' \in [Threads -> Calls \cup {None}]
      /\ call'[t] \in Calls /\ Moved(call[t], call'[t]) /\ call'[t].step = "reply"
      /\ call'[t].result = call[t].result
      /\ OthersStay(t)
  BY <1>1, <1>3, GotoFacts DEF OthersStay
<1>6. Basic'
  BY <1>1, <1>3, <1>4, <1>5, StateFacts, StepBasic
<1>7. call'[t].op = "query"
  BY <1>1, <1>5 DEF Moved
<1> QED
  BY <1>4, <1>5, <1>6, <1>7, CallKinds

\* A write's step in L1 or in L3.
LEMMA WriteBasic ==
    ASSUME Basic, NEW t \in Threads, WriteL1(t) \/ WriteL3(t)
    PROVE  /\ Basic' /\ OthersStay(t)
           /\ call[t] # None /\ call[t].op = "write"
           /\ call'[t] \in Calls /\ Moved(call[t], call'[t]) /\ call'[t].step \in {"l3", "l2"}
           /\ archived \subseteq archived'
           /\ call'[t].step = "l2" /\ call[t].key \in Mid => call[t].key \in archived'
           /\ \A x, f : Holds(x, f)' => \/ x = call[t].key /\ f = call[t].entry
                                        \/ x # call[t].key /\ Holds(x, f)
                                        \/ call[t].step # "l1" /\ Holds(x, f)
           /\ \A x \in Cached' : x = call[t].key \/ x \in Cached
<1> PICK k : k = call[t].key
  OBVIOUS
<1> PICK e : e = call[t].entry
  OBVIOUS
<1>1. call[t] # None /\ call[t].op = "write" /\ TypeOK
  BY DEF WriteL1, WriteL3, InCall, Basic
<1>2. k \in Keys /\ e \in Entry
  BY <1>1, CallFacts
<1>3. UNCHANGED <<l2, turns, now, writes, overlapped, dead>>
  BY DEF WriteL1, WriteL3
<1>4. CASE WriteL1(t)
  <2> PICK step : step = AfterL1(k)
    OBVIOUS
  <2>1. lru' = L1Set(k, e) /\ Goto(t, step) /\ archived' = archived
    BY <1>4 DEF WriteL1
  <2>2. step \in {"l3", "l2"} /\ (step = "l2" => k \notin Mid)
    BY DEF AfterL1
  <2>3. /\ lru' \in Seq(Node) /\ Len(lru') <= MaxSize
        /\ \A i, j \in 1..Len(lru') : lru'[i].key = lru'[j].key => i = j
        /\ \A x, f : Holds(x, f)' => (x = k /\ f = e) \/ (x # k /\ Holds(x, f))
        /\ \A x \in Cached' : x = k \/ x \in Cached
    BY <1>1, <1>2, <2>1, SetL1
  <2>4. /\ call' \in [Threads -> Calls \cup {None}]
        /\ call'[t] \in Calls /\ Moved(call[t], call'[t]) /\ call'[t].step = step
        /\ OthersStay(t)
    BY <1>1, <2>1, <2>2, GotoFacts DEF OthersStay
  <2>5. call'[t].op = "write"
    BY <1>1, <2>4 DEF Moved
  <2>6. Basic'
    BY <1>1, <1>3, <2>1, <2>3, <2>4, <2>5, StateFacts, StepBasic
  <2> QED
    BY <1>1, <2>1, <2>2, <2>3, <2>4, <2>6
<1>5. CASE WriteL3(t)
  <2>1. lru' = lru /\ Goto(t, "l2") /\ archived' = archived \cup {k} /\ call[t].step = "l3"
    BY <1>5 DEF WriteL3, InCall
  <2>2. /\ call' \in [Threads -> Calls \cup {None}]
        /\ call'[t] \in Calls /\ Moved(call[t], call'[t]) /\ call'[t].step = "l2"
        /\ OthersStay(t)
    BY <1>1, <2>1, GotoFacts DEF OthersStay
  <2>3. call'[t].op = "write"
    BY <1>1, <2>2 DEF Moved
  <2>4. archived' \subseteq Keys
    BY <1>1, <1>2, <2>1, StateFacts
  <2>5. Basic'
    BY <1>1, <1>3, <2>1, <2>2, <2>3, <2>4, StateFacts, StepBasic
  <2>6. \A x, f : Holds(x, f)' => Holds(x, f)
    BY <2>1 DEF Holds
  <2>7. Cached' = Cached
    BY <2>1 DEF Cached
  <2> QED
    BY <1>1, <2>1, <2>2, <2>5, <2>6, <2>7
<1> QED
  BY <1>4, <1>5

\* A write reaches L2, and goes on as the turn to append.
LEMMA WriteL2Basic ==
    ASSUME Basic, NEW t \in Threads, WriteL2(t)
    PROVE  /\ Basic' /\ OthersStay(t)
           /\ call[t] # None /\ call[t].op = "write" /\ call[t].step = "l2" /\ call[t].key \in Keys
           /\ call[t].entry \in Entry
           /\ call'[t] \in AppendCalls /\ call'[t].key = call[t].key
           /\ l2'[call[t].key] = call[t].entry
           /\ \A x \in Keys : x # call[t].key => l2'[x] = l2[x]
           /\ Settle(t)
           /\ UNCHANGED <<lru, archived, dead>>
<1> PICK k : k = call[t].key
  OBVIOUS
<1> PICK e : e = call[t].entry
  OBVIOUS
<1> PICK s : s = call[t].session
  OBVIOUS
<1> DEFINE d == [op |-> "append", step |-> "turn", key |-> k, session |-> s, alone |-> TRUE]
<1>1. call[t] # None /\ call[t].op = "write" /\ call[t].step = "l2" /\ TypeOK
  BY DEF WriteL2, InCall, Basic
<1>2. k \in Keys /\ e \in Entry /\ s \in Sessions /\ call \in [Threads -> Calls \cup {None}]
  BY <1>1, CallFacts
<1>3. /\ l2' = [l2 EXCEPT ![k] = e] /\ Settle(t) /\ call' = [call EXCEPT ![t] = d]
      /\ UNCHANGED <<lru, archived, turns, now, writes, dead>>
  BY DEF WriteL2
<1>4. d \in AppendCalls /\ d.key = k /\ d.op = "append"
  BY <1>2 DEF AppendCalls
<1>5. d \in Calls
  BY <1>4, KindsAreCalls
<1> HIDE DEF d
<1>6. call' \in [Threads -> Calls \cup {None}] /\ call'[t] = d /\ OthersStay(t)
  BY <1>2, <1>3, <1>5 DEF OthersStay
<1>7. /\ l2' \in [Keys -> Entry \cup {None}] /\ l2'[k] = e
      /\ \A x \in Keys : x # k => l2'[x] = l2[x]
  BY <1>1, <1>2, <1>3, StateFacts
<1>8. overlapped' \subseteq Keys
  BY <1>1, <1>3, SettleFacts
<1>9. Basic'
  BY <1>1, <1>3, <1>4, <1>6, <1>7, <1>8, StateFacts, StepBasic
<1> QED
  BY <1>1, <1>2, <1>3, <1>4, <1>6, <1>7, <1>9

\* An invalidate drops the key from L1.
LEMMA InvalidateL1Basic ==
    ASSUME Basic, NEW t \in Threads, InvalidateL1(t)
    PROVE  /\ Basic' /\ OthersStay(t)
           /\ call[t] # None /\ call[t].op = "invalidate"
           /\ call'[t] \in Calls /\ Moved(call[t], call'[t]) /\ call'[t].step = "l2"
           /\ \A x, f : Holds(x, f)' => Holds(x, f)
           /\ \A x \in Cached' : x # call[t].key /\ x \in Cached
           /\ UNCHANGED <<l2, archived, overlapped, dead>>
<1> PICK k : k = call[t].key
  OBVIOUS
<1>1. call[t] # None /\ call[t].op = "invalidate" /\ TypeOK
  BY DEF InvalidateL1, InCall, Basic
<1>2. k \in Keys
  BY <1>1, CallFacts
<1>3. lru' = L1Without(k) /\ Goto(t, "l2")
      /\ UNCHANGED <<l2, archived, turns, now, writes, overlapped, dead>>
  BY DEF InvalidateL1
<1>4. /\ lru' \in Seq(Node) /\ Len(lru') <= MaxSize
      /\ \A i, j \in 1..Len(lru') : lru'[i].key = lru'[j].key => i = j
      /\ \A x, f : Holds(x, f)' => x # k /\ Holds(x, f)
      /\ \A x \in Cached' : x # k /\ x \in Cached
  BY <1>1, <1>2, <1>3, DropL1
<1>5. /\ call' \in [Threads -> Calls \cup {None}]
      /\ call'[t] \in Calls /\ Moved(call[t], call'[t]) /\ call'[t].step = "l2"
      /\ OthersStay(t)
  BY <1>1, <1>3, GotoFacts DEF OthersStay
<1>6. call'[t].op = "invalidate"
  BY <1>1, <1>5 DEF Moved
<1>7. Basic'
  BY <1>1, <1>3, <1>4, <1>5, <1>6, StateFacts, StepBasic
<1> QED
  BY <1>1, <1>3, <1>4, <1>5, <1>7

\* An invalidate marks the entry in L2, and those a cascade reaches, and returns.
LEMMA InvalidateL2Basic ==
    ASSUME Basic, NEW t \in Threads, InvalidateL2(t)
    PROVE  /\ Basic' /\ OthersStay(t) /\ call'[t] = None
           /\ InCall(t, "invalidate", "l2") /\ call[t].key \in Keys
           /\ \A x \in Keys : l2'[x] # None <=> l2[x] # None
           /\ \A x \in Keys : l2[x] # None => l2'[x].version = l2[x].version
           /\ \A x \in Keys : l2[x] # None /\ l2[x].status = "INVALIDATED"
                                 => l2'[x].status = "INVALIDATED"
           /\ l2'[call[t].key] = None \/ l2'[call[t].key].status = "INVALIDATED"
           /\ dead' = dead \cup {call[t].key} /\ Settle(t)
           /\ UNCHANGED <<lru, archived>>
<1> PICK k : k = call[t].key
  OBVIOUS
<1> PICK cascade : cascade = call[t].cascade
  OBVIOUS
<1>1. InCall(t, "invalidate", "l2") /\ TypeOK
  BY DEF InvalidateL2, Basic
<1>2. call[t] # None /\ call[t].op = "invalidate"
  BY <1>1 DEF InCall
<1>3. k \in Keys /\ cascade \in BOOLEAN
  BY <1>1, <1>2, CallFacts
<1>4. /\ l2' = IF l2[k] = None THEN l2 ELSE HardInvalidated(k, cascade)
      /\ dead' = dead \cup {k} /\ Settle(t) /\ call' = [call EXCEPT ![t] = None]
      /\ UNCHANGED <<lru, archived, turns, now, writes>>
  BY DEF InvalidateL2, Leave
<1>5. /\ l2' \in [Keys -> Entry \cup {None}]
      /\ \A x \in Keys : l2'[x] # None <=> l2[x] # None
      /\ \A x \in Keys : l2[x] # None => l2'[x].version = l2[x].version
      /\ \A x \in Keys : l2[x] # None /\ l2[x].status = "INVALIDATED"
                            => l2'[x].status = "INVALIDATED"
      /\ l2'[k] = None \/ l2'[k].status = "INVALIDATED"
  <2>1. CASE l2[k] = None
    BY <1>1, <1>4, <2>1, StateFacts
  <2>2. CASE l2[k] # None
    <3>1. l2' = HardInvalidated(k, cascade)
      BY <1>4, <2>2
    <3> QED
      BY <1>1, <1>3, <2>2, <3>1, HardFacts
  <2> QED
    BY <2>1, <2>2
<1>6. call' \in [Threads -> Calls \cup {None}] /\ call'[t] = None /\ OthersStay(t)
  BY <1>1, <1>4, LeaveFacts DEF OthersStay
<1>7. overlapped' \subseteq Keys /\ dead' \subseteq Keys
  BY <1>1, <1>2, <1>3, <1>4, SettleFacts, StateFacts
<1>8. Basic'
  BY <1>1, <1>4, <1>5, <1>6, <1>7, StateFacts, StepBasic
<1> QED
  BY <1>1, <1>3, <1>4, <1>5, <1>6, <1>8

\* The first step of a call.
Fresh(c) ==
    /\ c \in Calls
    /\ c.step = "l1" \/ (c.op = "write" /\ c.step = "l3" /\ c.key \in Large)

\* A thread enters a call c on the cache.
Starts(t, c) ==
    /\ Fresh(c) /\ Enter(t, c)
    /\ dead' \subseteq dead /\ (c.op = "write" => c.key \notin dead')
    /\ UNCHANGED <<lru, l2, archived, turns, now>> /\ writes' \in 0..MaxWrites

\* Entering a call keeps Basic.
LEMMA StartsBasic ==
    ASSUME Basic, NEW t \in Threads, NEW c, Starts(t, c)
    PROVE  Basic'
<1> DEFINE rivals == {u \in Others(t, c.key) : {call[u].op, c.op} \cap Mutators # {}}
<1>1. TypeOK /\ Answered /\ c \in Calls /\ c.key \in Keys /\ Enter(t, c)
  BY CallKinds DEF Basic, Starts, Fresh
<1>2. /\ call' \in [Threads -> Calls \cup {None}]
      /\ SameCall(c, call'[t])
      /\ \A u \in rivals : call[u] \in Calls /\ SameCall(call[u], call'[u])
      /\ \A u \in Threads : u # t /\ u \notin rivals => call'[u] = call[u]
      /\ overlapped' = IF rivals = {} THEN overlapped ELSE overlapped \cup {c.key}
  BY <1>1, EnterFacts
<1> HIDE DEF rivals
<1>3. TypeOK'
  BY <1>1, <1>2 DEF TypeOK, Starts
<1>4. ASSUME NEW u \in Threads, InCall(u, "query", "promote")' \/ InCall(u, "query", "reply")'
      PROVE  call'[u].result \in Results
  <2>1. call'[u] # None /\ call'[u].op = "query" /\ call'[u].step \in {"promote", "reply"}
    BY <1>4 DEF InCall
  <2>2. CASE u = t
    BY <1>2, <2>1, <2>2 DEF SameCall, Starts, Fresh
  <2>3. CASE u \in rivals
    <3>1. call[u] \in Calls /\ SameCall(call[u], call'[u])
      BY <1>2, <2>3
    <3>2. call[u] # None /\ call[u].op = "query" /\ call[u].step \in {"promote", "reply"}
          /\ call'[u].result = call[u].result
      BY <2>1, <3>1, NoneIsNothing DEF SameCall
    <3> QED
      BY <1>1, <3>2 DEF Answered, InCall
  <2>4. CASE u # t /\ u \notin rivals
    BY <1>1, <1>2, <2>1, <2>4 DEF Answered, InCall
  <2> QED
    BY <2>2, <2>3, <2>4
<1>5. Answered'
  BY <1>4 DEF Answered
<1> QED
  BY <1>3, <1>5 DEF Basic

\* A query, a write or an invalidate starts.
LEMMA AllStart ==
    ASSUME Basic, NEW t \in Threads,
           \/ \E k \in Keys, s \in Sessions : StartQuery(t, k, s)
           \/ \E k \in Keys, s \in Sessions, r \in Ratings : StartWrite(t, k, s, r)
           \/ \E k \in Keys, cascade \in BOOLEAN : StartInvalidate(t, k, cascade)
    PROVE  \E c \in Calls : Starts(t, c)
<1>1. /\ now \in Nat /\ writes \in 0..MaxWrites /\ Epoch \in Nat /\ MaxWrites \in Nat
  BY ClockAssumption DEF Basic, TypeOK
<1>2. ASSUME NEW k \in Keys, NEW s \in Sessions, StartQuery(t, k, s)
      PROVE  \E c \in Calls : Starts(t, c)
  <2> DEFINE c == [op |-> "query", step |-> "l1", key |-> k, session |-> s, result |-> None,
                   alone |-> TRUE]
  <2>1. c \in QueryCalls /\ c.step = "l1" /\ c.op = "query"
    BY DEF QueryCalls
  <2>2. Enter(t, c) /\ UNCHANGED <<lru, l2, archived, turns, now, writes, dead>>
    BY <1>2 DEF StartQuery
  <2> HIDE DEF c
  <2>3. c \in Calls
    BY <2>1, KindsAreCalls
  <2>4. Starts(t, c)
    BY <1>1, <2>1, <2>2, <2>3 DEF Starts, Fresh
  <2> QED
    BY <2>3, <2>4
<1>3. ASSUME NEW k \in Keys, NEW s \in Sessions, NEW r \in Ratings, StartWrite(t, k, s, r)
      PROVE  \E c \in Calls : Starts(t, c)
  <2> DEFINE e == [version |-> writes + 1, status |-> r.status, low |-> r.low,
                   created |-> SystemNow]
             step == IF k \in Large THEN "l3" ELSE "l1"
             c == [op |-> "write", step |-> step, key |-> k, entry |-> e, session |-> s,
                   alone |-> TRUE]
  <2>1. /\ writes < MaxWrites /\ writes' = writes + 1 /\ Enter(t, c) /\ dead' = dead \ {k}
        /\ UNCHANGED <<lru, l2, archived, turns, now>>
    BY <1>3 DEF StartWrite
  <2>2. writes + 1 \in Versions /\ SystemNow \in Nat
    BY <1>1, <2>1 DEF Versions, SystemNow
  <2>3. r.status \in Status /\ r.low \in BOOLEAN
    <3> DEFINE R == [status : Status, low : BOOLEAN]
    <3>1. [status |-> "FRESH", low |-> FALSE] \in R
      BY DEF Status
    <3>2. [status |-> "FRESH", low |-> TRUE] \in R
      BY DEF Status
    <3>3. [status |-> "STALE", low |-> TRUE] \in R
      BY DEF Status
    <3>4. r \in R
      BY <3>1, <3>2, <3>3, Zenon DEF Ratings
    <3> QED
      BY <3>4
  <2>4. e \in Entry
    BY <2>2, <2>3 DEF Entry
  <2> HIDE DEF e
  <2>5. step \in {"l1", "l3"} /\ (step = "l3" => k \in Large)
    OBVIOUS
  <2> HIDE DEF step
  <2>6. c \in WriteCalls /\ c.op = "write" /\ c.key = k /\ c.step = step
    BY <2>4, <2>5 DEF WriteCalls
  <2> HIDE DEF c
  <2>7. c \in Calls
    BY <2>6, KindsAreCalls
  <2>8. Fresh(c)
    BY <2>5, <2>6, <2>7 DEF Fresh
  <2>9. writes' \in 0..MaxWrites
    BY <1>1, <2>1
  <2>10. Starts(t, c)
    BY <2>1, <2>6, <2>8, <2>9 DEF Starts
  <2> QED
    BY <2>7, <2>10
<1>4. ASSUME NEW k \in Keys, NEW cascade \in BOOLEAN, StartInvalidate(t, k, cascade)
      PROVE  \E c \in Calls : Starts(t, c)
  <2> DEFINE c == [op |-> "invalidate", step |-> "l1", key |-> k, cascade |-> cascade,
                   alone |-> TRUE]
  <2>1. c \in InvalidateCalls /\ c.step = "l1" /\ c.op = "invalidate"
    BY DEF InvalidateCalls
  <2>2. Enter(t, c) /\ UNCHANGED <<lru, l2, archived, turns, now, writes, dead>>
    BY <1>4 DEF StartInvalidate
  <2> HIDE DEF c
  <2>3. c \in Calls
    BY <2>1, KindsAreCalls
  <2>4. Starts(t, c)
    BY <1>1, <2>1, <2>2, <2>3 DEF Starts, Fresh
  <2> QED
    BY <2>3, <2>4
<1> QED
  BY <1>2, <1>3, <1>4

-----------------------------------------------------------------------------
(* Every step keeps the rest.                                              *)

Rest == Writing /\ Invalidating /\ Promoting /\ Agreeing /\ Buried

Inv == Basic /\ Overlaps /\ Rest

\* A mutating call has a key.
LEMMA MutatingFacts ==
    ASSUME TypeOK, NEW t \in Threads, Mutating(t)
    PROVE  /\ call[t] \in Calls /\ call[t].key \in Keys
           /\ call[t] # None /\ call[t].op \in Mutators /\ Changing(call[t].key)
  BY CallFacts DEF Mutating, Changing

\* Beside a call that mutates, any other on the key makes the key overlapped.
LEMMA Rivals ==
    ASSUME TypeOK, Overlaps, NEW t \in Threads, Mutating(t),
           NEW u \in Threads, u # t, call[u] # None, call[u].key = call[t].key
    PROVE  ~call[t].alone /\ call[t].key \in overlapped
<1>1. u \in Others(t, call[t].key)
  BY DEF Others
<1> QED
  BY <1>1 DEF Overlaps

\* Calls that end, or go on, overlap no more than before.
LEMMA OverlapsShrink ==
    ASSUME TypeOK, Overlaps, NEW t \in Threads, call[t] # None, OthersStay(t),
           \/ call'[t] = None
           \/ call'[t].key = call[t].key /\ call'[t].op \notin Mutators
           \/ Moved(call[t], call'[t]) /\ overlapped' = overlapped,
           overlapped' = overlapped \/ Settle(t),
           Mutating(t)' => overlapped' = overlapped
    PROVE  Overlaps'
<1> SUFFICES ASSUME NEW u \in Threads, Mutating(u)'
             PROVE  /\ call'[u].alone => Others(u, call[u].key)' = {}
                    /\ ~call'[u].alone \/ Others(u, call[u].key)' # {}
                          => call'[u].key \in overlapped'
  BY DEF Overlaps
<1>1. Mutating(u) /\ call'[u].key = call[u].key /\ call'[u].alone = call[u].alone
  BY DEF Mutating, Moved, OthersStay
<1> PICK k : k = call[u].key
  OBVIOUS
<1>2. ASSUME NEW v \in Others(u, k)' PROVE v \in Others(u, k)
  <2>1. v \in Threads /\ v # u /\ call'[v] # None /\ call'[v].key = k
    BY DEF Others
  <2>2. call[v] # None /\ call[v].key = k
    BY <2>1 DEF Moved, OthersStay
  <2> QED
    BY <2>1, <2>2 DEF Others
<1>3. /\ call[u].alone => Others(u, k) = {}
      /\ ~call[u].alone \/ Others(u, k) # {} => k \in overlapped
  BY <1>1 DEF Overlaps
<1>4. k \in overlapped => k \in overlapped'
  <2>1. CASE overlapped' = overlapped
    BY <2>1
  <2>2. CASE overlapped' # overlapped
    <3>1. Settle(t) /\ u # t
      BY <2>2
    <3>2. call[t].alone /\ call[t].op \in Mutators
      BY <2>2, <3>1 DEF Settle
    <3>3. Mutating(t)
      BY <3>2 DEF Mutating
    <3>4. call[u] # None
      BY <1>1 DEF Mutating
    <3>5. k # call[t].key
      BY <3>1, <3>2, <3>3, <3>4, Rivals
    <3> QED
      BY <3>1, <3>5, SettleFacts
  <2> QED
    BY <2>1, <2>2
<1>5. Others(u, call[u].key)' \subseteq Others(u, k)
  BY <1>1, <1>2 DEF Others
<1> QED
  BY <1>1, <1>3, <1>4, <1>5

\* The calls on other keys, and what they do to theirs, are as before.
LEMMA ChangingStays ==
    ASSUME TypeOK, NEW t \in Threads, call[t] # None, OthersStay(t), NEW x, x # call[t].key
    PROVE  Changing(x) => Changing(x)'
  BY DEF Changing, OthersStay

\* A thread that changed nothing before changes nothing it leaves.
LEMMA ChangingQuiet ==
    ASSUME NEW t \in Threads, OthersStay(t), NEW x,
           \/ call[t].op \notin Mutators
           \/ call'[t] # None /\ Moved(call[t], call'[t])
    PROVE  Changing(x) => Changing(x)'
  BY DEF Changing, OthersStay, Moved

\* A step that changes no entry of L2, and leaves L1 with no more than it had.
LEMMA QuietStep ==
    ASSUME Inv, NEW t \in Threads, OthersStay(t), call[t] # None,
           \/ /\ call[t].op \notin Mutators
              /\ call'[t] = None \/ (call'[t].op = "query" /\ call'[t].step # "promote")
           \/ /\ call[t].op = "invalidate" /\ call'[t] # None /\ Moved(call[t], call'[t])
              /\ call[t].key \notin Cached',
           \A x, f : Holds(x, f)' => Holds(x, f),
           \A x \in Cached' : x \in Cached,
           UNCHANGED <<l2, archived, overlapped, dead>>
    PROVE  Rest'
<1> USE DEF OthersStay, Moved
<1>1. Writing'
  BY DEF Writing, Inv, Rest
<1>2. Invalidating'
  BY DEF Invalidating, Inv, Rest, InCall
<1>3. Promoting'
  BY DEF Promoting, Inv, Rest, InCall
<1>4. Agreeing'
  <2>1. \A x : Changing(x) => Changing(x)'
    BY ChangingQuiet
  <2> QED
    BY <2>1 DEF Agreeing, Inv, Rest
<1>5. Buried'
  BY DEF Buried, Inv, Rest
<1> QED
  BY <1>1, <1>2, <1>3, <1>4, <1>5 DEF Rest

\* A copy of an entry L2 would serve is of the write L2 holds, and its key is not dead.
LEMMA QueryL2HitKeeps ==
    ASSUME Inv, NEW t \in Threads, QueryL2Hit(t)
    PROVE  Rest'
<1> USE DEF OthersStay
<1>1. /\ OthersStay(t) /\ call'[t] \in QueryCalls /\ call'[t].op = "query"
      /\ call'[t].step = "promote" /\ call'[t].key = call[t].key
      /\ l2[call[t].key] \in Entry /\ call'[t].result.entry = l2[call[t].key]
      /\ l2[call[t].key].status # "INVALIDATED" /\ l2[call[t].key] # None
  BY QueryL2HitBasic DEF Inv, QueryCalls, QueryL2Hit, L2Servable
<1>2. /\ UNCHANGED <<lru, l2, archived, overlapped, dead>>
      /\ call[t] # None /\ call[t].op = "query"
  BY DEF QueryL2Hit, InCall
<1>3. Cached' = Cached /\ (\A x, f : Holds(x, f)' = Holds(x, f))
  BY <1>2 DEF Cached, Holds
<1>4. Writing'
  BY <1>1, <1>2, <1>3 DEF Writing, Inv, Rest
<1>5. Invalidating'
  BY <1>1, <1>2, <1>3 DEF Invalidating, Inv, Rest, InCall
<1>6. Promoting'
  <2>1. call[t].key \notin overlapped => call[t].key \notin dead
    BY <1>1 DEF Inv, Rest, Buried
  <2> QED
    BY <1>1, <1>2, <2>1 DEF Promoting, Inv, Rest, InCall
<1>7. Agreeing'
  <2>1. \A x : Changing(x) => Changing(x)'
    BY <1>1, <1>2, ChangingQuiet DEF Mutators
  <2> QED
    BY <1>2, <1>3, <2>1 DEF Agreeing, Inv, Rest
<1>8. Buried'
  BY <1>2, <1>3 DEF Buried, Inv, Rest
<1> QED
  BY <1>4, <1>5, <1>6, <1>7, <1>8 DEF Rest

\* Promotion brings L1 what L2 holds, unless calls on the key overlapped.
LEMMA PromoteKeeps ==
    ASSUME Inv, NEW t \in Threads, Promote(t)
    PROVE  Rest'
<1> USE DEF OthersStay
<1> PICK k : k = call[t].key
  OBVIOUS
<1> PICK e : e = call[t].result.entry
  OBVIOUS
<1>1. /\ OthersStay(t) /\ call'[t].op = "query" /\ call'[t].step = "reply"
      /\ \A x, f : Holds(x, f)' => (x = k /\ f = e) \/ Holds(x, f)
      /\ \A x \in Cached' : x = k \/ x \in Cached
  BY PromoteBasic DEF Inv, QueryCalls
<1>2. /\ UNCHANGED <<l2, archived, overlapped, dead>> /\ TypeOK
      /\ call[t] # None /\ call[t].op = "query" /\ InCall(t, "query", "promote")
  BY DEF Promote, InCall, Inv, Basic
<1>3. k \notin overlapped => l2[k] # None /\ e.version = l2[k].version /\ k \notin dead
  BY <1>2 DEF Promoting, Inv, Rest
<1>4. ASSUME NEW u \in Threads, u # t, Mutating(u), call[u].alone PROVE call[u].key # k
  BY <1>2, <1>4, Rivals DEF Inv
<1>5. Writing'
  BY <1>1, <1>2, <1>4 DEF Writing, Inv, Rest, Mutating, Mutators
<1>6. Invalidating'
  BY <1>1, <1>2, <1>4 DEF Invalidating, Inv, Rest, InCall, Mutating, Mutators
<1>7. Promoting'
  BY <1>1, <1>2 DEF Promoting, Inv, Rest, InCall
<1>8. Agreeing'
  <2>1. \A x : Changing(x) => Changing(x)'
    BY <1>1, <1>2, ChangingQuiet DEF Mutators
  <2> QED
    BY <1>1, <1>2, <1>3, <2>1 DEF Agreeing, Inv, Rest
<1>9. Buried'
  BY <1>1, <1>2, <1>3 DEF Buried, Inv, Rest
<1> QED
  BY <1>5, <1>6, <1>7, <1>8, <1>9 DEF Rest

\* A write reaches L1 or L3 before it reaches L2.
LEMMA WriteKeeps ==
    ASSUME Inv, NEW t \in Threads, WriteL1(t) \/ WriteL3(t)
    PROVE  Rest'
<1> USE DEF OthersStay
<1> PICK k : k = call[t].key
  OBVIOUS
<1> PICK e : e = call[t].entry
  OBVIOUS
<1>1. /\ OthersStay(t) /\ call[t] # None /\ call[t].op = "write"
      /\ call'[t] # None /\ Moved(call[t], call'[t]) /\ call'[t].step \in {"l3", "l2"}
      /\ archived \subseteq archived'
      /\ call'[t].step = "l2" /\ k \in Mid => k \in archived'
      /\ \A x, f : Holds(x, f)' => \/ x = k /\ f = e
                                   \/ x # k /\ Holds(x, f)
                                   \/ call[t].step # "l1" /\ Holds(x, f)
      /\ \A x \in Cached' : x = k \/ x \in Cached
  BY WriteBasic, NoneIsNothing DEF Inv
<1>2. UNCHANGED <<l2, overlapped, dead>> /\ TypeOK /\ Mutating(t) /\ Overlaps
  BY <1>1 DEF WriteL1, WriteL3, Inv, Basic, Mutating, Mutators
<1>3. /\ call'[t].op = "write" /\ call'[t].key = k /\ call'[t].entry = e
      /\ call'[t].alone = call[t].alone
  BY <1>1 DEF Moved
<1>4. ASSUME NEW u \in Threads, u # t, Mutating(u), call[u].alone PROVE call[u].key # k
  BY <1>1, <1>2, <1>4, Rivals
<1>5. Writing'
  <2> SUFFICES ASSUME NEW u \in Threads, call'[u] # None, call'[u].op = "write"
               PROVE  /\ call'[u].alone => call'[u].key \notin dead'
                      /\ call'[u].alone /\ call'[u].step # "l1" /\ call'[u].key \notin Large
                            => \A f \in Entry : Holds(call[u].key, f)'
                                                   => f.version = call'[u].entry.version
                      /\ call'[u].step = "l2" /\ call'[u].key \in Mid => call'[u].key \in archived'
    BY DEF Writing
  <2>1. CASE u = t
    BY <1>1, <1>2, <1>3, <2>1 DEF Writing, Inv, Rest
  <2>2. CASE u # t
    BY <1>1, <1>2, <1>4, <2>2 DEF Writing, Inv, Rest, Mutating, Mutators
  <2> QED
    BY <2>1, <2>2
<1>6. Invalidating'
  BY <1>1, <1>2, <1>3, <1>4 DEF Invalidating, Inv, Rest, InCall, Mutating, Mutators
<1>7. Promoting'
  BY <1>1, <1>2, <1>3 DEF Promoting, Inv, Rest, InCall
<1>8. Changing(k)'
  BY <1>1, <1>3 DEF Changing, Mutators
<1>9. Agreeing'
  <2>1. \A x : Changing(x) => Changing(x)'
    BY <1>1, ChangingQuiet
  <2> QED
    BY <1>1, <1>2, <1>8, <2>1 DEF Agreeing, Inv, Rest
<1>10. Buried'
  <2>1. k \notin dead \ overlapped
    BY <1>1, <1>2 DEF Overlaps, Writing, Inv, Rest
  <2> QED
    BY <1>1, <1>2, <2>1 DEF Buried, Inv, Rest
<1> QED
  BY <1>5, <1>6, <1>7, <1>9, <1>10 DEF Rest

\* A write reaches L2: it ran alone and agrees with L1, or its key stays overlapped.
LEMMA WriteL2Keeps ==
    ASSUME Inv, NEW t \in Threads, WriteL2(t)
    PROVE  Rest'
<1> USE DEF OthersStay
<1> PICK k : k = call[t].key
  OBVIOUS
<1> PICK e : e = call[t].entry
  OBVIOUS
<1>1. /\ OthersStay(t) /\ call[t] # None /\ call[t].op = "write" /\ call[t].step = "l2"
      /\ k \in Keys /\ e \in Entry
      /\ call'[t] \in AppendCalls /\ call'[t].op = "append"
      /\ l2'[k] = e /\ \A x \in Keys : x # k => l2'[x] = l2[x]
      /\ Settle(t) /\ UNCHANGED <<lru, archived, dead>>
  BY WriteL2Basic DEF Inv, AppendCalls
<1>2. TypeOK /\ Mutating(t) /\ Overlaps
  BY <1>1 DEF Inv, Basic, Mutating, Mutators
<1>3. Cached' = Cached /\ (\A x, f : Holds(x, f)' = Holds(x, f))
  BY <1>1 DEF Cached, Holds
<1>4. /\ \A x : x # k => (x \in overlapped' <=> x \in overlapped)
      /\ ~call[t].alone => k \in overlapped'
  BY <1>1, <1>2, SettleFacts DEF Overlaps
<1>5. ASSUME NEW u \in Threads, u # t, call[u] # None, call[u].key = k
      PROVE  ~call[t].alone
  BY <1>1, <1>2, <1>5, Rivals
<1>6. Writing'
  BY <1>1, <1>3 DEF Writing, Inv, Rest
<1>7. Invalidating'
  BY <1>1, <1>3 DEF Invalidating, Inv, Rest, InCall
<1>8. Promoting'
  <2> SUFFICES ASSUME NEW u \in Threads, InCall(u, "query", "promote")',
                      call'[u].key \notin overlapped'
               PROVE  /\ l2'[call'[u].key] # None
                      /\ call'[u].result.entry.version = l2'[call'[u].key].version
                      /\ call'[u].key \notin dead'
    BY DEF Promoting
  <2>1. u # t
    BY <1>1 DEF InCall
  <2>2. call'[u] = call[u] /\ InCall(u, "query", "promote") /\ call[u] # None
    BY <1>1, <2>1 DEF InCall
  <2>3. call[u].key # k
    BY <1>4, <1>5, <2>1, <2>2
  <2>4. call[u].key \in Keys
    BY <1>2, <2>2, CallFacts
  <2> QED
    BY <1>1, <1>4, <2>2, <2>3, <2>4 DEF Promoting, Inv, Rest
<1>9. Agreeing'
  <2>1. ASSUME NEW x \in Keys \ (overlapped' \cup Large), NEW f \in Entry, Holds(x, f),
               ~Changing(x)', l2'[x] # None
        PROVE  f.version = l2'[x].version
    <3>1. CASE x = k
      <4>1. call[t].alone
        BY <1>4, <2>1, <3>1
      <4>2. f.version = e.version
        BY <1>1, <2>1, <3>1, <4>1 DEF Writing, Inv, Rest
      <4> QED
        BY <1>1, <3>1, <4>2
    <3>2. CASE x # k
      <4>1. ~Changing(x)
        BY <1>1, <1>2, <2>1, <3>2, ChangingStays
      <4> QED
        BY <1>1, <1>4, <2>1, <3>2, <4>1 DEF Agreeing, Inv, Rest
    <3> QED
      BY <3>1, <3>2
  <2>2. ASSUME NEW x \in Mid, l2'[x] # None PROVE x \in archived'
    <3>1. x \in Keys
      BY KeyAssumption
    <3>2. k \in Mid => k \in archived
      BY <1>1 DEF Writing, Inv, Rest
    <3> QED
      BY <1>1, <2>2, <3>1, <3>2 DEF Agreeing, Inv, Rest
  <2> QED
    BY <1>3, <2>1, <2>2 DEF Agreeing
<1>10. Buried'
  <2>1. k \notin dead' \ overlapped'
    BY <1>1, <1>4 DEF Writing, Inv, Rest
  <2>2. dead \subseteq Keys
    BY <1>2, StateFacts
  <2> QED
    BY <1>1, <1>3, <1>4, <2>1, <2>2 DEF Buried, Inv, Rest
<1> QED
  BY <1>6, <1>7, <1>8, <1>9, <1>10 DEF Rest

\* An invalidate returns: it ran alone and the key is in neither layer, or the key stays
\* overlapped.
LEMMA InvalidateL2Keeps ==
    ASSUME Inv, NEW t \in Threads, InvalidateL2(t)
    PROVE  Rest'
<1> USE DEF OthersStay
<1> PICK k : k = call[t].key
  OBVIOUS
<1>1. /\ OthersStay(t) /\ call'[t] = None
      /\ InCall(t, "invalidate", "l2") /\ k \in Keys
      /\ \A x \in Keys : l2'[x] # None <=> l2[x] # None
      /\ \A x \in Keys : l2[x] # None => l2'[x].version = l2[x].version
      /\ \A x \in Keys : l2[x] # None /\ l2[x].status = "INVALIDATED"
                            => l2'[x].status = "INVALIDATED"
      /\ l2'[k] = None \/ l2'[k].status = "INVALIDATED"
      /\ dead' = dead \cup {k} /\ Settle(t)
      /\ UNCHANGED <<lru, archived>>
  BY InvalidateL2Basic DEF Inv
<1>2. /\ TypeOK /\ Mutating(t) /\ Overlaps /\ call[t] # None /\ call[t].op = "invalidate"
  BY <1>1 DEF Inv, Basic, Mutating, Mutators, InCall
<1>3. Cached' = Cached /\ (\A x, f : Holds(x, f)' = Holds(x, f))
  BY <1>1 DEF Cached, Holds
<1>4. /\ \A x : x # k => (x \in overlapped' <=> x \in overlapped)
      /\ ~call[t].alone => k \in overlapped'
      /\ call[t].alone => k \notin Cached
  BY <1>1, <1>2, SettleFacts DEF Overlaps, Invalidating, Inv, Rest
<1>5. ASSUME NEW u \in Threads, u # t, call[u] # None, call[u].key = k
      PROVE  ~call[t].alone /\ (Mutating(u) => ~call[u].alone)
  <2>1. ~call[t].alone
    BY <1>2, <1>5, Rivals
  <2>2. Mutating(u) => ~call[u].alone
    BY <1>2, <1>5, Rivals
  <2> QED
    BY <2>1, <2>2
<1>6. Writing'
  BY <1>1, <1>2, <1>3, <1>5 DEF Writing, Inv, Rest, Mutating, Mutators
<1>7. Invalidating'
  BY <1>1, <1>3 DEF Invalidating, Inv, Rest, InCall
<1>8. Promoting'
  <2> SUFFICES ASSUME NEW u \in Threads, InCall(u, "query", "promote")',
                      call'[u].key \notin overlapped'
               PROVE  /\ l2'[call'[u].key] # None
                      /\ call'[u].result.entry.version = l2'[call'[u].key].version
                      /\ call'[u].key \notin dead'
    BY DEF Promoting
  <2>1. u # t
    BY <1>1 DEF InCall
  <2>2. call'[u] = call[u] /\ InCall(u, "query", "promote") /\ call[u] # None
    BY <1>1, <2>1 DEF InCall
  <2>3. call[u].key # k
    BY <1>4, <1>5, <2>1, <2>2
  <2>4. call[u].key \in Keys
    BY <1>2, <2>2, CallFacts
  <2> QED
    BY <1>1, <1>4, <2>2, <2>3, <2>4 DEF Promoting, Inv, Rest
<1>9. Agreeing'
  <2>1. ASSUME NEW x \in Keys \ (overlapped' \cup Large), NEW f \in Entry, Holds(x, f),
               ~Changing(x)', l2'[x] # None
        PROVE  f.version = l2'[x].version
    <3>1. x # k
      BY <1>2, <1>4, <2>1, L1Facts
    <3>2. ~Changing(x)
      BY <1>1, <1>2, <2>1, <3>1, ChangingStays
    <3> QED
      BY <1>1, <1>4, <2>1, <3>1, <3>2 DEF Agreeing, Inv, Rest
  <2>2. ASSUME NEW x \in Mid, l2'[x] # None PROVE x \in archived'
    BY <1>1, <2>2, KeyAssumption DEF Agreeing, Inv, Rest
  <2> QED
    BY <1>3, <2>1, <2>2 DEF Agreeing
<1>10. Buried'
  <2> SUFFICES ASSUME NEW x \in dead' \ overlapped'
               PROVE  x \notin Cached' /\ (l2'[x] = None \/ l2'[x].status = "INVALIDATED")
    BY DEF Buried
  <2>1. CASE x = k
    BY <1>1, <1>3, <1>4, <2>1
  <2>2. CASE x # k
    <3>1. x \in dead \ overlapped /\ x \in Keys
      BY <1>1, <1>2, <1>4, <2>2, StateFacts
    <3> QED
      BY <1>1, <1>3, <3>1 DEF Buried, Inv, Rest
  <2> QED
    BY <2>1, <2>2
<1> QED
  BY <1>6, <1>7, <1>8, <1>9, <1>10 DEF Rest

\* The calls after one started, by what they were before.
LEMMA StartsFacts ==
    ASSUME Basic, NEW t \in Threads, NEW c, Starts(t, c)
    PROVE  LET rivals == {u \in Others(t, c.key) : {call[u].op, c.op} \cap Mutators # {}}
           IN  /\ c \in Calls /\ c.key \in Keys /\ c.op # "append" /\ call[t] = None
               /\ call'[t] # None /\ call'[t].alone = (rivals = {}) /\ SameCall(c, call'[t])
               /\ \A u \in Threads : u # t =>
                     /\ call'[u] = None <=> call[u] = None
                     /\ call[u] # None => /\ SameCall(call[u], call'[u])
                                          /\ call'[u].alone => call'[u] = call[u] /\ u \notin rivals
                                          /\ u \in rivals \/ call'[u] = call[u]
               /\ overlapped \subseteq overlapped'
               /\ rivals # {} => c.key \in overlapped'
<1> DEFINE rivals == {u \in Others(t, c.key) : {call[u].op, c.op} \cap Mutators # {}}
<1>1. TypeOK /\ c \in Calls /\ c.key \in Keys /\ Enter(t, c)
  BY CallKinds DEF Basic, Starts, Fresh
<1>2. c.op # "append"
  BY <1>1, CallKinds DEF Starts, Fresh, AppendCalls
<1>3. /\ call[t] = None
      /\ call'[t] \in Calls /\ call'[t].alone = (rivals = {}) /\ SameCall(c, call'[t])
      /\ \A u \in rivals : /\ call[u] \in Calls /\ call'[u] \in Calls /\ ~call'[u].alone
                           /\ SameCall(call[u], call'[u])
      /\ \A u \in Threads : u # t /\ u \notin rivals => call'[u] = call[u]
      /\ overlapped' = IF rivals = {} THEN overlapped ELSE overlapped \cup {c.key}
  BY <1>1, EnterFacts
<1> HIDE DEF rivals
<1>4. ASSUME NEW u \in Threads, u # t
      PROVE  /\ call'[u] = None <=> call[u] = None
             /\ call[u] # None => /\ SameCall(call[u], call'[u])
                                  /\ call'[u].alone => call'[u] = call[u] /\ u \notin rivals
                                  /\ u \in rivals \/ call'[u] = call[u]
  BY <1>3, <1>4, NoneIsNothing DEF SameCall
<1>5. overlapped \subseteq overlapped' /\ (rivals # {} => c.key \in overlapped')
  BY <1>3
<1>6. call'[t] # None
  BY <1>3, NoneIsNothing
<1> QED
  BY <1>1, <1>2, <1>3, <1>4, <1>5, <1>6 DEF rivals

\* A call that starts beside others makes its key overlapped, and them no longer alone.
LEMMA StartsOverlaps ==
    ASSUME Inv, NEW t \in Threads, NEW c, Starts(t, c)
    PROVE  Overlaps'
<1> PICK k : k = c.key
  OBVIOUS
<1> DEFINE rivals == {u \in Others(t, k) : {call[u].op, c.op} \cap Mutators # {}}
<1>1. /\ c \in Calls /\ call[t] = None
      /\ call'[t] # None /\ call'[t].alone = (rivals = {}) /\ SameCall(c, call'[t])
      /\ \A u \in Threads : u # t =>
            /\ call'[u] = None <=> call[u] = None
            /\ call[u] # None => /\ SameCall(call[u], call'[u])
                                 /\ call'[u].alone => call'[u] = call[u] /\ u \notin rivals
                                 /\ u \in rivals \/ call'[u] = call[u]
      /\ overlapped \subseteq overlapped'
      /\ rivals # {} => k \in overlapped'
  BY StartsFacts DEF Inv
<1>2. \A u \in rivals : u \in Threads /\ u # t /\ call[u] # None /\ call[u].key = k
  BY DEF Others
<1>3. \A u \in Threads : u # t /\ call[u] # None /\ call[u].key = k
                         /\ (call[u].op \in Mutators \/ c.op \in Mutators) => u \in rivals
  BY DEF Others
<1> HIDE DEF rivals
<1>4. ASSUME NEW u \in Threads, Mutating(u)'
      PROVE  /\ call'[u].alone => Others(u, call[u].key)' = {}
             /\ ~call'[u].alone \/ Others(u, call[u].key)' # {} => call'[u].key \in overlapped'
  <2> PICK x : x = call'[u].key
    OBVIOUS
  <2> DEFINE O == {v \in Threads \ {u} : call'[v] # None /\ call'[v].key = x}
  <2>1. Others(u, call[u].key)' = O
    BY DEF Others
  <2>2. call'[u] # None /\ call'[u].op \in Mutators
    BY <1>4 DEF Mutating
  <2>3. CASE u = t
    <3>1. x = k /\ c.op \in Mutators
      BY <1>1, <2>2, <2>3 DEF SameCall
    <3>2. ASSUME NEW v \in O PROVE v \in rivals
      <4>1. v \in Threads /\ v # t /\ call'[v] # None /\ call'[v].key = k
        BY <2>3, <3>1
      <4>2. call[v] # None /\ call[v].key = k
        BY <1>1, <4>1 DEF SameCall
      <4> QED
        BY <1>3, <3>1, <4>1, <4>2
    <3> QED
      BY <1>1, <2>1, <2>3, <3>1, <3>2
  <2>4. CASE u # t /\ u \in rivals
    <3>1. call[u].key = k /\ call'[u].key = k /\ ~call'[u].alone
      BY <1>1, <1>2, <2>4 DEF SameCall
    <3> QED
      BY <1>1, <2>4, <3>1
  <2>5. CASE u # t /\ u \notin rivals
    <3>1. call'[u] = call[u] /\ call[u] # None /\ call[u].op \in Mutators /\ call[u].key = x
      BY <1>1, <2>2, <2>5
    <3>2. x # k
      BY <1>3, <2>5, <3>1
    <3>3. ASSUME NEW v \in O PROVE v \in Others(u, x)
      <4>1. v \in Threads /\ v # u /\ call'[v] # None /\ call'[v].key = x
        OBVIOUS
      <4>2. v # t
        BY <1>1, <3>2, <4>1 DEF SameCall
      <4>3. call[v] # None /\ call[v].key = x
        BY <1>1, <4>1, <4>2 DEF SameCall
      <4> QED
        BY <4>1, <4>3 DEF Others
    <3>4. /\ call[u].alone => Others(u, x) = {}
          /\ ~call[u].alone \/ Others(u, x) # {} => x \in overlapped
      BY <3>1 DEF Inv, Overlaps, Mutating
    <3> HIDE DEF O
    <3> QED
      BY <1>1, <2>1, <3>1, <3>3, <3>4
  <2> QED
    BY <2>3, <2>4, <2>5
<1> QED
  BY <1>4 DEF Overlaps

\* A call that starts has touched neither layer.
LEMMA StartsKeeps ==
    ASSUME Inv, NEW t \in Threads, NEW c, Starts(t, c)
    PROVE  Rest'
<1>1. /\ c \in Calls /\ c.key \in Keys /\ call[t] = None
      /\ call'[t] # None /\ SameCall(c, call'[t])
      /\ \A u \in Threads : u # t =>
            /\ call'[u] = None <=> call[u] = None
            /\ call[u] # None => /\ SameCall(call[u], call'[u])
                                 /\ call'[u].alone => call'[u] = call[u]
      /\ overlapped \subseteq overlapped'
  BY StartsFacts DEF Inv
<1>2. /\ c.step = "l1" \/ (c.op = "write" /\ c.step = "l3" /\ c.key \in Large)
      /\ dead' \subseteq dead /\ (c.op = "write" => c.key \notin dead')
      /\ UNCHANGED <<lru, l2, archived>>
  BY DEF Starts, Fresh
<1>3. /\ call'[t].op = c.op /\ call'[t].step = c.step /\ call'[t].key = c.key
      /\ call'[t].step \notin {"l2", "promote"}
  BY <1>1, <1>2 DEF SameCall
<1>4. Cached' = Cached /\ (\A x, f : Holds(x, f)' = Holds(x, f))
  BY <1>2 DEF Cached, Holds
<1>5. Writing'
  <2> SUFFICES ASSUME NEW u \in Threads, call'[u] # None, call'[u].op = "write"
               PROVE  /\ call'[u].alone => call'[u].key \notin dead'
                      /\ call'[u].alone /\ call'[u].step # "l1" /\ call'[u].key \notin Large
                            => \A f \in Entry : Holds(call[u].key, f)'
                                                   => f.version = call'[u].entry.version
                      /\ call'[u].step = "l2" /\ call'[u].key \in Mid => call'[u].key \in archived'
    BY DEF Writing
  <2>1. CASE u = t
    BY <1>2, <1>3, <2>1
  <2>2. CASE u # t
    <3>1. /\ call[u] # None /\ call[u].op = "write" /\ call'[u].step = call[u].step
          /\ call'[u].key = call[u].key /\ call'[u].alone => call'[u] = call[u]
      BY <1>1, <2>2 DEF SameCall
    <3> QED
      BY <1>1, <1>2, <1>4, <2>2, <3>1 DEF Writing, Inv, Rest, SameCall
  <2> QED
    BY <2>1, <2>2
<1>6. Invalidating'
  BY <1>1, <1>3, <1>4 DEF Invalidating, Inv, Rest, InCall
<1>7. Promoting'
  <2> SUFFICES ASSUME NEW u \in Threads, InCall(u, "query", "promote")',
                      call'[u].key \notin overlapped'
               PROVE  /\ l2'[call'[u].key] # None
                      /\ call'[u].result.entry.version = l2'[call'[u].key].version
                      /\ call'[u].key \notin dead'
    BY DEF Promoting
  <2>1. u # t /\ call[u] # None
    BY <1>1, <1>3 DEF InCall
  <2>2. /\ InCall(u, "query", "promote") /\ call'[u].key = call[u].key
        /\ call'[u].result = call[u].result
    BY <1>1, <2>1 DEF InCall, SameCall
  <2> QED
    BY <1>1, <1>2, <2>2 DEF Promoting, Inv, Rest
<1>8. Agreeing'
  <2>1. ASSUME NEW x, Changing(x) PROVE Changing(x)'
    <3>1. PICK u \in Threads : call[u] # None /\ call[u].key = x /\ call[u].op \in Mutators
      BY <2>1 DEF Changing
    <3>2. call'[u] # None /\ call'[u].key = x /\ call'[u].op \in Mutators
      BY <1>1, <3>1 DEF SameCall
    <3> QED
      BY <3>2 DEF Changing
  <2> QED
    BY <1>1, <1>2, <1>4, <2>1 DEF Agreeing, Inv, Rest
<1>9. Buried'
  BY <1>1, <1>2, <1>4 DEF Buried, Inv, Rest
<1> QED
  BY <1>5, <1>6, <1>7, <1>8, <1>9 DEF Rest

-----------------------------------------------------------------------------
(* The invariant and the theorems.                                         *)

\* The empty cache satisfies the invariant.
LEMMA InitInv == Init => Inv
<1> SUFFICES ASSUME Init PROVE Inv
  OBVIOUS
<1> USE DEF Init
<1>1. Basic
  <2>1. /\ lru \in Seq(Node) /\ Len(lru) = 0
        /\ \A s \in Sessions : turns[s] \in Seq(Turn) /\ Len(turns[s]) = 0
    BY EmptySeq
  <2>2. TypeOK
    BY <2>1, SizeAssumption, ClockAssumption DEF TypeOK
  <2>3. Answered
    BY DEF Answered, InCall
  <2> QED
    BY <2>2, <2>3 DEF Basic
<1>2. Cached = {}
  BY DEF Cached
<1>3. Overlaps
  BY DEF Overlaps, Mutating
<1>4. Writing /\ Invalidating /\ Promoting /\ Buried
  BY <1>2 DEF Writing, Invalidating, Promoting, Buried, InCall
<1>5. Agreeing
  BY KeyAssumption DEF Agreeing
<1> QED
  BY <1>1, <1>3, <1>4, <1>5 DEF Inv, Rest

\* Every step of a call keeps the invariant.
LEMMA StepInv ==
    ASSUME Inv, NEW t \in Threads, Step(t)
    PROVE  Inv'
<1>1. Basic /\ TypeOK /\ Overlaps
  BY DEF Inv, Basic
<1>2. CASE QueryL1(t)
  <2>1. /\ Basic' /\ OthersStay(t) /\ call'[t] \in QueryCalls
        /\ call'[t].op = "query" /\ call'[t].step \in {"reply", "session"}
        /\ call'[t].key = call[t].key
        /\ \A x, f : Holds(x, f)' => Holds(x, f)
        /\ \A x \in Cached' : x \in Cached
    BY <1>1, <1>2, QueryL1Basic DEF QueryCalls
  <2>2. UNCHANGED <<l2, archived, overlapped, dead>> /\ call[t] # None /\ call[t].op = "query"
    BY <1>2 DEF QueryL1, InCall
  <2>3. Rest'
    BY <2>1, <2>2, QuietStep DEF Mutators
  <2>4. Overlaps'
    BY <1>1, <2>1, <2>2, OverlapsShrink DEF Mutators
  <2> QED
    BY <2>1, <2>3, <2>4 DEF Inv
<1>3. CASE QuerySession(t)
  <2>1. /\ Basic' /\ OthersStay(t) /\ call'[t] \in QueryCalls
        /\ call'[t].op = "query" /\ call'[t].step \in {"reply", "l2"}
        /\ call'[t].key = call[t].key
    BY <1>1, <1>3, QuerySessionBasic DEF QueryCalls
  <2>2. UNCHANGED <<lru, l2, archived, overlapped, dead>> /\ call[t] # None /\ call[t].op = "query"
    BY <1>3 DEF QuerySession, InCall
  <2>3. (\A x, f : Holds(x, f)' => Holds(x, f)) /\ Cached' = Cached
    BY <2>2 DEF Holds, Cached
  <2>4. Rest'
    BY <2>1, <2>2, <2>3, QuietStep DEF Mutators
  <2>5. Overlaps'
    BY <1>1, <2>1, <2>2, OverlapsShrink DEF Mutators
  <2> QED
    BY <2>1, <2>4, <2>5 DEF Inv
<1>4. CASE QueryL2Hit(t)
  <2>1. /\ Basic' /\ OthersStay(t) /\ call'[t].op = "query" /\ call'[t].key = call[t].key
    BY <1>1, <1>4, QueryL2HitBasic DEF QueryCalls
  <2>2. overlapped' = overlapped /\ call[t] # None
    BY <1>4 DEF QueryL2Hit, InCall
  <2>3. Overlaps'
    BY <1>1, <2>1, <2>2, OverlapsShrink DEF Mutators
  <2> QED
    BY <1>4, <2>1, <2>3, QueryL2HitKeeps DEF Inv
<1>5. CASE QueryL2Miss(t) \/ Reply(t) \/ ResultTurn(t)
  <2>1. /\ Basic' /\ OthersStay(t) /\ call'[t] = None
        /\ call[t] # None /\ call[t].op \notin Mutators
        /\ UNCHANGED <<lru, l2, archived, overlapped, dead>>
    BY <1>1, <1>5, EndBasic
  <2>2. (\A x, f : Holds(x, f)' => Holds(x, f)) /\ Cached' = Cached
    BY <2>1 DEF Holds, Cached
  <2>3. Rest'
    BY <2>1, <2>2, QuietStep
  <2>4. Overlaps'
    BY <1>1, <2>1, OverlapsShrink
  <2> QED
    BY <2>1, <2>3, <2>4 DEF Inv
<1>6. CASE Promote(t)
  <2>1. /\ Basic' /\ OthersStay(t) /\ call'[t].op = "query"
    BY <1>1, <1>6, PromoteBasic DEF QueryCalls
  <2>2. overlapped' = overlapped /\ call[t] # None /\ call'[t].key = call[t].key
    BY <1>6 DEF Promote, InCall, Goto, Inv, Basic, TypeOK
  <2>3. Overlaps'
    BY <1>1, <2>1, <2>2, OverlapsShrink DEF Mutators
  <2> QED
    BY <1>6, <2>1, <2>3, PromoteKeeps DEF Inv
<1>7. CASE WriteL1(t) \/ WriteL3(t)
  <2>1. /\ Basic' /\ OthersStay(t) /\ Moved(call[t], call'[t]) /\ call[t] # None
    BY <1>1, <1>7, WriteBasic
  <2>2. overlapped' = overlapped
    BY <1>7 DEF WriteL1, WriteL3
  <2>3. Overlaps'
    BY <1>1, <2>1, <2>2, OverlapsShrink
  <2> QED
    BY <1>7, <2>1, <2>3, WriteKeeps DEF Inv
<1>8. CASE WriteL2(t)
  <2>1. /\ Basic' /\ OthersStay(t) /\ call[t] # None /\ call'[t].key = call[t].key
        /\ call'[t].op = "append" /\ Settle(t)
    BY <1>1, <1>8, WriteL2Basic DEF AppendCalls
  <2>2. ~Mutating(t)' /\ call'[t].op \notin Mutators
    BY <2>1 DEF Mutating, Mutators
  <2>3. Overlaps'
    BY <1>1, <2>1, <2>2, OverlapsShrink
  <2> QED
    BY <1>8, <2>1, <2>3, WriteL2Keeps DEF Inv
<1>9. CASE InvalidateL1(t)
  <2>1. /\ Basic' /\ OthersStay(t) /\ call[t] # None /\ call[t].op = "invalidate"
        /\ call'[t] # None /\ Moved(call[t], call'[t])
        /\ \A x, f : Holds(x, f)' => Holds(x, f)
        /\ \A x \in Cached' : x # call[t].key /\ x \in Cached
        /\ UNCHANGED <<l2, archived, overlapped, dead>>
    BY <1>1, <1>9, InvalidateL1Basic, NoneIsNothing
  <2>2. Rest'
    BY <2>1, QuietStep
  <2>3. Overlaps'
    BY <1>1, <2>1, OverlapsShrink
  <2> QED
    BY <2>1, <2>2, <2>3 DEF Inv
<1>10. CASE InvalidateL2(t)
  <2>1. /\ Basic' /\ OthersStay(t) /\ call'[t] = None /\ call[t] # None /\ Settle(t)
    BY <1>1, <1>10, InvalidateL2Basic DEF InCall
  <2>2. ~Mutating(t)'
    BY <2>1 DEF Mutating
  <2>3. Overlaps'
    BY <1>1, <2>1, <2>2, OverlapsShrink
  <2> QED
    BY <1>10, <2>1, <2>3, InvalidateL2Keeps DEF Inv
<1> QED
  BY <1>2, <1>3, <1>4, <1>5, <1>6, <1>7, <1>8, <1>9, <1>10 DEF Step

\* Time passes, or nothing happens.
LEMMA IdleInv ==
    ASSUME Inv, Tick \/ UNCHANGED vars
    PROVE  Inv'
<1>1. UNCHANGED <<lru, l2, archived, turns, call, writes, overlapped, dead>>
  BY DEF Tick, vars
<1>2. now' \in 0..MaxClock
  BY ClockAssumption DEF Tick, vars, Inv, Basic, TypeOK
<1>3. Basic'
  <2>1. TypeOK'
    BY <1>1, <1>2 DEF Inv, Basic, TypeOK
  <2>2. Answered'
    BY <1>1 DEF Inv, Basic, Answered, InCall
  <2> QED
    BY <2>1, <2>2 DEF Basic
<1>4. Overlaps'
  BY <1>1 DEF Inv, Overlaps, Mutating, Others
<1>5. Cached' = Cached /\ (\A x, f : Holds(x, f)' = Holds(x, f))
      /\ (\A x : Changing(x)' = Changing(x))
  BY <1>1 DEF Cached, Holds, Changing
<1>6. Writing' /\ Invalidating' /\ Promoting' /\ Buried'
  BY <1>1, <1>5 DEF Inv, Rest, Writing, Invalidating, Promoting, Buried, InCall
<1>7. Agreeing'
  BY <1>1, <1>5 DEF Inv, Rest, Agreeing
<1> QED
  BY <1>3, <1>4, <1>6, <1>7 DEF Inv, Rest

\* The invariant is inductive.
LEMMA NextInv == Inv /\ [Next]_vars => Inv'
<1> SUFFICES ASSUME Inv, [Next]_vars PROVE Inv'
  OBVIOUS
<1>1. CASE \E t \in Threads : Step(t)
  BY <1>1, StepInv
<1>2. ASSUME NEW t \in Threads,
             \/ \E k \in Keys, s \in Sessions : StartQuery(t, k, s)
             \/ \E k \in Keys, s \in Sessions, r \in Ratings : StartWrite(t, k, s, r)
             \/ \E k \in Keys, cascade \in BOOLEAN : StartInvalidate(t, k, cascade)
      PROVE  Inv'
  <2>1. PICK c \in Calls : Starts(t, c)
    BY <1>2, AllStart DEF Inv
  <2> QED
    BY <2>1, StartsBasic, StartsOverlaps, StartsKeeps DEF Inv
<1>3. CASE Tick \/ UNCHANGED vars
  BY <1>3, IdleInv
<1> QED
  BY <1>1, <1>2, <1>3 DEF Next

\* The invariant holds throughout.
LEMMA Invariance == Spec => []Inv
  BY InitInv, NextInv, PTL DEF Spec

\* Every variable stays in its domain, and L1 holds at most one node for a key and
\* at most max_size_ nodes, whatever calls interleave (L1CacheStore::set, get, invalidate).
THEOREM TypeCorrect == Spec => []TypeOK
<1>1. Inv => TypeOK
  BY DEF Inv, Basic
<1> QED
  BY <1>1, Invariance, PTL

\* L1 and L2 hold the same write of a key, unless the key is large, is being changed, or
\* calls on it overlapped and none has settled it since; and what L2 gave up is in L3
\* (CacheCoordinator::write, query, invalidate).
THEOREM LayersDoAgree == Spec => []LayersAgree
<1>1. ASSUME Inv PROVE LayersAgree
  <2>1. TypeOK /\ Agreeing
    BY <1>1 DEF Inv, Basic, Rest
  <2>2. \A k \in Cached : k \in Keys /\ L1Entry(k) \in Entry /\ Holds(k, L1Entry(k))
    BY <2>1, L1Facts
  <2> QED
    BY <2>1, <2>2 DEF Agreeing, LayersAgree
<1> QED
  BY <1>1, Invariance, PTL

\* A key whose invalidate returned without overlapping another call on it is served by
\* neither layer until it is written again (CacheCoordinator::invalidate, query).
THEOREM DeadStayDead == Spec => []InvalidatedNotServed
<1>1. ASSUME Inv PROVE InvalidatedNotServed
  BY <1>1 DEF Inv, Rest, Buried, InvalidatedNotServed, L2Servable
<1> QED
  BY <1>1, Invariance, PTL
=============================================================================
