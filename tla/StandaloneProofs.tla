--------------------------- MODULE StandaloneProofs ---------------------------
(***************************************************************************)
(* Proofs about the classes that call no other and share nothing:          *)
(*                                                                         *)
(* - the rate limit of include/auth.h holds for all keys, all limits and   *)
(*   every resolution of the clock;                                        *)
(* - the logger of include/logger.h writes the lines of threads that do    *)
(*   not meet in it once, whole and in order, for every number of threads  *)
(*   and lines and every size of the ring;                                 *)
(* - the CacheStore of include/common.h holds the keys used last, for      *)
(*   every set of keys, every size and every time to live;                 *)
(* - a pipeline of src/plugin_manager.cpp hands on what the hooks that     *)
(*   returned made of the request, for every list of plugins, every pool   *)
(*   and every limit on instructions;                                      *)
(* - the router of include/router.h shares the requests by weight and lets *)
(*   no backend starve, for every list of backends with any weights.       *)
(***************************************************************************)
EXTENDS Standalone, SequenceLemmas, FiniteSetTheorems, SequenceTheorems, TLAPS

(***************************************************************************)
(* AuthManager and TokenBucket.                                            *)
(***************************************************************************)

Bucket == [limit : Limits, tokens : Nat, last : Nat]

\* What has been spent in the window and what could be spent at once do not exceed a full
\* bucket and what was added in the window.  RateBound alone is not inductive: it says
\* nothing of what is left in the bucket.
Budget ==
    \A k \in Keys :
        IF buckets[k] = Absent THEN admitted[k] = 0
        ELSE admitted[k] * Second + Refilled(buckets[k])
                <= buckets[k].limit * Second + buckets[k].limit * (clock - since[k])

IInv == TypeOK /\ Budget

-----------------------------------------------------------------------------
(* Products.                                                               *)

\* The product with a sum.
LEMMA TimesPlus ==
  ASSUME NEW a \in Int, NEW b \in Int, NEW c \in Int
  PROVE  /\ a * (b + c) = a * b + a * c
         /\ (b + c) * a = b * a + c * a
  OBVIOUS

\* A product of natural numbers is one.
LEMMA TimesNat ==
  ASSUME NEW a \in Nat, NEW b \in Nat
  PROVE  a * b \in Nat
  OBVIOUS

-----------------------------------------------------------------------------
(* The bucket: include/auth.h, TokenBucket.                                *)

\* A bucket of the present holds a natural number of units and no more than its capacity,
\* and a bucket that was just brought up to date holds what it says.
LEMMA RefilledBounds ==
  ASSUME NEW b \in Bucket, clock \in Nat, b.last <= clock
  PROVE  /\ Refilled(b) \in Nat
         /\ Refilled(b) <= Capacity(b)
         /\ b.last = clock /\ b.tokens <= Capacity(b) => Refilled(b) = b.tokens
<1>1. b.limit \in Nat /\ b.tokens \in Nat /\ b.last \in Nat /\ Second \in Nat
  BY LimitAssumption, ClockAssumption DEF Bucket
<1>2. clock - b.last \in Nat
  BY <1>1
<1>3. (clock - b.last) * b.limit \in Nat /\ b.limit * Second \in Nat
  BY <1>1, <1>2, TimesNat
<1>4. b.last = clock => (clock - b.last) * b.limit = 0
  BY <1>1
<1> DEFINE gained == (clock - b.last) * b.limit
           full   == b.limit * Second
<1> HIDE DEF gained, full
<1>5. Refilled(b) = IF b.tokens + gained < full THEN b.tokens + gained ELSE full
  BY DEF Refilled, Capacity, gained, full
<1>6. Capacity(b) = full
  BY DEF Capacity, full
<1>7. gained \in Nat /\ full \in Nat /\ (b.last = clock => gained = 0)
  BY <1>3, <1>4 DEF gained, full
<1> QED
  BY <1>1, <1>5, <1>6, <1>7

\* consume() leaves a bucket, of the same limit, that holds a token less if there was one.
LEMMA ConsumedBucket ==
  ASSUME NEW b \in Bucket, clock \in Nat, b.last <= clock
  PROVE  /\ Consumed(b) \in Bucket
         /\ Consumed(b).limit = b.limit
         /\ Consumed(b).last = clock
         /\ Consumed(b).tokens <= Capacity(b)
         /\ Consumed(b).tokens = IF Refilled(b) < Second THEN Refilled(b) ELSE Refilled(b) - Second
<1>1. Refilled(b) \in Nat /\ Refilled(b) <= Capacity(b)
  BY RefilledBounds
<1>2. Second \in Nat
  BY ClockAssumption
<1> DEFINE rest == IF Refilled(b) < Second THEN Refilled(b) ELSE Refilled(b) - Second
<1>3. rest \in Nat /\ rest <= Refilled(b)
  BY <1>1, <1>2
<1>4. Consumed(b) = [b EXCEPT !.tokens = rest, !.last = clock]
  BY DEF Consumed
<1>5. Consumed(b) = [limit |-> b.limit, tokens |-> rest, last |-> clock]
  BY <1>4 DEF Bucket
<1>6. b.limit \in Limits /\ b.limit \in Nat
  BY LimitAssumption DEF Bucket
<1>7. Capacity(b) \in Nat
  BY <1>2, <1>6, TimesNat DEF Capacity
<1> HIDE DEF rest
<1>8. rest <= Capacity(b)
  BY <1>1, <1>3, <1>7
<1>9. Consumed(b) \in Bucket
  BY <1>3, <1>5, <1>6 DEF Bucket
<1> QED
  BY <1>5, <1>8, <1>9 DEF rest
-----------------------------------------------------------------------------
(* Every step keeps the invariant.                                         *)

\* The parts of TypeOK that are said of a single key.
KeyOK(k) ==
    /\ keys[k] # Absent => buckets[k] # Absent
    /\ since[k] <= clock
    /\ buckets[k] # Absent => /\ buckets[k].last <= clock
                              /\ buckets[k].tokens <= Capacity(buckets[k])

\* The part of Budget that is said of a single key.
KeyBudget(k) ==
    IF buckets[k] = Absent THEN admitted[k] = 0
    ELSE admitted[k] * Second + Refilled(buckets[k])
            <= buckets[k].limit * Second + buckets[k].limit * (clock - since[k])

\* add_key leaves a bucket that is there alone and begins with a full one.
LEMMA AddKeyStep ==
  ASSUME IInv, NEW k \in Keys, NEW q \in Limits, NEW on \in BOOLEAN, AddKey(k, q, on)
  PROVE  IInv'
<1> USE LimitAssumption, ClockAssumption
<1>1. /\ TypeOK /\ clock \in Nat /\ clock' = clock /\ since' = since /\ admitted' = admitted
      /\ q \in Nat /\ Second \in Nat
  BY DEF IInv, TypeOK, AddKey
<1>2. CASE buckets[k] # Absent
  <2>1. buckets' = buckets
    BY <1>2 DEF AddKey
  <2>2. TypeOK'
    <3>1. keys' \in [Keys -> [limit : Limits, enabled : BOOLEAN] \cup {Absent}]
      BY <1>1 DEF TypeOK, AddKey
    <3>2. \A j \in Keys : keys'[j] # Absent => buckets'[j] # Absent
      BY <1>1, <1>2, <2>1 DEF TypeOK, AddKey
    <3> QED
      BY <1>1, <2>1, <3>1, <3>2 DEF TypeOK, Capacity
  <2>3. Budget'
    BY <1>1, <2>1 DEF IInv, Budget, Refilled, Capacity
  <2> QED
    BY <2>2, <2>3 DEF IInv
<1>3. CASE buckets[k] = Absent
  <2> DEFINE b == [limit |-> q, tokens |-> q * Second, last |-> clock]
  <2>1. q * Second \in Nat
    BY <1>1, TimesNat
  <2>2. b \in Bucket /\ b # Absent /\ b.last = clock /\ b.limit = q /\ b.tokens = q * Second
    BY <1>1, <2>1, KeyAssumption DEF Bucket
  <2>3. Capacity(b) = q * Second
    BY DEF Capacity
  <2>4. Refilled(b) = q * Second
    BY <1>1, <2>1, <2>2, <2>3, RefilledBounds
  <2>5. buckets' = [buckets EXCEPT ![k] = b]
    BY <1>3 DEF AddKey, NewBucket
  <2> HIDE DEF b
  <2>6. \A j \in Keys : buckets'[j] = IF j = k THEN b ELSE buckets[j]
    BY <1>1, <2>5 DEF TypeOK
  <2>7. TypeOK'
    <3>1. keys' \in [Keys -> [limit : Limits, enabled : BOOLEAN] \cup {Absent}]
      BY <1>1 DEF TypeOK, AddKey
    <3>2. buckets' \in [Keys -> Bucket \cup {Absent}]
      BY <1>1, <2>2, <2>5 DEF TypeOK, Bucket
    <3>3. ASSUME NEW j \in Keys PROVE KeyOK(j)'
      <4>1. CASE j = k
        BY <1>1, <2>1, <2>2, <2>3, <2>6, <4>1 DEF TypeOK, KeyOK, Capacity
      <4>2. CASE j # k
        <5>1. buckets'[j] = buckets[j] /\ keys'[j] = keys[j]
          BY <1>1, <2>6, <4>2 DEF AddKey, TypeOK
        <5> QED
          BY <1>1, <5>1 DEF TypeOK, KeyOK, Capacity
      <4> QED
        BY <4>1, <4>2
    <3> QED
      BY <1>1, <3>1, <3>2, <3>3 DEF TypeOK, KeyOK, Bucket
  <2>8. ASSUME NEW j \in Keys PROVE KeyBudget(j)'
    <3>1. KeyBudget(j) /\ since[j] \in Nat /\ since[j] <= clock
      BY <1>1 DEF IInv, Budget, KeyBudget, TypeOK
    <3>2. CASE j = k
      <4>1. admitted[k] = 0
        BY <1>3, <3>1, <3>2 DEF KeyBudget
      <4>2. clock - since[k] \in Nat
        BY <1>1, <3>1, <3>2
      <4>3. q * (clock - since[k]) \in Nat
        BY <1>1, <4>2, TimesNat
      <4>4. q * Second <= q * Second + q * (clock - since[k])
        BY <2>1, <4>3
      <4>5. admitted[k] * Second = 0
        BY <1>1, <4>1
      <4>6. buckets'[k] = b /\ b.limit = q /\ b # Absent
        BY <2>2, <2>6
      <4>7. Refilled(buckets[k])' = q * Second
        BY <1>1, <2>4, <4>6 DEF Refilled, Capacity
      <4> QED
        BY <1>1, <2>1, <3>2, <4>4, <4>5, <4>6, <4>7 DEF KeyBudget
    <3>3. CASE j # k
      <4>1. buckets'[j] = buckets[j]
        BY <2>6, <3>3
      <4> QED
        BY <1>1, <3>1, <4>1 DEF KeyBudget, Refilled, Capacity
    <3> QED
      BY <3>2, <3>3
  <2>9. Budget'
    BY <2>8 DEF Budget, KeyBudget
  <2> QED
    BY <2>7, <2>9 DEF IInv
<1> QED
  BY <1>2, <1>3

\* verify brings one bucket up to date and takes what it passes out of it.
LEMMA VerifyStep ==
  ASSUME IInv, NEW k \in Keys, Verify(k)
  PROVE  IInv'
<1> DEFINE b == buckets[k]
           c == Consumed(b)
           one == IF Refilled(b) < Second THEN 0 ELSE 1
<1>1. /\ TypeOK /\ clock \in Nat /\ clock' = clock /\ since' = since /\ keys' = keys
      /\ Second \in Nat /\ buckets \in [Keys -> Bucket \cup {Absent}] /\ admitted \in [Keys -> Nat]
  BY ClockAssumption DEF IInv, TypeOK, Verify, Bucket
<1>2. b \in Bucket /\ b # Absent /\ b.last <= clock
  BY <1>1 DEF TypeOK, Verify
<1>3. /\ c \in Bucket /\ c.limit = b.limit /\ c.last = clock /\ c.tokens <= Capacity(b)
      /\ c.tokens = IF Refilled(b) < Second THEN Refilled(b) ELSE Refilled(b) - Second
  BY <1>1, <1>2, ConsumedBucket
<1>4. c # Absent
  BY <1>3, KeyAssumption DEF Bucket
<1>5. Capacity(c) = Capacity(b)
  BY <1>3 DEF Capacity
<1>6. Refilled(c) = c.tokens
  BY <1>1, <1>3, <1>5, RefilledBounds
<1>7. Refilled(b) \in Nat /\ b.limit \in Nat
  BY <1>1, <1>2, RefilledBounds, LimitAssumption DEF Bucket
<1>8. buckets' = [buckets EXCEPT ![k] = c] /\ admitted' = [admitted EXCEPT ![k] = @ + one]
  BY DEF Verify
<1> HIDE DEF c
<1>9. TypeOK'
  <2>1. buckets' \in [Keys -> Bucket \cup {Absent}]
    BY <1>1, <1>3, <1>8
  <2>2. admitted' \in [Keys -> Nat]
    BY <1>1, <1>8
  <2>3. ASSUME NEW j \in Keys PROVE KeyOK(j)'
    <3>1. CASE j = k
      <4>1. buckets'[j] = c
        BY <1>1, <1>8, <3>1
      <4> QED
        BY <1>1, <1>3, <1>4, <1>5, <4>1 DEF TypeOK, KeyOK, Capacity, Bucket
    <3>2. CASE j # k
      <4>1. buckets'[j] = buckets[j]
        BY <1>1, <1>8, <3>2
      <4> QED
        BY <1>1, <4>1 DEF TypeOK, KeyOK, Capacity
    <3> QED
      BY <3>1, <3>2
  <2> QED
    BY <1>1, <2>1, <2>2, <2>3 DEF TypeOK, KeyOK, Bucket
<1>10. ASSUME NEW j \in Keys PROVE KeyBudget(j)'
  <2>1. KeyBudget(j)
    BY DEF IInv, Budget, KeyBudget
  <2>2. CASE j = k
    <3> DEFINE spent == admitted[k] * Second
               room  == b.limit * Second + b.limit * (clock - since[k])
    <3>1. spent + Refilled(b) <= room
      BY <1>2, <2>1, <2>2 DEF KeyBudget
    <3>2. admitted[k] \in Nat /\ since[k] \in Nat
      BY <1>1 DEF TypeOK
    <3>3. admitted'[k] = admitted[k] + one
      BY <1>1, <1>8
    <3>4. admitted'[k] * Second = spent + (IF Refilled(b) < Second THEN 0 ELSE Second)
      BY <1>1, <3>2, <3>3, TimesPlus
    <3>5. spent \in Int /\ room \in Int
      BY <1>1, <1>7, <3>2
    <3>6. buckets'[k] = c
      BY <1>1, <1>8
    <3>7. Refilled(buckets[k])' = Refilled(c)
      BY <1>1, <3>6 DEF Refilled, Capacity
    <3> HIDE DEF spent, room
    <3>8. admitted'[k] * Second + Refilled(c) <= room
      BY <1>1, <1>3, <1>6, <1>7, <3>1, <3>4, <3>5
    <3>9. c.limit * Second + c.limit * (clock - since[k]) = room
      BY <1>3 DEF room
    <3> QED
      BY <1>1, <1>4, <2>2, <3>6, <3>7, <3>8, <3>9 DEF KeyBudget
  <2>3. CASE j # k
    <3>1. buckets'[j] = buckets[j] /\ admitted'[j] = admitted[j]
      BY <1>1, <1>8, <2>3
    <3> QED
      BY <1>1, <2>1, <3>1 DEF KeyBudget, Refilled, Capacity
  <2> QED
    BY <2>2, <2>3
<1> QED
  BY <1>9, <1>10 DEF IInv, Budget, KeyBudget

\* A tick adds at most limit units to what could be spent, and limit units to the bound.
LEMMA TickStep ==
  ASSUME IInv, Tick
  PROVE  IInv'
<1>1. /\ TypeOK /\ clock \in Nat /\ clock' = clock + 1 /\ Second \in Nat
      /\ keys' = keys /\ buckets' = buckets /\ since' = since /\ admitted' = admitted
  BY ClockAssumption DEF IInv, TypeOK, Tick
<1>2. TypeOK'
  BY <1>1 DEF TypeOK, Capacity
<1>3. ASSUME NEW j \in Keys, buckets[j] # Absent PROVE KeyBudget(j)'
  <2> DEFINE b == buckets[j]
             gained == (clock - b.last) * b.limit
             full   == b.limit * Second
             window == b.limit * (clock - since[j])
             spent  == admitted[j] * Second
  <2>1. /\ b.limit \in Nat /\ b.tokens \in Nat /\ b.last \in Nat
        /\ since[j] \in Nat /\ admitted[j] \in Nat
    BY <1>1, <1>3, LimitAssumption DEF TypeOK
  <2>2. gained \in Int /\ full \in Int /\ window \in Int /\ spent \in Int
    BY <1>1, <2>1
  <2>3. /\ clock' - b.last = (clock - b.last) + 1
        /\ clock' - since[j] = (clock - since[j]) + 1
    BY <1>1, <2>1
  <2>4. /\ (clock' - b.last) * b.limit = gained + b.limit
        /\ b.limit * (clock' - since[j]) = window + b.limit
    BY <1>1, <2>1, <2>3, TimesPlus
  <2>5. Refilled(b) = IF b.tokens + gained < full THEN b.tokens + gained ELSE full
    BY DEF Refilled, Capacity
  <2>6. Refilled(buckets[j])' = IF b.tokens + (gained + b.limit) < full
                                THEN b.tokens + (gained + b.limit) ELSE full
    BY <1>1, <2>4 DEF Refilled, Capacity
  <2>7. spent + Refilled(b) <= full + window
    BY <1>3 DEF IInv, Budget
  <2> HIDE DEF gained, full, window, spent
  <2>8. spent + Refilled(buckets[j])' <= full + (window + b.limit)
    BY <2>1, <2>2, <2>5, <2>6, <2>7
  <2> QED
    BY <1>1, <1>3, <2>4, <2>8 DEF KeyBudget, full, spent
<1>4. ASSUME NEW j \in Keys, buckets[j] = Absent PROVE KeyBudget(j)'
  BY <1>1, <1>4 DEF IInv, Budget, KeyBudget
<1> QED
  BY <1>2, <1>3, <1>4 DEF IInv, Budget, KeyBudget

\* A window begins with a bucket that is full at most.
LEMMA WindowStep ==
  ASSUME IInv, NEW k \in Keys, Window(k)
  PROVE  IInv'
<1>1. /\ TypeOK /\ clock \in Nat /\ clock' = clock /\ Second \in Nat
      /\ keys' = keys /\ buckets' = buckets
      /\ since' = [since EXCEPT ![k] = clock] /\ admitted' = [admitted EXCEPT ![k] = 0]
  BY ClockAssumption DEF IInv, TypeOK, Window
<1>2. TypeOK'
  BY <1>1 DEF TypeOK, Capacity
<1>3. ASSUME NEW j \in Keys PROVE KeyBudget(j)'
  <2>1. CASE j = k /\ buckets[j] # Absent
    <3> DEFINE b == buckets[j]
    <3>1. b \in Bucket /\ b.last <= clock /\ b.limit \in Nat
      BY <1>1, <2>1, LimitAssumption DEF TypeOK, Bucket
    <3>2. Refilled(b) \in Nat /\ Refilled(b) <= Capacity(b)
      BY <1>1, <3>1, RefilledBounds
    <3>3. admitted'[j] * Second = 0 /\ b.limit * (clock - since'[j]) = 0
      BY <1>1, <2>1, <3>1 DEF TypeOK
    <3>4. Refilled(buckets[j])' = Refilled(b)
      BY <1>1 DEF Refilled, Capacity
    <3>5. Capacity(b) = b.limit * Second /\ b.limit * Second \in Nat
      BY <1>1, <3>1, TimesNat DEF Capacity
    <3> QED
      BY <1>1, <2>1, <3>2, <3>3, <3>4, <3>5 DEF KeyBudget
  <2>2. CASE j = k /\ buckets[j] = Absent
    BY <1>1, <2>2 DEF KeyBudget, TypeOK
  <2>3. CASE j # k
    <3>1. since'[j] = since[j] /\ admitted'[j] = admitted[j]
      BY <1>1, <2>3 DEF TypeOK
    <3> QED
      BY <1>1, <3>1 DEF IInv, Budget, KeyBudget, Refilled, Capacity
  <2> QED
    BY <2>1, <2>2, <2>3
<1> QED
  BY <1>2, <1>3 DEF IInv, Budget, KeyBudget

\* The invariant holds in every state of include/auth.h.
LEMMA Inductive == Spec => []IInv
<1>1. Init => IInv
  BY DEF Init, IInv, TypeOK, Budget
<1>2. IInv /\ [Next]_vars => IInv'
  <2> SUFFICES ASSUME IInv, [Next]_vars PROVE IInv'
    OBVIOUS
  <2>1. CASE UNCHANGED vars
    BY <2>1 DEF vars, IInv, TypeOK, Budget, Capacity, Refilled
  <2>2. CASE Next
    BY <2>2, AddKeyStep, VerifyStep, TickStep, WindowStep DEF Next
  <2> QED
    BY <2>1, <2>2
<1> QED
  BY <1>1, <1>2, PTL DEF Spec

\* The bucket of every key stays within its bounds (TokenBucket).
THEOREM TypeCorrect == Spec => []TypeOK
<1>1. IInv => TypeOK
  BY DEF IInv
<1> QED
  BY <1>1, Inductive, PTL

\* In every window of time a key gets no more calls through than its limit allows, for
\* every set of keys and limits (TokenBucket::consume, AuthManager::verify).
THEOREM RateLimited == Spec => []RateBound
<1>1. IInv => RateBound
  <2> SUFFICES ASSUME IInv, NEW k \in Keys, buckets[k] # Absent
               PROVE  admitted[k] * Second <= buckets[k].limit * (Second + clock - since[k])
    BY DEF IInv, Budget, RateBound
  <2> DEFINE b == buckets[k]
  <2>1. /\ b \in Bucket /\ b.last <= clock /\ b.limit \in Nat /\ clock \in Nat /\ Second \in Nat
        /\ since[k] \in Nat /\ admitted[k] \in Nat
    BY LimitAssumption, ClockAssumption DEF IInv, TypeOK, Bucket
  <2>2. Refilled(b) \in Nat
    BY <2>1, RefilledBounds
  <2>3. admitted[k] * Second + Refilled(b) <= b.limit * Second + b.limit * (clock - since[k])
    BY DEF IInv, Budget
  <2>4. b.limit * (Second + (clock - since[k])) = b.limit * Second + b.limit * (clock - since[k])
    BY <2>1, TimesPlus
  <2>5. Second + clock - since[k] = Second + (clock - since[k])
    BY <2>1
  <2>6. admitted[k] * Second \in Int /\ b.limit * Second + b.limit * (clock - since[k]) \in Int
    BY <2>1
  <2> QED
    BY <2>2, <2>3, <2>4, <2>5, <2>6
<1> QED
  BY <1>1, Inductive, PTL

\* A key that waits for 1/limit of a second is admitted (TokenBucket::consume).
THEOREM Spaced == Spec => []SpacedIsAdmitted
<1>1. IInv => SpacedIsAdmitted
  <2> SUFFICES ASSUME IInv, NEW k \in Keys, buckets[k] # Absent, buckets[k].limit > 0,
                      (clock - buckets[k].last) * buckets[k].limit >= Second
               PROVE  Refilled(buckets[k]) >= Second
    BY DEF SpacedIsAdmitted
  <2> DEFINE b == buckets[k]
             gained == (clock - b.last) * b.limit
             full   == b.limit * Second
  <2>1. b.limit \in Nat /\ b.tokens \in Nat /\ b.last \in Nat /\ clock \in Nat /\ Second \in Nat
    BY LimitAssumption, ClockAssumption DEF IInv, TypeOK
  <2>2. gained \in Int /\ gained >= Second
    BY <2>1
  <2>3. full >= Second /\ full \in Int
    <3>1. b.limit - 1 \in Nat /\ b.limit = (b.limit - 1) + 1
      BY <2>1
    <3>2. full = (b.limit - 1) * Second + 1 * Second
      BY <2>1, <3>1, TimesPlus
    <3>3. (b.limit - 1) * Second \in Nat
      BY <2>1, <3>1, TimesNat
    <3> QED
      BY <2>1, <3>2, <3>3
  <2>4. Refilled(b) = IF b.tokens + gained < full THEN b.tokens + gained ELSE full
    BY DEF Refilled, Capacity
  <2> HIDE DEF gained, full
  <2> QED
    BY <2>1, <2>2, <2>3, <2>4
<1> QED
  BY <1>1, Inductive, PTL

(***************************************************************************)
(* Logger.                                                                 *)
(***************************************************************************)

\* A thread in log(): its line and its next step
LineStep == [line : 0..(MaxLines - 1), step : {"begin", "end", "raise"}]

\* The threads in log(), and the lines they have finished
Writers == {t \in Threads : ~Log!Idle(t)}
Raised  == writePos - Cardinality(Writers)

\* The flusher has taken a slot and not yet counted it.
InHand == flusher \in {"read", "clear", "lower"}

\* The counters belong together, however the threads interleave: count_ is what the threads
\* have finished less what the flusher has taken.
Counting ==
    /\ Raised \in Int
    /\ count = Raised - readPos + (IF InHand THEN 1 ELSE 0)
    /\ count >= 0 /\ (InHand => count >= 1 /\ readPos >= 1)
    /\ owed <= Raised
    /\ flusher \in {"gone", "closed"} \/ joined => ~running
    /\ flusher = "closed" => joined

LogDomains ==
    /\ ring \in [0..(BufSize - 1) -> Log!Contents]
    /\ writePos \in 0..MaxLines /\ readPos \in Nat
    /\ writing \in [Threads -> LineStep \cup {Empty}]
    /\ running \in BOOLEAN /\ joined \in BOOLEAN /\ calm \in BOOLEAN
    /\ flusher \in Log!Steps
    /\ file \in Seq(Log!Contents \ {Empty})
    /\ owed \in 0..MaxLines

LogInv == LogDomains /\ Counting

\* A slot is one of the ring's.
LEMMA SlotType ==
    ASSUME NEW n \in Int
    PROVE  Log!Slot(n) \in 0..(BufSize - 1) /\ n \div BufSize \in Int
           /\ n = BufSize * (n \div BufSize) + Log!Slot(n)
  BY LoggerAssumption DEF Log!Slot

\* Lines that are less than a round apart have different slots.
LEMMA SlotsDiffer ==
    ASSUME NEW m \in Int, NEW n \in Int, m < n, n - m < BufSize
    PROVE  Log!Slot(m) # Log!Slot(n)
<1> SUFFICES ASSUME Log!Slot(m) = Log!Slot(n) PROVE FALSE
  OBVIOUS
<1>1. BufSize \in Nat
  BY LoggerAssumption
<1> DEFINE p == m \div BufSize
           q == n \div BufSize
<1>2. p \in Int /\ q \in Int /\ n - m = BufSize * q - BufSize * p
  <2>1. p \in Int /\ m = BufSize * p + Log!Slot(m) /\ Log!Slot(m) \in Int
    BY SlotType
  <2>2. q \in Int /\ n = BufSize * q + Log!Slot(m)
    BY SlotType
  <2> HIDE DEF p, q
  <2>3. BufSize * p \in Int /\ BufSize * q \in Int
    BY <1>1, <2>1, <2>2
  <2> QED
    BY <2>1, <2>2, <2>3
<1> HIDE DEF p, q
<1>3. BufSize * q - BufSize * p = BufSize * (q - p)
  BY <1>1, <1>2
<1>4. CASE q - p <= 0
  <2>1. PICK d \in Nat : p - q = d
    BY <1>2, <1>4
  <2>2. BufSize * (q - p) = -(BufSize * d) /\ BufSize * d >= 0
    BY <1>1, <1>2, <2>1
  <2> QED
    BY <1>1, <1>2, <1>3, <2>2
<1>5. CASE q - p >= 1
  <2>1. PICK d \in Nat : q - p = 1 + d
    BY <1>2, <1>5
  <2>2. BufSize * (q - p) = BufSize + BufSize * d /\ BufSize * d >= 0
    BY <1>1, <1>2, <2>1
  <2> QED
    BY <1>1, <1>2, <1>3, <2>2
<1> QED
  BY <1>2, <1>4, <1>5

\* Threads that enter and leave log()
LEMMA WritersFacts ==
    ASSUME LogDomains
    PROVE  /\ IsFiniteSet(Writers) /\ Cardinality(Writers) \in Nat
           /\ \A t \in Writers : writing[t] \in LineStep /\ Cardinality(Writers) >= 1
           /\ \A t \in Threads : t \in Writers <=> writing[t] # Empty
<1>1. Writers \subseteq Threads /\ IsFiniteSet(Writers)
  BY FS_Subset, LoggerAssumption DEF Writers
<1>2. Cardinality(Writers) \in Nat /\ (Cardinality(Writers) = 0 <=> Writers = {})
  BY <1>1, FS_CardinalityType, FS_EmptySet
<1>3. \A t \in Threads : t \in Writers <=> writing[t] # Empty
  BY DEF Writers, Log!Idle
<1>4. \A t \in Writers : writing[t] \in LineStep
  BY <1>1, <1>3 DEF LogDomains
<1> QED
  BY <1>1, <1>2, <1>3, <1>4

\* A thread enters log().
LEMMA ReserveSteps ==
    ASSUME LogInv, NEW t \in Threads, Log!Reserve(t)
    PROVE  LogInv' /\ Cardinality(Writers') = Cardinality(Writers) + 1
<1>1. /\ writing[t] = Empty /\ writePos < MaxLines /\ writePos' = writePos + 1
      /\ writing' = [writing EXCEPT ![t] = [line |-> writePos, step |-> "begin"]]
      /\ UNCHANGED <<ring, readPos, count, running, flusher, joined, file, owed>>
  BY DEF Log!Reserve, Log!Idle
<1>2. [line |-> writePos, step |-> "begin"] \in LineStep
  BY <1>1, LoggerAssumption DEF LogInv, LogDomains, LineStep
<1>3. calm' \in BOOLEAN
  BY DEF Log!Reserve, LogInv, LogDomains
<1>4. LogDomains'
  BY <1>1, <1>2, <1>3, LoggerAssumption DEF LogInv, LogDomains, Log!Contents
<1>5. Writers' = Writers \cup {t} /\ t \notin Writers
  <2>1. \A u \in Threads : u \in Writers' <=> writing'[u] # Empty
    BY DEF Writers, Log!Idle
  <2>2. writing'[t] # Empty /\ \A u \in Threads \ {t} : writing'[u] = writing[u]
    BY <1>1, <1>2, LoggerAssumption DEF LogInv, LogDomains, LineStep
  <2>3. \A u \in Threads : u \in Writers <=> writing[u] # Empty
    BY DEF Writers, Log!Idle
  <2>4. Writers \subseteq Threads /\ Writers' \subseteq Threads
    BY DEF Writers
  <2> QED
    BY <1>1, <2>1, <2>2, <2>3, <2>4
<1>6. Cardinality(Writers') = Cardinality(Writers) + 1 /\ Cardinality(Writers) \in Nat
  BY <1>5, WritersFacts, FS_AddElement DEF LogInv
<1>7. Raised' = Raised
  BY <1>1, <1>6, LoggerAssumption DEF Raised, LogInv, LogDomains
<1>8. Counting'
  BY <1>1, <1>7 DEF LogInv, Counting, InHand
<1> QED
  BY <1>4, <1>6, <1>8 DEF LogInv

\* The writers are those whose record is there.
LEMMA SameWriters ==
    ASSUME \A t \in Threads : writing'[t] = Empty <=> writing[t] = Empty, writePos' = writePos
    PROVE  Writers' = Writers /\ Raised' = Raised
<1>1. Writers' = Writers
  BY DEF Writers, Log!Idle
<1> QED
  BY <1>1 DEF Raised

\* A thread stores its line.
LEMMA StoreSteps ==
    ASSUME LogInv, NEW t \in Threads, Log!StoreBegins(t) \/ Log!StoreEnds(t)
    PROVE  LogInv' /\ Writers' = Writers
<1>1. /\ writing[t] # Empty
      /\ UNCHANGED <<writePos, readPos, count, running, flusher, joined, file, calm, owed>>
  BY DEF Log!StoreBegins, Log!StoreEnds, Log!At, Log!Idle
<1>2. writing[t] \in LineStep /\ writing[t].line \in 0..(MaxLines - 1)
  BY <1>1 DEF LogInv, LogDomains, LineStep
<1>3. PICK step \in {"end", "raise"} : writing' = [writing EXCEPT ![t].step = step]
  BY DEF Log!StoreBegins, Log!StoreEnds
<1>4. PICK value \in Log!Contents : ring' = [ring EXCEPT ![Log!Slot(writing[t].line)] = value]
  BY <1>2 DEF Log!StoreBegins, Log!StoreEnds, Log!Contents
<1>5. writing'[t] \in LineStep /\ \A u \in Threads \ {t} : writing'[u] = writing[u]
  BY <1>2, <1>3 DEF LogInv, LogDomains, LineStep
<1>6. writing' \in [Threads -> LineStep \cup {Empty}]
  BY <1>3, <1>5 DEF LogInv, LogDomains
<1>7. ring' \in [0..(BufSize - 1) -> Log!Contents]
  BY <1>4 DEF LogInv, LogDomains
<1>8. LogDomains'
  BY <1>1, <1>6, <1>7 DEF LogInv, LogDomains, Log!Contents, LineStep
<1>9. Writers' = Writers /\ Raised' = Raised
  <2>1. writing'[t] # Empty
    BY <1>5, LoggerAssumption DEF LineStep
  <2> QED
    BY <1>1, <1>5, <2>1, SameWriters
<1> QED
  BY <1>1, <1>8, <1>9 DEF LogInv, Counting, InHand

\* A thread leaves log().
LEMMA RaiseSteps ==
    ASSUME LogInv, NEW t \in Threads, Log!Raise(t)
    PROVE  LogInv' /\ Writers' = Writers \ {t} /\ t \in Writers /\ Raised' = Raised + 1
<1>1. /\ writing[t] # Empty /\ writing' = [writing EXCEPT ![t] = Empty] /\ count' = count + 1
      /\ UNCHANGED <<ring, writePos, readPos, running, flusher, joined, file, calm, owed>>
  BY DEF Log!Raise, Log!At, Log!Idle
<1>2. Writers' = Writers \ {t} /\ t \in Writers
  <2>1. \A u \in Threads : (u \in Writers <=> writing[u] # Empty) /\ (u \in Writers' <=> writing'[u] # Empty)
    BY DEF Writers, Log!Idle
  <2>2. writing'[t] = Empty /\ \A u \in Threads \ {t} : writing'[u] = writing[u]
    BY <1>1 DEF LogInv, LogDomains
  <2>3. Writers \subseteq Threads /\ Writers' \subseteq Threads
    BY DEF Writers
  <2> QED
    BY <1>1, <2>1, <2>2, <2>3
<1>3. Cardinality(Writers') = Cardinality(Writers) - 1 /\ Cardinality(Writers) \in Nat
  BY <1>2, WritersFacts, FS_RemoveElement DEF LogInv
<1>4. Raised' = Raised + 1
  BY <1>1, <1>3 DEF Raised, LogInv, LogDomains
<1>5. Counting'
  <2>1. Raised \in Int /\ count = Raised - readPos + (IF InHand THEN 1 ELSE 0) /\ readPos \in Nat
    BY DEF LogInv, Counting, LogDomains
  <2>2. InHand' = InHand
    BY <1>1 DEF InHand
  <2>3. count' = Raised' - readPos' + (IF InHand' THEN 1 ELSE 0)
    BY <1>1, <1>4, <2>1, <2>2
  <2>4. owed \in Nat /\ owed <= Raised /\ count \in Int /\ count >= 0
    BY <2>1 DEF LogInv, Counting, LogDomains
  <2> QED
    BY <1>1, <1>4, <2>1, <2>2, <2>3, <2>4 DEF LogInv, Counting
<1>6. LogDomains'
  BY <1>1 DEF LogInv, LogDomains, Log!Contents, LineStep
<1> QED
  BY <1>2, <1>4, <1>5, <1>6 DEF LogInv

\* What belongs to the flushing thread alone is left by the others, and the other way round.
LEMMA FlusherSteps ==
    ASSUME LogInv,
           Log!Wake \/ Log!Check \/ Log!Read \/ Log!Clear \/ Log!Lower \/ Log!Join
    PROVE  LogInv' /\ UNCHANGED <<writePos, writing, calm, owed, running, Writers, Raised>>
<1>1. UNCHANGED <<writePos, writing, calm, owed, running>>
  BY DEF Log!Wake, Log!Check, Log!Read, Log!Clear, Log!Lower, Log!Join, Log!ring
<1>2. Writers' = Writers /\ Raised' = Raised
  BY <1>1, SameWriters
<1>3. /\ Raised \in Int /\ readPos \in Nat /\ count \in Int /\ joined \in BOOLEAN /\ running \in BOOLEAN
      /\ count = Raised - readPos + (IF InHand THEN 1 ELSE 0)
  BY DEF LogInv, Counting, LogDomains
<1>4. CASE Log!Wake
  <2>1. /\ UNCHANGED <<ring, readPos, count, joined, file>> /\ flusher = "sleep"
        /\ flusher' = "check" \/ (flusher' = "gone" /\ ~running)
    BY <1>4 DEF Log!Wake, Log!Flusher, Log!ring
  <2>2. LogDomains'
    BY <1>1, <2>1 DEF LogInv, LogDomains, Log!Contents, LineStep, Log!Steps
  <2> QED
    BY <1>1, <1>2, <2>1, <2>2 DEF LogInv, Counting, InHand
<1>5. CASE Log!Check
  <2>1. UNCHANGED <<ring, count, joined, file>> /\ flusher = "check"
    BY <1>5 DEF Log!Check, Log!Flusher
  <2>2. CASE count > 0
    <3>1. flusher' = "read" /\ readPos' = readPos + 1
      BY <1>3, <1>5, <2>2 DEF Log!Check, Log!Flusher
    <3>2. LogDomains'
      BY <1>1, <1>3, <2>1, <3>1 DEF LogInv, LogDomains, Log!Contents, LineStep, Log!Steps
    <3> QED
      BY <1>1, <1>2, <1>3, <2>1, <2>2, <3>1, <3>2 DEF LogInv, Counting, InHand
  <2>3. CASE ~(count > 0)
    <3>1. flusher' = (IF joined THEN "closed" ELSE "sleep") /\ readPos' = readPos
      BY <1>5, <2>3 DEF Log!Check, Log!Flusher
    <3>2. LogDomains'
      BY <1>1, <1>3, <2>1, <3>1 DEF LogInv, LogDomains, Log!Contents, LineStep, Log!Steps
    <3> QED
      BY <1>1, <1>2, <1>3, <2>1, <3>1, <3>2 DEF LogInv, Counting, InHand
  <2> QED
    BY <2>2, <2>3
<1>6. CASE Log!Read
  <2>1. /\ UNCHANGED <<ring, readPos, count, joined>> /\ flusher = "read" /\ flusher' \in {"clear", "lower"}
        /\ \/ file' = file
           \/ ring[Log!Reading] # Empty /\ file' = Append(file, ring[Log!Reading])
    BY <1>6 DEF Log!Read, Log!Flusher, Log!ring
  <2>2. Log!Reading \in 0..(BufSize - 1)
    BY <1>3, SlotType DEF Log!Reading
  <2>3. file' \in Seq(Log!Contents \ {Empty})
    <3>1. ring[Log!Reading] \in Log!Contents /\ file \in Seq(Log!Contents \ {Empty})
      BY <2>2 DEF LogInv, LogDomains
    <3> QED
      BY <2>1, <3>1, AppendProperties
  <2>4. LogDomains'
    BY <1>1, <2>1, <2>3 DEF LogInv, LogDomains, Log!Contents, LineStep, Log!Steps
  <2> QED
    BY <1>1, <1>2, <2>1, <2>4 DEF LogInv, Counting, InHand
<1>7. CASE Log!Clear
  <2>1. /\ UNCHANGED <<readPos, count, joined, file>> /\ flusher = "clear" /\ flusher' = "lower"
        /\ ring' = [ring EXCEPT ![Log!Reading] = Empty]
    BY <1>7 DEF Log!Clear, Log!Flusher
  <2>2. ring' \in [0..(BufSize - 1) -> Log!Contents]
    BY <2>1 DEF LogInv, LogDomains, Log!Contents
  <2>3. LogDomains'
    BY <1>1, <2>1, <2>2 DEF LogInv, LogDomains, Log!Contents, LineStep, Log!Steps
  <2> QED
    BY <1>1, <1>2, <2>1, <2>3 DEF LogInv, Counting, InHand
<1>8. CASE Log!Lower
  <2>1. /\ UNCHANGED <<ring, readPos, joined, file>> /\ flusher = "lower" /\ flusher' = "check"
        /\ count' = count - 1
    BY <1>8 DEF Log!Lower, Log!Flusher
  <2>2. LogDomains'
    BY <1>1, <2>1 DEF LogInv, LogDomains, Log!Contents, LineStep, Log!Steps
  <2>3. count >= 1
    BY <2>1 DEF LogInv, Counting, InHand
  <2> QED
    BY <1>1, <1>2, <1>3, <2>1, <2>2, <2>3 DEF LogInv, Counting, InHand
<1>9. CASE Log!Join
  <2>1. UNCHANGED <<ring, readPos, count, file>> /\ flusher = "gone" /\ flusher' = "check" /\ joined'
    BY <1>9 DEF Log!Join, Log!Flusher, Log!ring
  <2>2. joined' \in BOOLEAN
    BY <1>9 DEF Log!Join
  <2>3. LogDomains'
    BY <1>1, <2>1, <2>2 DEF LogInv, LogDomains, Log!Contents, LineStep, Log!Steps
  <2> QED
    BY <1>1, <1>2, <2>1, <2>3 DEF LogInv, Counting, InHand
<1> QED
  BY <1>1, <1>2, <1>4, <1>5, <1>6, <1>7, <1>8, <1>9

\* shutdown() begins.
LEMMA StopSteps ==
    ASSUME LogInv, Log!Stop
    PROVE  LogInv' /\ UNCHANGED <<ring, writePos, readPos, count, writing, flusher, joined, file, calm, Writers, Raised>>
<1>1. /\ running /\ running' = FALSE /\ owed' = Raised
      /\ UNCHANGED <<ring, writePos, readPos, count, writing, flusher, joined, file, calm>>
  <2>1. Log!Cardinality(Writers) = Cardinality(Writers)
    BY DEF Log!Cardinality, Cardinality
  <2>2. owed' = writePos - Log!Cardinality(Writers)
    BY DEF Log!Stop, Writers
  <2> QED
    BY <2>1, <2>2 DEF Log!Stop, Log!ring, Raised
<1>2. Writers' = Writers /\ Raised' = Raised
  BY <1>1, SameWriters
<1>3. Raised \in 0..MaxLines
  <2>1. Raised \in Int /\ readPos \in Nat /\ count \in Int /\ count = Raised - readPos + (IF InHand THEN 1 ELSE 0)
    BY DEF LogInv, Counting, LogDomains
  <2>2. count >= 0 /\ (InHand => readPos >= 1)
    BY DEF LogInv, Counting
  <2>3. Raised <= writePos
    BY WritersFacts, LoggerAssumption DEF Raised, LogInv, LogDomains
  <2> QED
    BY <2>1, <2>2, <2>3, LoggerAssumption DEF LogInv, LogDomains
<1>4. LogDomains'
  BY <1>1, <1>3 DEF LogInv, LogDomains, Log!Contents, LineStep
<1>5. Counting'
  BY <1>1, <1>2, <1>3 DEF LogInv, Counting, InHand
<1> QED
  BY <1>1, <1>2, <1>4, <1>5 DEF LogInv

\* The logger is empty when it is opened.
LEMMA InitLogInv == Log!Init => LogInv
<1> SUFFICES ASSUME Log!Init PROVE LogInv
  OBVIOUS
<1>1. Writers = {} /\ Cardinality(Writers) = 0
  <2>1. Writers = {}
    BY DEF Log!Init, Writers, Log!Idle
  <2> QED
    BY <2>1, FS_EmptySet
<1>2. file \in Seq(Log!Contents \ {Empty})
  BY EmptySeq DEF Log!Init
<1>3. LogDomains
  <2>1. ring \in [0..(BufSize - 1) -> Log!Contents]
    BY DEF Log!Init, Log!Contents
  <2>2. writing \in [Threads -> LineStep \cup {Empty}]
    BY DEF Log!Init
  <2>3. 0 \in 0..MaxLines
    BY LoggerAssumption
  <2> QED
    BY <1>2, <2>1, <2>2, <2>3 DEF Log!Init, LogDomains, Log!Steps
<1>4. Counting
  BY <1>1 DEF Log!Init, Counting, Raised, InHand
<1> QED
  BY <1>3, <1>4 DEF LogInv

\* Every step keeps the counters together.
LEMMA StepLogInv == LogInv /\ [Log!Next]_Log!loggerVars => LogInv'
<1> SUFFICES ASSUME LogInv, [Log!Next]_Log!loggerVars PROVE LogInv'
  OBVIOUS
<1>1. CASE UNCHANGED Log!loggerVars
  <2>1. UNCHANGED <<ring, writePos, readPos, count, writing, running, flusher, joined, file, calm, owed>>
    BY <1>1 DEF Log!loggerVars, Log!ring
  <2>2. Raised' = Raised
    BY <2>1, SameWriters
  <2> QED
    BY <2>1, <2>2 DEF LogInv, LogDomains, Counting, InHand, Log!Contents, LineStep
<1> QED
  BY <1>1, ReserveSteps, StoreSteps, RaiseSteps, FlusherSteps, StopSteps DEF Log!Next

\* The counters never pass one another.
LEMMA LogInvTypeOK == ASSUME LogInv PROVE Log!TypeOK
<1>1. Raised \in Int /\ count = Raised - readPos + (IF InHand THEN 1 ELSE 0) /\ readPos \in Nat
  BY DEF LogInv, Counting, LogDomains
<1>2. count >= 0 /\ (InHand => count >= 1 /\ readPos >= 1)
  BY DEF LogInv, Counting
<1>3. Raised <= writePos /\ writePos \in 0..MaxLines
  BY WritersFacts, LoggerAssumption DEF Raised, LogInv, LogDomains
<1>4. readPos \in 0..writePos /\ count \in 0..writePos
  BY <1>1, <1>2, <1>3
<1> QED
  BY <1>4 DEF LogInv, LogDomains, Log!TypeOK, LineStep

\* The flusher never passes a reservation and count_ never drops below zero, however the threads
\* in log() and the one in flush_all() interleave, and whenever shutdown() comes.
THEOREM LoggerTypeCorrect == Log!Spec => []Log!TypeOK
  BY InitLogInv, StepLogInv, LogInvTypeOK, PTL DEF Log!Spec

\* The first line whose string the flusher has not taken out of the ring
Low == IF flusher \in {"read", "clear"} THEN readPos - 1 ELSE readPos

\* While no two threads log at once and the ring has room, the lines from Low on stand in their
\* slots, but for the last one, which a thread may be storing; the file has the others.
Orderly ==
    calm =>
        /\ \A t, u \in Writers : t = u
        /\ \A t \in Writers : writing[t].line = writePos - 1
        /\ writePos - Low <= BufSize
        /\ \A n \in Int : Low <= n /\ n < Raised => ring[Log!Slot(n)] = n
        /\ \A t \in Writers : /\ writing[t].step = "end" => ring[Log!Slot(writePos - 1)] = Garbled
                              /\ writing[t].step = "raise" => ring[Log!Slot(writePos - 1)] = writePos - 1
        /\ Len(file) = (IF flusher = "read" THEN readPos - 1 ELSE readPos)
        /\ \A i \in 1..Len(file) : file[i] = i - 1
        /\ flusher = "closed" => readPos >= owed

\* Types, for arithmetic
LEMMA LogFacts ==
    ASSUME LogInv
    PROVE  /\ Raised \in Int /\ readPos \in Nat /\ writePos \in Nat /\ Low \in Int /\ Low >= 0
           /\ BufSize \in Nat /\ BufSize >= 1 /\ owed \in Nat /\ Len(file) \in Nat
           /\ Raised <= writePos /\ readPos <= Raised
           /\ Cardinality(Writers) \in Nat /\ Raised = writePos - Cardinality(Writers)
           /\ \A t \in Writers : writing[t] \in LineStep /\ Raised <= writePos - 1
<1>1. Raised \in Int /\ count = Raised - readPos + (IF InHand THEN 1 ELSE 0) /\ readPos \in Nat
      /\ count >= 0 /\ (InHand => count >= 1 /\ readPos >= 1)
  BY DEF LogInv, Counting, LogDomains
<1>2. writePos \in Nat /\ BufSize \in Nat /\ BufSize >= 1 /\ owed \in Nat /\ Len(file) \in Nat
  BY LenProperties, LoggerAssumption DEF LogInv, LogDomains
<1>3. /\ Cardinality(Writers) \in Nat
      /\ \A t \in Writers : writing[t] \in LineStep /\ Cardinality(Writers) >= 1
  BY WritersFacts DEF LogInv
<1>4. Raised = writePos - Cardinality(Writers)
  BY DEF Raised
<1>5. Low \in Int /\ Low >= 0
  BY <1>1 DEF Low, InHand
<1>6. readPos <= Raised
  BY <1>1
<1> QED
  BY <1>1, <1>2, <1>3, <1>4, <1>5, <1>6

\* A line is reserved, when there is room for two.
LEMMA ReserveOrderly ==
    ASSUME LogInv, Orderly, NEW t \in Threads, Log!Reserve(t)
    PROVE  Orderly'
<1> SUFFICES ASSUME calm' PROVE Orderly'
  BY DEF Orderly
<1>1. /\ calm /\ \A u \in Threads : Log!Idle(u)
      /\ writePos - readPos < BufSize - 1 /\ writePos' = writePos + 1
      /\ writing' = [writing EXCEPT ![t] = [line |-> writePos, step |-> "begin"]]
      /\ UNCHANGED <<ring, readPos, flusher, file, owed>>
  BY DEF Log!Reserve
<1>2. Writers = {} /\ Raised = writePos
  <2>1. Writers = {}
    BY <1>1 DEF Writers
  <2> QED
    BY <2>1, LogFacts, FS_EmptySet
<1>3. /\ \A u \in Writers' : u = t
      /\ writing'[t].line = writePos /\ writing'[t].step = "begin"
  BY <1>1 DEF Writers, Log!Idle, LogInv, LogDomains
<1>4. Raised' = Raised
  <2>1. Cardinality(Writers') = Cardinality(Writers) + 1
    BY ReserveSteps
  <2> QED
    BY <1>1, <2>1, LogFacts DEF Raised
<1>5. Low' = Low /\ writePos' - Low' <= BufSize /\ writePos' - 1 = writePos
  <2>1. readPos \in Nat /\ writePos \in Nat /\ BufSize \in Nat
    BY LogFacts
  <2>2. Low' = Low /\ Low \in {readPos - 1, readPos}
    BY <1>1 DEF Low
  <2> QED
    BY <1>1, <2>1, <2>2
<1>6. \A n \in Int : Low' <= n /\ n < Raised' => ring'[Log!Slot(n)'] = n
  BY <1>1, <1>4, <1>5 DEF Orderly, Log!Slot
<1>7. \A u \in Writers' : writing'[u].line = writePos' - 1 /\ writing'[u].step = "begin"
  BY <1>3, <1>5
<1>8. /\ Len(file') = (IF flusher' = "read" THEN readPos' - 1 ELSE readPos')
      /\ \A i \in 1..Len(file') : file'[i] = i - 1
      /\ flusher' = "closed" => readPos' >= owed'
  BY <1>1 DEF Orderly
<1> QED
  BY <1>3, <1>5, <1>6, <1>7, <1>8 DEF Orderly

\* The line that is being stored is less than a round ahead of those in the ring.
LEMMA LastSlot ==
    ASSUME LogInv, Orderly, calm, NEW t \in Writers
    PROVE  /\ writing[t].line = writePos - 1 /\ \A u \in Writers : u = t
           /\ \A n \in Int : Low <= n /\ n < Raised => Log!Slot(n) # Log!Slot(writePos - 1)
<1>1. writing[t].line = writePos - 1 /\ (\A u \in Writers : u = t) /\ writePos - Low <= BufSize
  BY DEF Orderly
<1>2. ASSUME NEW n \in Int, Low <= n, n < Raised PROVE Log!Slot(n) # Log!Slot(writePos - 1)
  <2>1. n < writePos - 1 /\ (writePos - 1) - n < BufSize
    BY <1>1, <1>2, LogFacts
  <2> QED
    BY <2>1, SlotsDiffer, LogFacts
<1> QED
  BY <1>1, <1>2

\* A line is stored in its own slot.
LEMMA StoreOrderly ==
    ASSUME LogInv, Orderly, NEW t \in Threads, Log!StoreBegins(t) \/ Log!StoreEnds(t)
    PROVE  Orderly'
<1> SUFFICES ASSUME calm' PROVE Orderly'
  BY DEF Orderly
<1>1. /\ calm /\ t \in Writers
      /\ UNCHANGED <<writePos, readPos, flusher, file, owed>>
  BY DEF Log!StoreBegins, Log!StoreEnds, Log!At, Writers
<1>2. Writers' = Writers /\ Raised' = Raised /\ Low' = Low
  BY <1>1, StoreSteps DEF Raised, Low
<1>3. /\ writing[t].line = writePos - 1 /\ \A u \in Writers : u = t
      /\ \A n \in Int : Low <= n /\ n < Raised => Log!Slot(n) # Log!Slot(writePos - 1)
  BY <1>1, LastSlot
<1>4. writing[t] \in LineStep /\ Log!Slot(writePos - 1) \in 0..(BufSize - 1)
  <2>1. writePos - 1 \in Int
    BY LogFacts
  <2> QED
    BY <1>1, <2>1, LogFacts, SlotType
<1>5. ASSUME NEW value, ring' = [ring EXCEPT ![Log!Slot(writePos - 1)] = value],
             NEW step \in {"end", "raise"}, writing' = [writing EXCEPT ![t].step = step],
             step = "end" => value = Garbled, step = "raise" => value = writePos - 1
      PROVE  Orderly'
  <2>1. writing'[t].line = writePos - 1 /\ writing'[t].step = step
    BY <1>1, <1>3, <1>4, <1>5 DEF LogInv, LogDomains, LineStep, Writers
  <2>2. ring'[Log!Slot(writePos - 1)] = value
    BY <1>4, <1>5 DEF LogInv, LogDomains
  <2>3. \A n \in Int : Low <= n /\ n < Raised => ring'[Log!Slot(n)] = n
    BY <1>1, <1>3, <1>5, SlotType DEF LogInv, LogDomains, Orderly
  <2>4. Log!Slot(writePos - 1)' = Log!Slot(writePos - 1)
    BY <1>1 DEF Log!Slot
  <2>5. \A n \in Int : Log!Slot(n)' = Log!Slot(n)
    BY DEF Log!Slot
  <2> QED
    BY <1>1, <1>2, <1>3, <1>5, <2>1, <2>2, <2>3, <2>4, <2>5 DEF Orderly
<1>6. CASE Log!StoreBegins(t)
  BY <1>3, <1>5, <1>6 DEF Log!StoreBegins
<1>7. CASE Log!StoreEnds(t)
  <2>1. ring[Log!Slot(writePos - 1)] = Garbled
    BY <1>1, <1>7 DEF Log!StoreEnds, Log!At, Orderly
  <2>2. ~ \E u \in Threads \ {t} : Log!At(u, "end") /\ Log!Slot(writing[u].line) = Log!Slot(writePos - 1)
    BY <1>3 DEF Log!At, Writers
  <2>3. ring' = [ring EXCEPT ![Log!Slot(writePos - 1)] = writePos - 1]
    BY <1>3, <1>7, <2>1, <2>2 DEF Log!StoreEnds
  <2>4. writing' = [writing EXCEPT ![t].step = "raise"]
    BY <1>7 DEF Log!StoreEnds
  <2> QED
    BY <1>5, <2>3, <2>4
<1> QED
  BY <1>6, <1>7

\* A stored line is counted.
LEMMA RaiseOrderly ==
    ASSUME LogInv, Orderly, NEW t \in Threads, Log!Raise(t)
    PROVE  Orderly'
<1> SUFFICES ASSUME calm' PROVE Orderly'
  BY DEF Orderly
<1>1. /\ calm /\ writing[t].step = "raise"
      /\ UNCHANGED <<ring, writePos, readPos, flusher, file, owed>>
  BY DEF Log!Raise, Log!At
<1>2. t \in Writers /\ Writers' = Writers \ {t} /\ Raised' = Raised + 1
  BY RaiseSteps
<1>3. Writers' = {} /\ ring[Log!Slot(writePos - 1)] = writePos - 1
  BY <1>1, <1>2 DEF Orderly
<1>4. Raised' = writePos
  <2>1. Cardinality(Writers') = 0
    BY <1>3, FS_EmptySet
  <2> QED
    BY <1>1, <2>1, LogFacts DEF Raised
<1>5. \A n \in Int : Low <= n /\ n < Raised' => ring[Log!Slot(n)] = n
  <2>1. \A n \in Int : n < Raised' => n < Raised \/ n = writePos - 1
    BY <1>2, <1>4, LogFacts
  <2> QED
    BY <1>1, <1>3, <2>1 DEF Orderly
<1>6. Low' = Low /\ \A n \in Int : Log!Slot(n)' = Log!Slot(n)
  BY <1>1 DEF Low, Log!Slot
<1> QED
  BY <1>1, <1>3, <1>5, <1>6 DEF Orderly

\* The slot that is read holds the line next in the file.
LEMMA ReadingFacts ==
    ASSUME LogInv, Orderly, calm, flusher \in {"read", "clear"}
    PROVE  /\ Low = readPos - 1 /\ readPos >= 1 /\ readPos <= Raised
           /\ Log!Reading = Log!Slot(readPos - 1) /\ Log!Reading \in 0..(BufSize - 1)
           /\ ring[Log!Reading] = readPos - 1
           /\ \A n \in Int : readPos <= n /\ n < writePos => Log!Slot(n) # Log!Reading
<1>1. Low = readPos - 1 /\ readPos >= 1 /\ readPos <= Raised /\ Log!Reading = Log!Slot(readPos - 1)
  BY LogFacts DEF LogInv, Counting, InHand, Low, Log!Reading
<1>2. ring[Log!Reading] = readPos - 1 /\ writePos - Low <= BufSize
  <2>1. readPos - 1 \in Int /\ Low <= readPos - 1 /\ readPos - 1 < Raised
    BY <1>1, LogFacts
  <2> QED
    BY <1>1, <2>1 DEF Orderly
<1>3. ASSUME NEW n \in Int, readPos <= n, n < writePos PROVE Log!Slot(n) # Log!Slot(readPos - 1)
  <2>1. readPos \in Nat /\ writePos \in Nat /\ BufSize \in Nat /\ readPos - 1 \in Int
    BY LogFacts
  <2>2. readPos - 1 < n /\ n - (readPos - 1) < BufSize
    BY <1>1, <1>2, <1>3, <2>1
  <2> QED
    BY <2>1, <2>2, SlotsDiffer
<1>4. Log!Reading \in 0..(BufSize - 1)
  BY <1>1, SlotType, LogFacts
<1> QED
  BY <1>1, <1>2, <1>3, <1>4

\* The flusher takes the lines out one after another.
LEMMA FlusherOrderly ==
    ASSUME LogInv, Orderly,
           Log!Wake \/ Log!Check \/ Log!Read \/ Log!Clear \/ Log!Lower \/ Log!Join
    PROVE  Orderly'
<1> SUFFICES ASSUME calm' PROVE Orderly'
  BY DEF Orderly
<1>1. UNCHANGED <<writePos, writing, calm, owed, running, Writers, Raised>> /\ calm
  BY FlusherSteps
<1>2. \A n \in Int : Log!Slot(n)' = Log!Slot(n)
  BY DEF Log!Slot
<1>3. ASSUME ring' = ring, Low' = Low, Len(file') = (IF flusher' = "read" THEN readPos' - 1 ELSE readPos'),
             \A i \in 1..Len(file') : file'[i] = i - 1, flusher' = "closed" => readPos' >= owed
      PROVE  Orderly'
  BY <1>1, <1>2, <1>3 DEF Orderly
<1>4. CASE Log!Wake \/ Log!Lower \/ Log!Join
  <2>1. /\ UNCHANGED <<ring, readPos, file>> /\ flusher \in {"sleep", "lower", "gone"}
        /\ flusher' \in {"check", "gone"}
    BY <1>4 DEF Log!Wake, Log!Lower, Log!Join, Log!Flusher, Log!ring
  <2>2. Low' = Low
    BY <2>1 DEF Low
  <2> QED
    BY <1>1, <1>3, <2>1, <2>2 DEF Orderly
<1>5. CASE Log!Check
  <2>1. UNCHANGED <<ring, count, file>> /\ flusher = "check"
    BY <1>5 DEF Log!Check, Log!Flusher
  <2>2. CASE count > 0
    <3>1. flusher' = "read" /\ readPos' = readPos + 1
      BY <1>5, <2>2, LogFacts DEF Log!Check, Log!Flusher, LogInv, Counting
    <3>2. Low' = Low /\ readPos' - 1 = readPos
      BY <2>1, <3>1, LogFacts DEF Low
    <3>3. Len(file) = readPos /\ \A i \in 1..Len(file) : file[i] = i - 1
      BY <1>1, <2>1 DEF Orderly
    <3> QED
      BY <1>3, <2>1, <3>1, <3>2, <3>3
  <2>3. CASE ~(count > 0)
    <3>1. flusher' \in {"closed", "sleep"} /\ readPos' = readPos
      BY <1>5, <2>3 DEF Log!Check, Log!Flusher
    <3>2. readPos >= owed
      BY <2>1, <2>3, LogFacts DEF LogInv, Counting, InHand
    <3>3. Low' = Low
      BY <2>1, <3>1 DEF Low
    <3>4. Len(file) = readPos /\ \A i \in 1..Len(file) : file[i] = i - 1
      BY <1>1, <2>1 DEF Orderly
    <3> QED
      BY <1>3, <2>1, <3>1, <3>2, <3>3, <3>4
  <2> QED
    BY <2>2, <2>3
<1>6. CASE Log!Read
  <2>1. flusher = "read" /\ UNCHANGED <<ring, readPos>>
    BY <1>6 DEF Log!Read, Log!Flusher, Log!ring
  <2>2. ring[Log!Reading] = readPos - 1 /\ readPos >= 1
    BY <1>1, <2>1, ReadingFacts
  <2>3. ring[Log!Reading] # Empty
    <3>1. Empty \notin Int
      BY LoggerAssumption
    <3>2. readPos - 1 \in Int
      BY LogFacts
    <3> QED
      BY <2>2, <3>1, <3>2
  <2>4. flusher' = "clear" /\ file' = Append(file, readPos - 1)
    BY <1>6, <2>2, <2>3 DEF Log!Read, Log!Flusher
  <2>5. Len(file) = readPos - 1 /\ \A i \in 1..Len(file) : file[i] = i - 1
    BY <1>1, <2>1 DEF Orderly
  <2>6. file \in Seq(Log!Contents \ {Empty}) /\ readPos - 1 \in Log!Contents \ {Empty}
    <3>1. ring[Log!Reading] \in Log!Contents
      BY <1>1, <2>1, ReadingFacts DEF LogInv, LogDomains
    <3> QED
      BY <2>2, <2>3, <3>1 DEF LogInv, LogDomains
  <2>7. /\ Len(file') = Len(file) + 1 /\ file'[Len(file) + 1] = readPos - 1
        /\ \A i \in 1..Len(file) : file'[i] = file[i]
    BY <2>4, <2>6, AppendProperties
  <2>8. Len(file') = readPos /\ \A i \in 1..Len(file') : file'[i] = i - 1
    <3>1. Len(file') = readPos /\ Len(file) + 1 = readPos /\ Len(file) \in Nat /\ readPos \in Nat
      BY <2>2, <2>5, <2>7, LogFacts
    <3>2. \A i \in 1..readPos : i \in 1..Len(file) \/ i = readPos
      BY <3>1
    <3> QED
      BY <2>5, <2>7, <3>1, <3>2
  <2>9. Low' = Low
    BY <2>1, <2>4 DEF Low
  <2> QED
    BY <1>3, <2>1, <2>4, <2>8, <2>9
<1>7. CASE Log!Clear
  <2>1. /\ flusher = "clear" /\ flusher' = "lower" /\ UNCHANGED <<readPos, file>>
        /\ ring' = [ring EXCEPT ![Log!Reading] = Empty]
    BY <1>7 DEF Log!Clear, Log!Flusher
  <2>2. /\ Low = readPos - 1 /\ Low' = readPos /\ readPos <= Raised
        /\ \A n \in Int : readPos <= n /\ n < writePos => Log!Slot(n) # Log!Reading
    BY <1>1, <2>1, ReadingFacts DEF Low
  <2>3. \A n \in Int : readPos <= n /\ n < writePos => ring'[Log!Slot(n)] = ring[Log!Slot(n)]
    BY <2>1, <2>2, SlotType DEF LogInv, LogDomains
  <2>4. \A n \in Int : Low' <= n /\ n < Raised => ring'[Log!Slot(n)] = n
    <3>1. \A n \in Int : Low' <= n /\ n < Raised => readPos <= n /\ n < writePos /\ Low <= n
      BY <2>2, LogFacts
    <3> QED
      BY <1>1, <2>3, <3>1 DEF Orderly
  <2>5. \A t \in Writers : ring'[Log!Slot(writePos - 1)] = ring[Log!Slot(writePos - 1)]
    <3>1. \A t \in Writers : writePos - 1 \in Int /\ readPos <= writePos - 1 /\ writePos - 1 < writePos
      BY <2>2, LogFacts
    <3> QED
      BY <2>3, <3>1
  <2>6. writePos - Low' <= BufSize
    BY <1>1, <2>2, LogFacts DEF Orderly
  <2> QED
    BY <1>1, <1>2, <2>1, <2>4, <2>5, <2>6 DEF Orderly
<1> QED
  BY <1>4, <1>5, <1>6, <1>7

\* shutdown() begins; the lines stay where they are.
LEMMA StopOrderly ==
    ASSUME LogInv, Orderly, Log!Stop
    PROVE  Orderly'
<1>1. UNCHANGED <<ring, writePos, readPos, count, writing, flusher, joined, file, calm, Writers, Raised>>
  BY StopSteps
<1>2. flusher # "closed"
  BY DEF Log!Stop, LogInv, Counting
<1>3. Low' = Low /\ \A n \in Int : Log!Slot(n)' = Log!Slot(n)
  BY <1>1 DEF Low, Log!Slot
<1> QED
  BY <1>1, <1>2, <1>3 DEF Orderly

\* Every step keeps the lines in order.
LEMMA StepOrderly ==
    LogInv /\ Orderly /\ [Log!Next]_Log!loggerVars => Orderly'
<1> SUFFICES ASSUME LogInv, Orderly, [Log!Next]_Log!loggerVars PROVE Orderly'
  OBVIOUS
<1>1. CASE UNCHANGED Log!loggerVars
  <2>1. UNCHANGED <<ring, writePos, readPos, count, writing, running, flusher, joined, file, calm, owed>>
    BY <1>1 DEF Log!loggerVars, Log!ring
  <2>2. Writers' = Writers /\ Raised' = Raised
    BY <2>1, SameWriters
  <2>3. Low' = Low /\ \A n \in Int : Log!Slot(n)' = Log!Slot(n)
    BY <2>1 DEF Low, Log!Slot
  <2> QED
    BY <2>1, <2>2, <2>3 DEF Orderly
<1> QED
  BY <1>1, ReserveOrderly, StoreOrderly, RaiseOrderly, FlusherOrderly, StopOrderly DEF Log!Next

\* No line is out of order at first.
LEMMA InitOrderly == Log!Init => Orderly
<1> SUFFICES ASSUME Log!Init PROVE Orderly
  OBVIOUS
<1>1. Writers = {} /\ Raised = 0
  <2>1. Writers = {}
    BY DEF Log!Init, Writers, Log!Idle
  <2>2. Cardinality(Writers) = 0
    BY <2>1, FS_EmptySet
  <2> QED
    BY <2>1, <2>2 DEF Log!Init, Raised
<1>2. Low = 0 /\ Len(file) = 0
  BY DEF Log!Init, Low
<1>3. writePos = 0 /\ readPos = 0 /\ flusher = "sleep" /\ BufSize \in Nat /\ Raised = 0
  BY <1>1, LoggerAssumption DEF Log!Init
<1>4. \A n \in Int : ~(Low <= n /\ n < Raised)
  BY <1>2, <1>3
<1>5. writePos - Low <= BufSize /\ \A i \in 1..Len(file) : FALSE
  BY <1>2, <1>3
<1> QED
  BY <1>1, <1>2, <1>3, <1>4, <1>5 DEF Orderly

-----------------------------------------------------------------------------
(* What the file has.                                                      *)

\* As long as no two threads are in log() at once and the ring has room, the file has the lines
\* once, whole and in order, and after shutdown() all that had been logged before it: flush_all()
\* reads no slot that is being written, and clears none that holds a line not yet written out.
THEOREM LinesInOrder == Log!Spec => []LoggedInOrder
<1>1. ASSUME LogInv, Orderly PROVE LoggedInOrder
  <2>1. ASSUME calm PROVE file = [i \in 1..Len(file) |-> i - 1]
    <3>1. file = [i \in 1..Len(file) |-> file[i]]
      BY <1>1, LenProperties DEF LogInv, LogDomains
    <3> QED
      BY <1>1, <2>1, <3>1 DEF Orderly
  <2>2. ASSUME calm, flusher = "closed" PROVE Len(file) >= owed
    BY <1>1, <2>2 DEF Orderly
  <2> QED
    BY <2>1, <2>2 DEF LoggedInOrder, Log!LoggedInOrder
<1>2. Log!Spec => [](LogInv /\ Orderly)
  BY InitLogInv, StepLogInv, InitOrderly, StepOrderly, PTL DEF Log!Spec
<1> QED
  BY <1>1, <1>2, PTL

(***************************************************************************)
(* CacheStore.                                                             *)
(***************************************************************************)

Entry == [key : StoreKeys, since : Int, expires : Int]

\* The entries of l are those of the first keys of r, each as w says it was set last.
Matches(l, r, w) ==
    /\ Len(l) <= Len(r)
    /\ \A i \in 1..Len(l) : /\ l[i].key = r[i]
                            /\ l[i].since = w[r[i]].since
                            /\ l[i].expires = w[r[i]].since + w[r[i]].ttl

\* RecentAreKept says what the store holds, not that recent names no key twice, without which
\* an entry taken out of the middle would leave another order behind.
StoreInv ==
    /\ lru \in Seq(Entry) /\ Len(lru) <= MaxSize
    /\ recent \in Seq(StoreKeys) /\ IsInjective(recent)
    /\ time \in Int /\ DOMAIN written = StoreKeys
    /\ Matches(lru, recent, written)

\* The operators of the libraries, as CacheStore has them.
LEMMA StoreOperators ==
    /\ \A s, T : Store!Keep(s, T) = Keep(s, T)
    /\ \A s : Store!ToSet(s) = ToSet(s)
    /\ \A s : Store!Front(s) = SubSeq(s, 1, Len(s) - 1)
<1>1. ASSUME NEW s, NEW T PROVE Store!Keep(s, T) = Keep(s, T)
  BY DEF Store!Keep, Keep
<1>2. ASSUME NEW s PROVE Store!ToSet(s) = ToSet(s) /\ Store!Front(s) = SubSeq(s, 1, Len(s) - 1)
  BY DEF Store!ToSet, ToSet, Store!Front
<1> QED
  BY <1>1, <1>2

\* A key is in the store or not.
LEMMA HasFacts ==
    ASSUME StoreInv, NEW k
    PROVE  /\ Store!Has(lru, k) <=> \E i \in 1..Len(lru) : lru[i].key = k
           /\ Store!Has(lru, k) => \E i \in 1..Len(lru) : lru[i].key = k /\ Store!Find(k) = lru[i]
<1>1. DOMAIN lru = 1..Len(lru) /\ DOMAIN Store!KeysIn(lru) = 1..Len(lru)
  BY LenProperties DEF StoreInv, Store!KeysIn
<1>2. Store!Has(lru, k) <=> \E i \in 1..Len(lru) : lru[i].key = k
  BY <1>1, StoreOperators DEF ToSet, Store!Has, Store!KeysIn
<1>3. ASSUME NEW i \in 1..Len(lru), lru[i].key = k
      PROVE  \E j \in 1..Len(lru) : lru[j].key = k /\ Store!Find(k) = lru[j]
  <2> DEFINE c == CHOOSE j \in DOMAIN lru : lru[j].key = k
  <2>1. c \in 1..Len(lru) /\ lru[c].key = k
    BY <1>1, <1>3
  <2>2. Store!Find(k) = lru[c]
    BY DEF Store!Find
  <2> QED
    BY <2>1, <2>2
<1> QED
  BY <1>2, <1>3

\* The keys that are left when k was used or is gone.
LEMMA UnusedFacts ==
    ASSUME StoreInv, NEW k \in StoreKeys
    PROVE  /\ Store!Unused(k) \in Seq(StoreKeys) /\ IsInjective(Store!Unused(k))
           /\ k \notin ToSet(Store!Unused(k))
<1>1. Store!Unused(k) = Keep(recent, StoreKeys \ {k})
  BY StoreOperators DEF Store!Unused
<1> QED
  BY <1>1, KeepFacts DEF StoreInv

\* The entries that are left without that of k are still those of the keys that are left.
LEMMA WithoutFacts ==
    ASSUME StoreInv, NEW k \in StoreKeys
    PROVE  LET w == Store!Without(lru, k) IN
           /\ w \in Seq(Entry) /\ Matches(w, Store!Unused(k), written)
           /\ Len(w) = IF Store!Has(lru, k) THEN Len(lru) - 1 ELSE Len(lru)
<1> DEFINE T == {e \in ToSet(lru) : e.key # k}
           U == StoreKeys \ {k}
           w == Store!Without(lru, k)
           u == Store!Unused(k)
<1>1. w = Keep(lru, T) /\ u = Keep(recent, U)
  BY StoreOperators DEF Store!Without, Store!Unused
<1>2. /\ lru \in Seq(Entry) /\ recent \in Seq(StoreKeys) /\ Len(lru) \in Nat /\ Len(recent) \in Nat
      /\ DOMAIN lru = 1..Len(lru) /\ DOMAIN recent = 1..Len(recent)
      /\ Matches(lru, recent, written) /\ Len(lru) <= Len(recent)
  BY LenProperties DEF StoreInv, Matches
<1>3. \A i, j \in 1..Len(recent) : recent[i] = recent[j] => i = j
  BY <1>2 DEF StoreInv, IsInjective
<1>4. \A i \in 1..Len(recent) : recent[i] \in U <=> recent[i] # k
  BY <1>2, ElementOfSeq
<1>5. \A i \in 1..Len(lru) : lru[i] \in T <=> lru[i].key # k
  BY <1>2 DEF ToSet
<1> HIDE DEF T, U, w, u
<1>6. CASE \A i \in 1..Len(recent) : recent[i] # k
  <2>1. u = recent
    <3>1. ToSet(recent) \subseteq U
      BY <1>2, <1>4, <1>6 DEF ToSet
    <3> QED
      BY <1>1, <1>2, <3>1, KeepAll
  <2>2. \A i \in 1..Len(lru) : lru[i].key # k
    BY <1>2, <1>6 DEF Matches
  <2>3. w = lru
    <3>1. ToSet(lru) \subseteq T
      BY <1>2, <1>5, <2>2 DEF ToSet
    <3> QED
      BY <1>1, <1>2, <3>1, KeepAll
  <2>4. ~Store!Has(lru, k)
    BY <2>2, HasFacts
  <2> QED
    BY <1>2, <2>1, <2>3, <2>4 DEF w, u
<1>7. CASE \E n \in 1..Len(recent) : recent[n] = k
  <2> PICK n \in 1..Len(recent) : recent[n] = k
    BY <1>7
  <2>1. \A j \in 1..Len(recent) : j # n => recent[j] \in U
    BY <1>3, <1>4
  <2>2. recent[n] \notin U
    BY <1>4
  <2>3. /\ u \in Seq(StoreKeys) /\ Len(u) = Len(recent) - 1
        /\ \A j \in 1..(Len(recent) - 1) : u[j] = IF j < n THEN recent[j] ELSE recent[j + 1]
    BY <1>1, <1>2, <2>1, <2>2, KeepAllBut
  <2>4. CASE n \in 1..Len(lru)
    <3>1. \A i \in 1..Len(lru) : lru[i].key = k <=> i = n
      BY <1>2, <1>3 DEF Matches
    <3>2. /\ w \in Seq(Entry) /\ Len(w) = Len(lru) - 1
          /\ \A j \in 1..(Len(lru) - 1) : w[j] = IF j < n THEN lru[j] ELSE lru[j + 1]
      <4>1. lru[n] \notin T /\ \A j \in 1..Len(lru) : j # n => lru[j] \in T
        BY <1>5, <2>4, <3>1
      <4>2. /\ Keep(lru, T) \in Seq(Entry) /\ Len(Keep(lru, T)) = Len(lru) - 1
            /\ \A j \in 1..(Len(lru) - 1) : Keep(lru, T)[j] = IF j < n THEN lru[j] ELSE lru[j + 1]
        BY <1>2, <2>4, <4>1, KeepAllBut
      <4> QED
        BY <1>1, <4>2
    <3>3. Store!Has(lru, k)
      BY <2>4, <3>1, HasFacts
    <3>4. ASSUME NEW j \in 1..(Len(lru) - 1)
          PROVE  \E i \in 1..Len(lru) : w[j] = lru[i] /\ u[j] = recent[i]
      <4>1. j \in 1..(Len(recent) - 1) /\ j \in 1..Len(lru) /\ j + 1 \in 1..Len(lru)
        BY <1>2
      <4> QED
        BY <2>3, <3>2, <4>1
    <3>5. Matches(w, u, written)
      BY <1>2, <2>3, <3>2, <3>4 DEF Matches
    <3> QED
      BY <3>2, <3>3, <3>5 DEF w, u
  <2>5. CASE n \notin 1..Len(lru)
    <3>1. \A i \in 1..Len(lru) : lru[i].key # k
      BY <1>2, <1>3, <2>5 DEF Matches
    <3>2. w = lru
      <4>1. ToSet(lru) \subseteq T
        BY <1>2, <1>5, <3>1 DEF ToSet
      <4> QED
        BY <1>1, <1>2, <4>1, KeepAll
    <3>3. ~Store!Has(lru, k)
      BY <3>1, HasFacts
    <3>4. Len(lru) <= Len(u) /\ \A i \in 1..Len(lru) : u[i] = recent[i]
      <4>1. Len(lru) < n /\ n \in Nat /\ n <= Len(recent)
        BY <1>2, <2>5
      <4>2. Len(lru) <= Len(recent) - 1
        BY <1>2, <4>1
      <4>3. \A i \in 1..Len(lru) : i \in 1..(Len(recent) - 1) /\ i < n
        BY <1>2, <4>1
      <4> QED
        BY <2>3, <4>2, <4>3
    <3>5. Matches(w, u, written)
      BY <1>2, <3>2, <3>4 DEF Matches
    <3> QED
      BY <1>2, <3>2, <3>3, <3>5 DEF w, u
  <2> QED
    BY <2>4, <2>5
<1> QED
  BY <1>6, <1>7

\* An entry that matches goes to the front, and its key to the front of the keys.
LEMMA ToFront ==
    ASSUME NEW k \in StoreKeys, NEW e \in Entry, NEW rest \in Seq(Entry), NEW v,
           StoreInv, Matches(rest, Store!Unused(k), v),
           e.key = k, e.since = v[k].since, e.expires = v[k].since + v[k].ttl
    PROVE  LET l == <<e>> \o rest IN
           /\ l \in Seq(Entry) /\ Len(l) = Len(rest) + 1
           /\ Store!Used(k) \in Seq(StoreKeys) /\ IsInjective(Store!Used(k))
           /\ Matches(l, Store!Used(k), v)
<1> DEFINE l == <<e>> \o rest
           u == Store!Unused(k)
           r == <<k>> \o u
<1>1. Store!Used(k) = r
  BY DEF Store!Used
<1>2. u \in Seq(StoreKeys) /\ IsInjective(u) /\ k \notin ToSet(u) /\ Len(u) \in Nat
  BY UnusedFacts, LenProperties
<1>3. Len(rest) \in Nat /\ Len(rest) <= Len(u)
  BY LenProperties DEF Matches
<1>4. /\ <<e>> \in Seq(Entry) /\ Len(<<e>>) = 1 /\ <<e>>[1] = e
      /\ <<k>> \in Seq(StoreKeys) /\ Len(<<k>>) = 1 /\ <<k>>[1] = k
  OBVIOUS
<1> HIDE DEF u
<1>5. /\ l \in Seq(Entry) /\ Len(l) = Len(rest) + 1
      /\ \A i \in 1..(Len(rest) + 1) : l[i] = IF i = 1 THEN e ELSE rest[i - 1]
  BY <1>3, <1>4, ConcatProperties
<1>6. /\ r \in Seq(StoreKeys) /\ Len(r) = Len(u) + 1
      /\ \A i \in 1..(Len(u) + 1) : r[i] = IF i = 1 THEN k ELSE u[i - 1]
  BY <1>2, <1>4, ConcatProperties
<1>7. IsInjective(r)
  <2>1. IsInjective(<<k>>) /\ ToSet(<<k>>) = {k}
    BY DEF IsInjective, ToSet
  <2>2. ToSet(<<k>>) \cap ToSet(u) = {}
    BY <1>2, <2>1
  <2> DEFINE q == <<k>>
  <2>3. q \in Seq(StoreKeys) /\ u \in Seq(StoreKeys)
    BY <1>2, <1>4
  <2> HIDE DEF q
  <2>4. IsInjective(q \o u) <=> IsInjective(q) /\ IsInjective(u) /\ ToSet(q) \cap ToSet(u) = {}
    BY <2>3, Concatenation
  <2> QED
    BY <1>2, <2>1, <2>2, <2>4 DEF q
<1> HIDE DEF l, r
<1>8. Matches(l, r, v)
  <2>1. ASSUME NEW i \in 1..Len(l)
        PROVE  l[i].key = r[i] /\ l[i].since = v[r[i]].since /\ l[i].expires = v[r[i]].since + v[r[i]].ttl
    <3>1. i \in 1..(Len(rest) + 1) /\ i \in 1..(Len(u) + 1)
      BY <1>2, <1>3, <1>5
    <3>2. CASE i = 1
      BY <1>5, <1>6, <3>1, <3>2
    <3>3. CASE i # 1
      <4>1. i - 1 \in 1..Len(rest) /\ l[i] = rest[i - 1] /\ r[i] = u[i - 1]
        BY <1>3, <1>5, <1>6, <3>1, <3>3
      <4> QED
        BY <4>1 DEF Matches, u
    <3> QED
      BY <3>2, <3>3
  <2> QED
    BY <1>2, <1>3, <1>5, <1>6, <2>1 DEF Matches
<1> QED
  BY <1>1, <1>5, <1>6, <1>7, <1>8 DEF l

\* A hit moves its entry to the front.
LEMMA HitStep ==
    ASSUME StoreInv, NEW k \in StoreKeys, Store!Hit(k)
    PROVE  StoreInv'
<1>1. /\ Store!Has(lru, k) /\ lru' = <<Store!Find(k)>> \o Store!Without(lru, k)
      /\ recent' = Store!Used(k) /\ time' = time /\ written' = written
  BY DEF Store!Hit
<1>2. PICK i \in 1..Len(lru) : lru[i].key = k /\ Store!Find(k) = lru[i]
  BY <1>1, HasFacts
<1>3. /\ lru[i] \in Entry /\ lru[i].since = written[k].since
      /\ lru[i].expires = written[k].since + written[k].ttl
  BY <1>2, ElementOfSeq DEF StoreInv, Matches
<1>4. /\ Store!Without(lru, k) \in Seq(Entry) /\ Len(Store!Without(lru, k)) = Len(lru) - 1
      /\ Matches(Store!Without(lru, k), Store!Unused(k), written)
  BY <1>1, WithoutFacts
<1>5. /\ lru' \in Seq(Entry) /\ Len(lru') = Len(lru) - 1 + 1
      /\ Store!Used(k) \in Seq(StoreKeys) /\ IsInjective(Store!Used(k))
      /\ Matches(lru', Store!Used(k), written)
  BY <1>1, <1>2, <1>3, <1>4, ToFront
<1>6. Len(lru') <= MaxSize
  BY <1>5, LenProperties DEF StoreInv
<1> QED
  BY <1>1, <1>5, <1>6 DEF StoreInv

\* An entry that has expired goes, and its key with it.
LEMMA ExpireStep ==
    ASSUME StoreInv, NEW k \in StoreKeys, Store!Expire(k)
    PROVE  StoreInv'
<1>1. /\ Store!Has(lru, k) /\ lru' = Store!Without(lru, k)
      /\ recent' = Store!Unused(k) /\ time' = time /\ written' = written
  BY DEF Store!Expire
<1>2. Len(lru') <= MaxSize
  BY <1>1, WithoutFacts, LenProperties, StoreAssumption DEF StoreInv
<1> QED
  BY <1>1, <1>2, WithoutFacts, UnusedFacts DEF StoreInv

\* A new entry goes to the front; in a full store the last one goes.
LEMMA SetStep ==
    ASSUME StoreInv, NEW k \in StoreKeys, NEW ttl \in TTLs, Store!SetEntry(k, ttl)
    PROVE  StoreInv'
<1> DEFINE full == ~(Store!Has(lru, k) \/ Len(lru) < MaxSize)
           w    == Store!Without(lru, k)
           rest == IF full THEN Store!Front(lru) ELSE w
           e    == [key |-> k, since |-> time, expires |-> time + ttl]
           v    == [written EXCEPT ![k] = [since |-> time, ttl |-> ttl]]
<1>1. lru' = <<e>> \o rest /\ recent' = Store!Used(k) /\ written' = v /\ time' = time
  BY DEF Store!SetEntry
<1>2. /\ e \in Entry /\ e.key = k /\ e.since = v[k].since /\ e.expires = v[k].since + v[k].ttl
      /\ DOMAIN v = StoreKeys
  BY StoreAssumption DEF StoreInv, Entry
<1>3. /\ w \in Seq(Entry) /\ Matches(w, Store!Unused(k), written)
      /\ Len(w) = IF Store!Has(lru, k) THEN Len(lru) - 1 ELSE Len(lru)
  BY WithoutFacts
<1>4. Len(lru) \in Nat /\ Len(lru) <= MaxSize /\ lru \in Seq(Entry) /\ MaxSize \in Nat \ {0}
  BY LenProperties, StoreAssumption DEF StoreInv
<1> HIDE DEF w, v
<1>5. rest \in Seq(Entry) /\ Len(rest) < MaxSize /\ Matches(rest, Store!Unused(k), written)
  <2>1. CASE ~full
    <3>1. Len(w) < MaxSize
      BY <1>3, <1>4, <2>1
    <3> QED
      BY <1>3, <2>1, <3>1
  <2>2. CASE full
    <3>1. w = lru
      <4>1. /\ ~Store!Has(lru, k) /\ \A i \in 1..Len(lru) : lru[i].key # k
        BY <2>2, HasFacts
      <4> DEFINE T == {x \in ToSet(lru) : x.key # k}
      <4>2. ToSet(lru) \subseteq T
        BY <1>4, <4>1, LenProperties DEF ToSet
      <4>3. w = Keep(lru, T)
        BY StoreOperators DEF w, Store!Without
      <4> HIDE DEF T
      <4>4. Keep(lru, T) = lru
        BY <1>4, <4>2, KeepAll
      <4> QED
        BY <4>3, <4>4
    <3>2. rest = SubSeq(lru, 1, Len(lru) - 1)
      BY <2>2, StoreOperators
    <3>3. /\ rest \in Seq(Entry) /\ Len(rest) = Len(lru) - 1
          /\ \A i \in 1..(Len(lru) - 1) : rest[i] = lru[i]
      <4>1. Len(lru) - 1 \in 0..Len(lru)
        BY <1>4, <2>2
      <4> HIDE DEF rest
      <4>2. /\ SubSeq(lru, 1, Len(lru) - 1) \in Seq(Entry)
            /\ Len(SubSeq(lru, 1, Len(lru) - 1)) = Len(lru) - 1
            /\ \A i \in 1..(Len(lru) - 1) : SubSeq(lru, 1, Len(lru) - 1)[i] = lru[i]
        BY <1>4, <4>1, PrefixFacts
      <4> QED
        BY <3>2, <4>2
    <3>4. Matches(lru, Store!Unused(k), written)
      BY <1>3, <3>1
    <3> HIDE DEF rest
    <3>5. Len(rest) <= Len(Store!Unused(k))
      BY <1>4, <3>3, <3>4, UnusedFacts, LenProperties DEF Matches
    <3>6. Matches(rest, Store!Unused(k), written)
      BY <1>4, <3>3, <3>4, <3>5 DEF Matches
    <3> QED
      BY <1>4, <3>3, <3>6
  <2> QED
    BY <2>1, <2>2
<1> HIDE DEF rest
<1>6. Matches(rest, Store!Unused(k), v)
  <2>1. \A i \in 1..Len(rest) : Store!Unused(k)[i] # k /\ Store!Unused(k)[i] \in StoreKeys
    <3>1. Len(rest) \in Nat /\ Len(rest) <= Len(Store!Unused(k)) /\ Len(Store!Unused(k)) \in Nat
      BY <1>5, UnusedFacts, LenProperties DEF Matches
    <3>2. \A i \in 1..Len(rest) : i \in 1..Len(Store!Unused(k))
      BY <3>1
    <3>3. DOMAIN Store!Unused(k) = 1..Len(Store!Unused(k))
      BY UnusedFacts, LenProperties
    <3> QED
      BY <3>2, <3>3, UnusedFacts, ElementOfSeq DEF ToSet
  <2>2. \A j \in StoreKeys : j # k => v[j] = written[j]
    BY DEF v, StoreInv
  <2> QED
    BY <1>5, <2>1, <2>2 DEF Matches
<1> HIDE DEF e
<1>7. /\ <<e>> \o rest \in Seq(Entry) /\ Len(<<e>> \o rest) = Len(rest) + 1
      /\ Store!Used(k) \in Seq(StoreKeys) /\ IsInjective(Store!Used(k))
      /\ Matches(<<e>> \o rest, Store!Used(k), v)
  BY <1>2, <1>5, <1>6, ToFront
<1>8. Len(rest) + 1 <= MaxSize
  BY <1>4, <1>5, LenProperties
<1> QED
  BY <1>1, <1>2, <1>7, <1>8 DEF StoreInv

\* The invariant holds at first, and every step keeps it.
LEMMA StoreInductive == Store!Spec => []StoreInv
<1>1. Store!Init => StoreInv
  <2> SUFFICES ASSUME Store!Init PROVE StoreInv
    OBVIOUS
  <2>1. lru = <<>> /\ recent = <<>> /\ time = 0 /\ written = [k \in StoreKeys |-> Nothing]
    BY DEF Store!Init
  <2>2. /\ lru \in Seq(Entry) /\ Len(lru) = 0 /\ recent \in Seq(StoreKeys) /\ Len(recent) = 0
        /\ IsInjective(recent)
    BY <2>1, EmptySeq DEF IsInjective
  <2> QED
    BY <2>1, <2>2, StoreAssumption DEF StoreInv, Matches
<1>2. StoreInv /\ [Store!Next]_Store!storeVars => StoreInv'
  <2> SUFFICES ASSUME StoreInv, [Store!Next]_Store!storeVars PROVE StoreInv'
    OBVIOUS
  <2>1. CASE UNCHANGED Store!storeVars \/ \E k \in StoreKeys : Store!Miss(k)
    <3>1. UNCHANGED <<lru, time, recent, written>>
      BY <2>1 DEF Store!storeVars, Store!Miss
    <3> QED
      BY <3>1 DEF StoreInv
  <2>2. CASE Store!Clear
    <3>1. lru' = <<>> /\ recent' = <<>> /\ time' = time /\ written' = written
      BY <2>2 DEF Store!Clear
    <3>2. /\ lru' \in Seq(Entry) /\ Len(lru') = 0 /\ recent' \in Seq(StoreKeys) /\ Len(recent') = 0
          /\ IsInjective(recent')
      BY <3>1, EmptySeq DEF IsInjective
    <3> QED
      BY <3>1, <3>2, StoreAssumption DEF StoreInv, Matches
  <2>3. CASE Store!TickStore
    BY <2>3 DEF Store!TickStore, StoreInv
  <2> QED
    BY <2>1, <2>2, <2>3, HitStep, ExpireStep, SetStep DEF Store!Next
<1> QED
  BY <1>1, <1>2, PTL DEF Store!Spec

\* The store holds the keys used last, in their order and as they were set last, for every set of
\* keys, every size and every time to live (CacheStore::get, CacheStore::set).
THEOREM StoreKeepsRecent == Store!Spec => []RecentAreKept
<1>1. StoreInv => RecentAreKept
  <2> SUFFICES ASSUME StoreInv PROVE Store!RecentAreKept
    BY DEF RecentAreKept
  <2>1. /\ Len(lru) \in Nat /\ DOMAIN lru = 1..Len(lru) /\ Len(recent) \in Nat
        /\ Len(lru) <= Len(recent) /\ Matches(lru, recent, written)
    BY LenProperties DEF StoreInv, Matches
  <2>2. /\ SubSeq(recent, 1, Len(lru)) \in Seq(StoreKeys) /\ Len(SubSeq(recent, 1, Len(lru))) = Len(lru)
        /\ \A i \in 1..Len(lru) : SubSeq(recent, 1, Len(lru))[i] = recent[i]
    BY <2>1, PrefixFacts DEF StoreInv
  <2>3. Store!KeysIn(lru) = [i \in 1..Len(lru) |-> recent[i]]
    BY <2>1 DEF Store!KeysIn, Matches
  <2> DEFINE p == SubSeq(recent, 1, Len(lru))
  <2> HIDE DEF p
  <2>4. p = [i \in 1..Len(lru) |-> p[i]]
    BY <2>2, LenProperties DEF p
  <2>5. Store!KeysIn(lru) = p
    BY <2>2, <2>3, <2>4 DEF p
  <2> QED
    BY <2>1, <2>5 DEF p, StoreInv, Matches, Store!RecentAreKept
<1> QED
  BY <1>1, StoreInductive, PTL

(***************************************************************************)
(* LuaPipeline.                                                            *)
(***************************************************************************)

Plugin  == [name : Lua!Names, hooks : SUBSET Lua!Hooks]
Results == {"continue", "abort", "fail", "text", "nil", "other"}
HookRun    == [name : Lua!Names, result : Results, stopped : BOOLEAN, changed : BOOLEAN, answered : BOOLEAN]
Pipe    == [hook : Lua!Hooks, next : Nat, done : BOOLEAN, passed : BOOLEAN,
            answer : Lua!Names \cup {None}, data : Seq(Lua!Names)]

\* What counts of the hooks that ran, as ChainOfHooks reads it
Counts(s) == {r \in ToSet(s) : r.changed /\ r.result # "fail"}
Made(s)   == Keep(s, Counts(s))
NamesOf(s) == [i \in 1..Len(s) |-> s[i].name]

\* Verdict, and what makes it last: a pipeline ends with the hook that aborts.
Judged ==
    /\ \A i \in 1..Len(ran) : ran[i].result = "abort" => i = Len(ran) /\ ~pipe.passed /\ pipe.done
    /\ ~pipe.passed => \E i \in 1..Len(ran) : ran[i].result = "abort" \/ ran[i].answered
    /\ \A i \in 1..Len(ran) :
        ran[i].answered /\ (\A j \in (i + 1)..Len(ran) : ~ran[j].answered)
            => pipe.answer = ran[i].name

\* A pipeline that has begun
Begun ==
    /\ pipe \in Pipe
    /\ ~pipe.done => pipe.next \in 1..Len(Lua!Due(pipe.hook))
    /\ pipe.data = NamesOf(Made(ran))
    /\ pipe.hook = "on_request" => Judged

Pool ==
    /\ available \in Seq(Lua!VMs) /\ IsInjective(available)
    /\ vm \in Lua!VMs \cup {None} /\ ToSet(available) = Lua!VMs \ {vm}
    /\ executed \in [Lua!VMs -> 0..(Limit - 1)] /\ stack \in [Lua!VMs -> Nat]
    /\ globals \in [Lua!VMs -> SUBSET Lua!Globals] /\ alien \subseteq BOOLEAN /\ runs \in 0..MaxRuns

\* NoAlienGlobals looks back at what scripts have found; that the VM in use holds nothing of
\* another pipeline but what a reset keeps is what makes it last.
OwnGlobals == vm # None => runs \in 1..MaxRuns /\ \A g \in globals[vm] : g.kept \/ g.run = runs

PipeInv ==
    /\ Pool /\ ran \in Seq(HookRun)
    /\ pipe = None \/ Begun
    /\ vm # None => Begun
    /\ OwnGlobals /\ FALSE \notin alien

\* The operators of the libraries, as LuaPipeline has them.
LEMMA PipeOperators ==
    /\ \A s, T : Lua!Keep(s, T) = Keep(s, T)
    /\ \A s : Lua!ToSet(s) = ToSet(s)
    /\ \A s : Lua!IsInjective(s) <=> IsInjective(s)
<1>1. ASSUME NEW s, NEW T PROVE Lua!Keep(s, T) = Keep(s, T)
  BY DEF Lua!Keep, Keep
<1>2. ASSUME NEW s PROVE Lua!ToSet(s) = ToSet(s)
  BY DEF Lua!ToSet, ToSet
<1>3. ASSUME NEW s PROVE Lua!IsInjective(s) <=> IsInjective(s)
  BY DEF Lua!IsInjective, IsInjective
<1> QED
  BY <1>1, <1>2, <1>3

\* The plugins of a hook are plugins.
LEMMA DueFacts ==
    ASSUME NEW hook
    PROVE  /\ Lua!Due(hook) \in Seq(Plugin) /\ Len(Lua!Due(hook)) \in Nat
           /\ \A i \in 1..Len(Lua!Due(hook)) : Lua!Due(hook)[i].name \in Lua!Names
           /\ Lua!Due(hook) # <<>> => Len(Lua!Due(hook)) >= 1
<1>1. Plugins \in Seq(Plugin)
  BY PipelineAssumption DEF Plugin
<1>2. Lua!Due(hook) = Keep(Plugins, {p \in ToSet(Plugins) : hook \in p.hooks})
  BY PipeOperators DEF Lua!Due
<1>3. Lua!Due(hook) \in Seq(Plugin)
  BY <1>1, <1>2, KeepFacts
<1>4. ASSUME NEW i \in 1..Len(Lua!Due(hook)) PROVE Lua!Due(hook)[i].name \in Lua!Names
  <2>1. Lua!Due(hook)[i] \in Plugin
    BY <1>3, ElementOfSeq
  <2> QED
    BY <2>1 DEF Plugin
<1>5. Lua!Due(hook) # <<>> => Len(Lua!Due(hook)) \in Nat \ {0}
  BY <1>3, EmptySeq
<1> QED
  BY <1>3, <1>4, <1>5, LenProperties

\* What counts is a part of the hooks that ran.
LEMMA MadeFacts ==
    ASSUME NEW s \in Seq(HookRun)
    PROVE  /\ Made(s) \in Seq(HookRun) /\ Len(Made(s)) \in Nat
           /\ NamesOf(Made(s)) \in Seq(Lua!Names) /\ Len(NamesOf(Made(s))) = Len(Made(s))
<1>1. Made(s) \in Seq(HookRun)
  BY KeepFacts DEF Made
<1>2. Len(Made(s)) \in Nat
  BY <1>1, LenProperties
<1>3. \A i \in 1..Len(Made(s)) : Made(s)[i].name \in Lua!Names
  <2>1. \A i \in 1..Len(Made(s)) : Made(s)[i] \in HookRun
    BY <1>1, ElementOfSeq
  <2> QED
    BY <2>1 DEF HookRun
<1>4. NamesOf(Made(s)) \in [1..Len(Made(s)) -> Lua!Names]
  BY <1>3 DEF NamesOf
<1> QED
  BY <1>1, <1>2, <1>4, FunctionIsSeq

\* One more hook counts or does not.
LEMMA MadeAppend ==
    ASSUME NEW s \in Seq(HookRun), NEW r \in HookRun
    PROVE  NamesOf(Made(Append(s, r))) =
               IF r.changed /\ r.result # "fail" THEN Append(NamesOf(Made(s)), r.name)
               ELSE NamesOf(Made(s))
<1> DEFINE a == Append(s, r)
           m == Made(s)
<1>1. a \in Seq(HookRun) /\ ToSet(a) = ToSet(s) \cup {r}
  BY AppendAt, ToSetAppend
<1>2. r \in Counts(a) <=> r.changed /\ r.result # "fail"
  BY <1>1 DEF Counts
<1>3. Keep(s, Counts(a)) = Keep(s, Counts(s))
  <2>1. \A x \in ToSet(s) : x \in Counts(a) <=> x \in Counts(s)
    BY <1>1 DEF Counts
  <2> QED
    BY <2>1, KeepSame
<1>4. Made(a) = IF r.changed /\ r.result # "fail" THEN Append(m, r) ELSE m
  BY <1>2, <1>3, KeepAppend DEF Made
<1>5. m \in Seq(HookRun) /\ Len(m) \in Nat /\ NamesOf(m) \in Seq(Lua!Names) /\ Len(NamesOf(m)) = Len(m)
  BY MadeFacts
<1>6. r.name \in Lua!Names
  BY DEF HookRun
<1> HIDE DEF m
<1>7. NamesOf(Append(m, r)) = Append(NamesOf(m), r.name)
  <2> DEFINE f == NamesOf(Append(m, r))
             g == Append(NamesOf(m), r.name)
  <2>1. /\ Append(m, r) \in Seq(HookRun) /\ Len(Append(m, r)) = Len(m) + 1
        /\ \A i \in 1..Len(m) : Append(m, r)[i] = m[i]
        /\ Append(m, r)[Len(m) + 1] = r
    BY <1>5, AppendAt
  <2>2. /\ g \in Seq(Lua!Names) /\ Len(g) = Len(m) + 1
        /\ \A i \in 1..Len(m) : g[i] = NamesOf(m)[i]
        /\ g[Len(m) + 1] = r.name
    BY <1>5, <1>6, AppendAt
  <2>3. f = [i \in 1..(Len(m) + 1) |-> Append(m, r)[i].name]
    BY <2>1 DEF NamesOf
  <2>4. \A i \in 1..Len(m) : NamesOf(m)[i] = m[i].name
    BY DEF NamesOf
  <2>5. \A i \in 1..(Len(m) + 1) : i \in 1..Len(m) \/ i = Len(m) + 1
    BY <1>5
  <2> HIDE DEF g
  <2>6. \A i \in 1..(Len(m) + 1) : Append(m, r)[i].name = g[i]
    BY <2>1, <2>2, <2>4, <2>5
  <2>7. g = [i \in 1..(Len(m) + 1) |-> g[i]]
    BY <2>2, LenProperties
  <2> QED
    BY <2>3, <2>6, <2>7 DEF g
<1> QED
  BY <1>4, <1>7 DEF m

-----------------------------------------------------------------------------
(* The steps.                                                              *)

\* A pipeline begins with nothing done, in a VM that has of the others what a reset keeps.
LEMMA BeginStep ==
    ASSUME PipeInv, NEW hook \in Lua!Hooks, Lua!Begin(hook)
    PROVE  PipeInv'
<1>1. /\ vm = None /\ vm' = Head(available) /\ available' = Tail(available)
      /\ globals' = [globals EXCEPT ![vm'] = Lua!Reset(vm')] /\ stack' = [stack EXCEPT ![vm'] = @ + 1]
      /\ runs < MaxRuns /\ runs' = runs + 1
      /\ pipe' = [hook |-> hook, next |-> 1, done |-> Lua!Due(hook) = <<>>,
                  passed |-> TRUE, answer |-> None, data |-> <<>>]
      /\ ran' = <<>> /\ executed' = executed /\ alien' = alien
  BY DEF Lua!Begin
<1>2. /\ Pool /\ ToSet(available) = Lua!VMs /\ Lua!VMs = 1..PoolSize /\ 1 \in Lua!VMs
      /\ None \notin Lua!VMs
  <2>1. Lua!VMs = 1..PoolSize /\ 1 \in 1..PoolSize /\ None \notin 1..PoolSize
    BY PipelineAssumption DEF Lua!VMs
  <2> QED
    BY <1>1, <2>1 DEF PipeInv, Pool
<1>3. available \in Seq(Lua!VMs) /\ available # <<>> /\ IsInjective(available)
  <2>1. ToSet(<<>>) = {}
    BY DEF ToSet
  <2> QED
    BY <1>2, <2>1 DEF Pool
<1>4. /\ available' \in Seq(Lua!VMs) /\ IsInjective(available') /\ vm' \in Lua!VMs
      /\ ToSet(available') = Lua!VMs \ {vm'}
  <2>1. Head(available) \in Lua!VMs /\ Tail(available) \in Seq(Lua!VMs)
    BY <1>3, HeadTailProperties
  <2>2. IsInjective(Tail(available)) /\ Head(available) \notin ToSet(Tail(available))
    BY <1>3, InjectiveTail
  <2>3. ToSet(available) = {Head(available)} \cup ToSet(Tail(available))
    BY <1>3, ToSetTail
  <2> QED
    BY <1>1, <1>2, <2>1, <2>2, <2>3
<1>5. Pool' /\ OwnGlobals'
  <2>1. runs' \in 1..MaxRuns /\ runs' \in 0..MaxRuns
    BY <1>1, <1>2, PipelineAssumption DEF Pool
  <2>2. globals' \in [Lua!VMs -> SUBSET Lua!Globals] /\ globals'[vm'] = {g \in globals[vm'] : g.kept}
    BY <1>1, <1>2, <1>4 DEF Pool, Lua!Reset
  <2> QED
    BY <1>1, <1>2, <1>4, <2>1, <2>2 DEF Pool, OwnGlobals
<1>6. ran' \in Seq(HookRun) /\ Len(ran') = 0
  BY <1>1, EmptySeq
<1>7. Made(ran') = <<>>
  <2>1. ToSet(ran') = {}
    BY <1>1 DEF ToSet
  <2> QED
    BY <1>1, <1>6, <2>1, KeepAll DEF Made
<1>8. pipe'.data = NamesOf(Made(ran'))
  <2>1. NamesOf(Made(ran')) \in Seq(Lua!Names) /\ Len(NamesOf(Made(ran'))) = 0
    BY <1>1, <1>6, <1>7, MadeFacts
  <2> QED
    BY <1>1, <2>1, EmptySeq
<1>9. pipe' \in Pipe
  BY <1>1, EmptySeq DEF Pipe
<1>10. ~pipe'.done => pipe'.next \in 1..Len(Lua!Due(pipe'.hook))
  <2>1. pipe'.hook = hook /\ pipe'.next = 1 /\ (pipe'.done <=> Lua!Due(hook) = <<>>)
    BY <1>1
  <2>2. Lua!Due(hook) # <<>> => 1 \in 1..Len(Lua!Due(hook))
    BY DueFacts
  <2> QED
    BY <2>1, <2>2
<1>11. Judged'
  BY <1>1, <1>6 DEF Judged
<1>12. \A h : Lua!Due(h)' = Lua!Due(h)
  BY DEF Lua!Due
<1>13. Begun'
  BY <1>8, <1>9, <1>10, <1>11, <1>12 DEF Begun
<1> QED
  BY <1>1, <1>5, <1>6, <1>13 DEF PipeInv

\* The plugin that is next has a name.
LEMMA CurrentFacts ==
    ASSUME PipeInv, NEW hook \in Lua!Hooks, Lua!Running(hook)
    PROVE  /\ Begun /\ vm \in Lua!VMs /\ ~pipe.done /\ pipe.hook = hook
           /\ Lua!Current.name \in Lua!Names
  BY DueFacts DEF PipeInv, Pool, Begun, Lua!Running, Lua!Current

\* What a hook may do to the pipeline
Does(new, result, name) ==
    /\ new \in Pipe /\ new.hook = pipe.hook /\ new.next = pipe.next
    /\ new.data = pipe.data \/ (new.data = Append(pipe.data, name) /\ result # "fail")
    /\ pipe.hook = "on_request" =>
        /\ result = "abort" => new.done /\ ~new.passed
        /\ ~new.passed => ~pipe.passed \/ result = "abort" \/ new.answer = name
        /\ new.answer \in {pipe.answer, name}

\* Every hook keeps the invariant.
LEMMA RunStep ==
    ASSUME PipeInv, NEW hook \in Lua!Hooks, Lua!Running(hook),
           NEW c \in Costs, NEW result \in Results, NEW left \in Nat, NEW new,
           Does(new, result, Lua!Current.name), Lua!Run(c, result, left, new)
    PROVE  PipeInv'
<1> DEFINE name == Lua!Current.name
           n    == Len(ran)
           r    == [name |-> name, result |-> result, stopped |-> Lua!Stopped(c),
                    changed |-> new.data # pipe.data, answered |-> new.answer = name]
<1>1. Begun /\ vm \in Lua!VMs /\ ~pipe.done /\ pipe.hook = hook /\ name \in Lua!Names
  BY CurrentFacts
<1>2. /\ executed' = [executed EXCEPT ![vm] = IF @ + c >= Limit THEN 0 ELSE @ + c]
      /\ stack' = [stack EXCEPT ![vm] = @ + left]
      /\ \E edits \in BOOLEAN :
            globals' = [globals EXCEPT ![vm] = @ \cup [run : {runs}, kept : {FALSE, edits}]]
      /\ alien' = alien \cup {g.kept : g \in {h \in globals[vm] : h.run # runs}}
      /\ ran' = Append(ran, r)
      /\ pipe' = [new EXCEPT !.next = @ + 1, !.done = @ \/ pipe.next = Len(Lua!Due(pipe.hook))]
      /\ available' = available /\ vm' = vm /\ runs' = runs
  BY DEF Lua!Run
<1>3. /\ Pool /\ pipe \in Pipe /\ ran \in Seq(HookRun) /\ n \in Nat /\ DOMAIN ran = 1..n
      /\ vm # None
  BY <1>1, LenProperties, PipelineAssumption DEF PipeInv, Begun, Lua!VMs
<1>4. r \in HookRun
  <2>1. Lua!Stopped(c) \in BOOLEAN
    BY DEF Lua!Stopped
  <2> QED
    BY <1>1, <2>1 DEF HookRun
<1>5. /\ r.name = name /\ r.result = result /\ (r.changed <=> new.data # pipe.data)
      /\ (r.answered <=> new.answer = name)
  OBVIOUS
<1> HIDE DEF r, name
<1>6. /\ ran' \in Seq(HookRun) /\ Len(ran') = n + 1 /\ ran'[n + 1] = r
      /\ \A i \in 1..n : ran'[i] = ran[i]
  BY <1>2, <1>3, <1>4, AppendAt
<1>7. \A i : i \in 1..(n + 1) <=> i \in 1..n \/ i = n + 1
  BY <1>3
<1>8. PICK edits \in BOOLEAN :
            /\ globals' = [globals EXCEPT ![vm] = @ \cup [run : {runs}, kept : {FALSE, edits}]]
            /\ [run : {runs}, kept : {FALSE, edits}] \subseteq Lua!Globals
            /\ \A g \in [run : {runs}, kept : {FALSE, edits}] : g.run = runs
  <2>1. runs \in 1..MaxRuns
    BY <1>3 DEF PipeInv, OwnGlobals
  <2> QED
    BY <1>2, <2>1 DEF Lua!Globals
<1>9. OwnGlobals'
  <2>1. globals'[vm'] = globals[vm] \cup [run : {runs}, kept : {FALSE, edits}]
    BY <1>1, <1>2, <1>3, <1>8 DEF Pool
  <2> QED
    BY <1>2, <1>3, <1>8, <2>1 DEF PipeInv, OwnGlobals
<1>10. alien' \subseteq BOOLEAN /\ FALSE \notin alien'
  <2>1. \A g \in globals[vm] : g.kept \in BOOLEAN
    BY <1>1, <1>3 DEF Pool, Lua!Globals
  <2>2. \A g \in globals[vm] : g.run # runs => g.kept
    BY <1>3 DEF PipeInv, OwnGlobals
  <2> QED
    BY <1>2, <1>3, <2>1, <2>2 DEF PipeInv, Pool
<1>11. Pool'
  <2>1. executed' \in [Lua!VMs -> 0..(Limit - 1)]
    <3>1. executed[vm] \in 0..(Limit - 1) /\ c \in 0..(Limit - 1) /\ Limit \in Nat \ {0}
      BY <1>1, <1>3, PipelineAssumption DEF Pool
    <3>2. (IF executed[vm] + c >= Limit THEN 0 ELSE executed[vm] + c) \in 0..(Limit - 1)
      BY <3>1
    <3> QED
      BY <1>2, <1>3, <3>2 DEF Pool
  <2>2. stack' \in [Lua!VMs -> Nat]
    BY <1>1, <1>2, <1>3 DEF Pool
  <2>3. globals' \in [Lua!VMs -> SUBSET Lua!Globals]
    BY <1>1, <1>2, <1>3, <1>8 DEF Pool
  <2> QED
    BY <1>2, <1>3, <1>10, <2>1, <2>2, <2>3 DEF Pool
<1>12. /\ new \in Pipe /\ new.hook = pipe.hook /\ new.next = pipe.next
       /\ new.data = pipe.data \/ (new.data = Append(pipe.data, name) /\ result # "fail")
  BY DEF Does, name
<1>13. /\ pipe' \in Pipe /\ pipe'.hook = pipe.hook /\ pipe'.next = pipe.next + 1
       /\ pipe'.data = new.data /\ pipe'.answer = new.answer /\ pipe'.passed = new.passed
       /\ (pipe'.done <=> new.done \/ pipe.next = Len(Lua!Due(pipe.hook)))
  <2>1. pipe.next + 1 \in Nat
    BY <1>3 DEF Pipe
  <2> QED
    BY <1>2, <1>12, <2>1 DEF Pipe
<1>14. \A h : Lua!Due(h)' = Lua!Due(h)
  BY DEF Lua!Due
<1>15. ~pipe'.done => pipe'.next \in 1..Len(Lua!Due(pipe'.hook))
  <2>1. pipe.next \in 1..Len(Lua!Due(pipe.hook)) /\ Len(Lua!Due(pipe.hook)) \in Nat
    BY <1>1, DueFacts DEF Begun
  <2> QED
    BY <1>13, <2>1
<1>16. pipe'.data = NamesOf(Made(ran'))
  <2>1. pipe.data \in Seq(Lua!Names) /\ pipe.data = NamesOf(Made(ran))
    BY <1>1 DEF Begun, Pipe
  <2>2. Append(pipe.data, name) # pipe.data
    <3>1. Len(Append(pipe.data, name)) = Len(pipe.data) + 1 /\ Len(pipe.data) \in Nat
      BY <1>1, <2>1, AppendAt, LenProperties DEF name
    <3> QED
      BY <3>1
  <2>3. NamesOf(Made(ran')) = IF r.changed /\ r.result # "fail" THEN Append(pipe.data, name) ELSE pipe.data
    BY <1>2, <1>3, <1>4, <1>5, <2>1, MadeAppend
  <2> QED
    BY <1>5, <1>12, <1>13, <2>2, <2>3
<1>17. ASSUME pipe'.hook = "on_request" PROVE Judged'
  <2>1. /\ Judged
        /\ result = "abort" => new.done /\ ~new.passed
        /\ ~new.passed => ~pipe.passed \/ result = "abort" \/ new.answer = name
        /\ new.answer \in {pipe.answer, name}
    BY <1>1, <1>13, <1>17 DEF Begun, Does, name
  <2>2. \A i \in 1..n : ran[i].result # "abort"
    BY <1>1, <2>1 DEF Judged
  <2>3. ASSUME NEW i \in 1..(n + 1), ran'[i].result = "abort"
        PROVE  i = n + 1 /\ ~pipe'.passed /\ pipe'.done
    BY <1>5, <1>6, <1>7, <1>13, <2>1, <2>2, <2>3
  <2>4. ASSUME ~pipe'.passed
        PROVE  \E i \in 1..(n + 1) : ran'[i].result = "abort" \/ ran'[i].answered
    <3>1. CASE ~pipe.passed
      BY <1>6, <1>7, <2>1, <3>1 DEF Judged
    <3>2. CASE pipe.passed
      BY <1>5, <1>6, <1>7, <1>13, <2>1, <2>4, <3>2
    <3> QED
      BY <3>1, <3>2
  <2>5. ASSUME NEW i \in 1..(n + 1), ran'[i].answered,
               \A j \in (i + 1)..(n + 1) : ~ran'[j].answered
        PROVE  pipe'.answer = ran'[i].name
    <3>1. CASE i = n + 1
      BY <1>5, <1>6, <1>13, <2>5, <3>1
    <3>2. CASE i # n + 1
      <4>1. i \in 1..n /\ n + 1 \in (i + 1)..(n + 1) /\ \A j \in (i + 1)..n : j \in (i + 1)..(n + 1) /\ j \in 1..n
        BY <1>3, <1>7, <3>2
      <4>2. ~r.answered /\ ran[i].answered /\ \A j \in (i + 1)..n : ~ran[j].answered
        BY <1>6, <2>5, <4>1
      <4>3. pipe.answer = ran[i].name
        BY <2>1, <4>1, <4>2 DEF Judged
      <4> QED
        BY <1>5, <1>6, <1>13, <2>1, <4>1, <4>2, <4>3
    <3> QED
      BY <3>1, <3>2
  <2> QED
    BY <1>6, <2>3, <2>4, <2>5 DEF Judged
<1>18. Begun'
  BY <1>13, <1>14, <1>15, <1>16, <1>17 DEF Begun
<1> QED
  BY <1>6, <1>11, <1>18, <1>9, <1>10 DEF PipeInv

\* The hook of a request
LEMMA RequestStep ==
    ASSUME PipeInv, NEW c \in Costs, NEW result \in {"continue", "abort", "fail"},
           NEW changed \in BOOLEAN, NEW answered \in BOOLEAN,
           Lua!RequestHook(c, result, changed, answered)
    PROVE  PipeInv'
<1> DEFINE name == Lua!Current.name
           new == [pipe EXCEPT !.data = Lua!Synced(result, changed),
                               !.answer = IF answered THEN name ELSE @,
                               !.passed = @ /\ ~answered /\ result # "abort",
                               !.done = Lua!Ends(result)]
<1>1. Lua!Running("on_request") /\ "on_request" \in Lua!Hooks /\ result \in Results
  BY DEF Lua!RequestHook, Lua!Hooks, Results
<1>2. PICK left \in {1, 2} : Lua!Run(c, result, left, new)
  BY DEF Lua!RequestHook
<1>3. pipe \in Pipe /\ name \in Lua!Names
  BY <1>1, CurrentFacts DEF Begun
<1>4. Lua!Synced(result, changed) = pipe.data
         \/ (Lua!Synced(result, changed) = Append(pipe.data, name) /\ result # "fail")
  BY DEF Lua!Synced
<1>5. Lua!Synced(result, changed) \in Seq(Lua!Names)
  BY <1>3, <1>4, AppendAt DEF Pipe
<1>6. Lua!Ends(result) <=> result = "abort"
  BY DEF Lua!Ends
<1> DEFINE data == Lua!Synced(result, changed)
           ends == result = "abort"
<1>7. Lua!Ends(result) = ends
  BY DEF Lua!Ends
<1>8. /\ new = [pipe EXCEPT !.data = data, !.answer = IF answered THEN name ELSE @,
                            !.passed = @ /\ ~answered /\ result # "abort", !.done = ends]
  BY <1>7
<1> HIDE DEF data, name, ends, new
<1>9. /\ new \in Pipe /\ new.hook = pipe.hook /\ new.next = pipe.next /\ new.data = data
      /\ new.answer = (IF answered THEN name ELSE pipe.answer)
      /\ (new.passed <=> pipe.passed /\ ~answered /\ result # "abort")
      /\ (new.done <=> ends)
  <2>1. data \in Seq(Lua!Names) /\ ends \in BOOLEAN
    BY <1>5 DEF data, ends
  <2> QED
    BY <1>3, <1>8, <2>1 DEF Pipe
<1>10. Does(new, result, Lua!Current.name)
  BY <1>4, <1>9 DEF Does, data, name, ends
<1> QED
  BY <1>1, <1>2, <1>10, RunStep

\* The hook of a token
LEMMA TokenStep ==
    ASSUME PipeInv, NEW c \in Costs, NEW result \in {"text", "nil", "other", "fail"},
           Lua!TokenHook(c, result)
    PROVE  PipeInv'
<1>1. Lua!Running("on_token") /\ "on_token" \in Lua!Hooks /\ result \in Results
  BY DEF Lua!TokenHook, Lua!Hooks, Results
<1>2. pipe \in Pipe /\ Lua!Current.name \in Lua!Names /\ pipe.hook = "on_token"
  BY <1>1, CurrentFacts DEF Begun
<1> DEFINE text == [pipe EXCEPT !.data = Lua!Synced(result, TRUE)]
           none == [pipe EXCEPT !.passed = FALSE, !.done = TRUE]
<1>3. Does(pipe, result, Lua!Current.name)
  BY <1>2 DEF Does
<1>4. Does(text, result, Lua!Current.name)
  <2>1. Lua!Synced(result, TRUE) = pipe.data
           \/ (Lua!Synced(result, TRUE) = Append(pipe.data, Lua!Current.name) /\ result # "fail")
    BY DEF Lua!Synced
  <2>2. Lua!Synced(result, TRUE) \in Seq(Lua!Names)
    <3>1. pipe.data \in Seq(Lua!Names)
      BY <1>2 DEF Pipe
    <3> QED
      BY <1>2, <2>1, <3>1, AppendAt
  <2>3. text \in Pipe /\ text.hook = pipe.hook /\ text.next = pipe.next /\ text.data = Lua!Synced(result, TRUE)
    BY <1>2, <2>2 DEF Pipe
  <2> HIDE DEF text
  <2> QED
    BY <1>2, <2>1, <2>3 DEF Does
<1>5. Does(none, result, Lua!Current.name)
  <2>1. none \in Pipe /\ none.hook = pipe.hook /\ none.next = pipe.next /\ none.data = pipe.data
    BY <1>2 DEF Pipe
  <2> HIDE DEF none
  <2> QED
    BY <1>2, <2>1 DEF Does
<1> HIDE DEF text, none
<1>6. CASE result \in {"fail", "other"}
  <2>1. \E left \in {1, 2} : Lua!Run(c, result, left, pipe)
    BY <1>6 DEF Lua!TokenHook
  <2> QED
    BY <1>1, <1>3, <2>1, RunStep
<1>7. CASE result = "text"
  <2>1. Lua!Run(c, result, 1, text)
    BY <1>7 DEF Lua!TokenHook, text
  <2> QED
    BY <1>1, <1>4, <2>1, RunStep
<1>8. CASE result = "nil"
  <2>1. Lua!Run(c, result, 2, none)
    BY <1>8 DEF Lua!TokenHook, none
  <2> QED
    BY <1>1, <1>5, <2>1, RunStep
<1> QED
  BY <1>6, <1>7, <1>8

\* The hook of the end
LEMMA DoneStep ==
    ASSUME PipeInv, NEW c \in Costs, NEW result \in {"text", "nil", "other", "fail"},
           Lua!DoneHook(c, result)
    PROVE  PipeInv'
<1>1. Lua!Running("on_done") /\ "on_done" \in Lua!Hooks /\ result \in Results
  BY DEF Lua!DoneHook, Lua!Hooks, Results
<1>2. pipe \in Pipe /\ pipe.hook = "on_done"
  BY <1>1, CurrentFacts DEF Begun
<1>3. Does(pipe, result, Lua!Current.name)
  BY <1>2 DEF Does
<1>4. \E left \in {1, 2} : Lua!Run(c, result, left, pipe)
  BY DEF Lua!DoneHook
<1> QED
  BY <1>1, <1>3, <1>4, RunStep

\* The VM goes back to the pool.
LEMMA FinishStep ==
    ASSUME PipeInv, Lua!Finish
    PROVE  PipeInv'
<1>1. /\ vm # None /\ vm' = None /\ available' = Append(available, vm)
      /\ UNCHANGED <<executed, stack, globals, pipe, runs, ran, alien>>
  BY DEF Lua!Finish, Lua!vms
<1>2. available \in Seq(Lua!VMs) /\ IsInjective(available) /\ vm \in Lua!VMs /\ vm \notin ToSet(available)
  BY <1>1 DEF PipeInv, Pool
<1>3. /\ available' \in Seq(Lua!VMs) /\ IsInjective(available')
      /\ ToSet(available') = ToSet(available) \cup {vm}
  BY <1>1, <1>2, AppendAt, ToSetAppend, InjectiveAppend
<1>4. None \notin Lua!VMs
  BY PipelineAssumption DEF Lua!VMs
<1>5. Pool'
  BY <1>1, <1>2, <1>3, <1>4 DEF PipeInv, Pool
<1>6. Begun => Begun'
  BY <1>1 DEF Begun, Judged, Lua!Due
<1> QED
  BY <1>1, <1>5, <1>6 DEF PipeInv, OwnGlobals

\* The invariant holds at first.
LEMMA InitPipeInv == Lua!Init => PipeInv
<1> SUFFICES ASSUME Lua!Init PROVE PipeInv
  OBVIOUS
<1>1. /\ available = [i \in Lua!VMs |-> i] /\ vm = None /\ pipe = None /\ ran = <<>> /\ alien = {} /\ runs = 0
      /\ executed = [v \in Lua!VMs |-> 0] /\ stack = [v \in Lua!VMs |-> 0]
      /\ globals = [v \in Lua!VMs |-> {}]
  BY DEF Lua!Init
<1>2. Lua!VMs = 1..PoolSize /\ PoolSize \in Nat /\ None \notin Lua!VMs /\ 0 \in 0..(Limit - 1)
  BY PipelineAssumption DEF Lua!VMs
<1>3. available \in [1..PoolSize -> Lua!VMs]
  BY <1>1, <1>2
<1>4. available \in Seq(Lua!VMs) /\ IsInjective(available) /\ ToSet(available) = Lua!VMs
  BY <1>1, <1>2, <1>3, FunctionIsSeq DEF IsInjective, ToSet
<1>5. Pool
  BY <1>1, <1>2, <1>4, PipelineAssumption DEF Pool
<1> QED
  BY <1>1, <1>5, EmptySeq DEF PipeInv, OwnGlobals

\* Every step keeps it.
LEMMA StepPipeInv == PipeInv /\ [Lua!Next]_Lua!vars => PipeInv'
<1> SUFFICES ASSUME PipeInv, [Lua!Next]_Lua!vars PROVE PipeInv'
  OBVIOUS
<1>1. CASE UNCHANGED Lua!vars
  <2>1. UNCHANGED <<available, vm, executed, stack, globals, pipe, runs, ran, alien>>
    BY <1>1 DEF Lua!vars, Lua!vms
  <2> QED
    BY <2>1 DEF PipeInv, Pool, Begun, Judged, OwnGlobals, Lua!Due
<1> QED
  BY <1>1, BeginStep, RequestStep, TokenStep, DoneStep, FinishStep DEF Lua!Next

LEMMA PipeInductive == Lua!Spec => []PipeInv
  BY InitPipeInv, StepPipeInv, PTL DEF Lua!Spec

-----------------------------------------------------------------------------
(* What follows from it.                                                   *)

\* A VM is in the pool, once, or borrowed, and never both, whatever the scripts do
\* (LuaVMPool::borrow, VMRent).
THEOREM PoolOfVMs == Lua!Spec => []Lua!TypeOK
<1>1. PipeInv => Lua!TypeOK
  <2> SUFFICES ASSUME PipeInv PROVE Lua!TypeOK
    OBVIOUS
  <2>1. /\ Lua!IsInjective(available) /\ Lua!ToSet(available) \subseteq Lua!VMs
        /\ Lua!ToSet(available) = Lua!VMs \ {vm}
    BY PipeOperators DEF PipeInv, Pool
  <2> QED
    BY <2>1 DEF PipeInv, Pool, Begun, Pipe, Lua!TypeOK
<1> QED
  BY <1>1, PipeInductive, PTL

\* The ring of the logger with its counters, and the pool of a thread with its VMs, stay in their
\* domains for every size and every number of threads, lines and pipelines.
THEOREM TypesCorrect == Log!Spec /\ Lua!Spec => []TypesOK
<1>1. Log!TypeOK /\ Lua!TypeOK => TypesOK
  BY DEF TypesOK
<1> QED
  BY <1>1, LoggerTypeCorrect, PoolOfVMs, PTL

\* What a pipeline hands on is what the hooks that returned made of it, in their order, and nothing
\* of one that failed, for every list of plugins (run_request_pipeline, run_token_pipeline).
THEOREM PipelineChains == Lua!Spec => []ChainOfHooks
<1>1. PipeInv => ChainOfHooks
  <2> SUFFICES ASSUME PipeInv, pipe # None
               PROVE  LET made == Lua!Keep(ran, {r \in Lua!ToSet(ran) : r.changed /\ r.result # "fail"})
                      IN  pipe.data = [i \in DOMAIN made |-> made[i].name]
    BY DEF ChainOfHooks, Lua!ChainOfHooks
  <2>1. Lua!Keep(ran, {r \in Lua!ToSet(ran) : r.changed /\ r.result # "fail"}) = Made(ran)
    BY PipeOperators DEF Made, Counts
  <2>2. pipe.data = NamesOf(Made(ran)) /\ DOMAIN Made(ran) = 1..Len(Made(ran))
    BY MadeFacts, LenProperties DEF PipeInv, Begun
  <2> QED
    BY <2>1, <2>2 DEF NamesOf
<1> QED
  BY <1>1, PipeInductive, PTL

\* Who aborts or answers a request has it rejected, and nobody else, and the answer is the last one
\* set, for every list of plugins and whatever their hooks return (run_request_pipeline).
THEOREM PipelineVerdict == Lua!Spec => []Verdict
<1>1. PipeInv => Verdict
  <2> SUFFICES ASSUME PipeInv, pipe # None, pipe.hook = "on_request" PROVE Verdict
    BY DEF Verdict, Lua!Verdict
  <2>1. Judged /\ DOMAIN ran = 1..Len(ran)
    BY LenProperties DEF PipeInv, Begun
  <2> QED
    BY <2>1 DEF Judged, Verdict, Lua!Verdict
<1> QED
  BY <1>1, PipeInductive, PTL

\* No script finds a global that another pipeline defined in its VM, unless under a name of the
\* whitelist, for every pool and every list of plugins, whatever scripts do to the globals
\* (LuaVMPool::borrow, LuaSandbox::reset).
THEOREM NoGlobalsLeft == Lua!Spec => []NoAlienGlobals
<1>1. PipeInv => NoAlienGlobals
  BY DEF PipeInv, NoAlienGlobals, Lua!NoAlienGlobals
<1> QED
  BY <1>1, PipeInductive, PTL

(***************************************************************************)
(* Router and LoadBalancer.                                                *)
(***************************************************************************)

-----------------------------------------------------------------------------
(* Loops over the nodes of a group.                                        *)

\* k[i] is what a loop has computed after its i-th step, st[i] the step.
Loops(k, a, st, n) == k[0] = a /\ \A i \in 1..n : k[i] = st[i][k[i - 1]]

\* A loop has a result after every step.
LEMMA LoopExists ==
    ASSUME NEW S, NEW a \in S, NEW n \in Nat, NEW st \in [1..n -> [S -> S]]
    PROVE  \E k \in [0..n -> S] : Loops(k, a, st, n)
<1> DEFINE I == {m \in Nat : m <= n => \E k \in [0..m -> S] : Loops(k, a, st, m)}
<1>1. 0 \in I
  <2>1. [i \in 0..0 |-> a] \in [0..0 -> S] /\ Loops([i \in 0..0 |-> a], a, st, 0)
    BY DEF Loops
  <2> QED
    BY <2>1
<1>2. ASSUME NEW m \in I PROVE m + 1 \in I
  <2> SUFFICES ASSUME m + 1 <= n PROVE \E k \in [0..(m + 1) -> S] : Loops(k, a, st, m + 1)
    OBVIOUS
  <2>1. PICK k \in [0..m -> S] : Loops(k, a, st, m)
    OBVIOUS
  <2> DEFINE g == [i \in 0..(m + 1) |-> IF i <= m THEN k[i] ELSE st[m + 1][k[m]]]
  <2>2. st[m + 1][k[m]] \in S
    <3>1. m + 1 \in 1..n /\ m \in 0..m
      OBVIOUS
    <3> QED
      BY <3>1
  <2>3. g \in [0..(m + 1) -> S]
    BY <2>2
  <2>4. g[0] = a
    BY <2>1 DEF Loops
  <2>5. ASSUME NEW i \in 1..(m + 1) PROVE g[i] = st[i][g[i - 1]]
    <3>1. CASE i = m + 1
      <4>1. g[i - 1] = k[m] /\ i \in 0..(m + 1) /\ ~(i <= m)
        BY <3>1
      <4> QED
        BY <3>1, <4>1
    <3>2. CASE i # m + 1
      <4>1. i \in 1..m /\ i - 1 \in 0..(m + 1) /\ i - 1 <= m /\ i \in 0..(m + 1)
        BY <3>2
      <4>2. g[i] = k[i] /\ g[i - 1] = k[i - 1]
        BY <4>1
      <4> QED
        BY <2>1, <4>1, <4>2 DEF Loops
    <3> QED
      BY <3>1, <3>2
  <2> HIDE DEF g
  <2>6. Loops(g, a, st, m + 1)
    BY <2>4, <2>5 DEF Loops
  <2> QED
    BY <2>3, <2>6
<1>3. I = Nat
  BY <1>1, <1>2, SetInduction
<1>4. n \in I
  BY <1>3
<1> QED
  BY <1>4

-----------------------------------------------------------------------------
(* Sums.                                                                   *)

\* The first sums of f.
Sums(k, f, n) == k[0] = 0 /\ \A i \in 1..n : k[i] = k[i - 1] + f[i]

\* A sum is computed by a solution of its recursion.
LEMMA SumDef ==
    ASSUME NEW n \in Nat, NEW f, \A i \in 1..n : f[i] \in Int
    PROVE  \E k \in [0..n -> Int] : Sums(k, f, n) /\ Rt!SumUpTo(f, n) = k[n]
<1> DEFINE F(k) == [i \in 0..n |-> IF i = 0 THEN 0 ELSE k[i - 1] + f[i]]
           st   == [i \in 1..n |-> [x \in Int |-> x + f[i]]]
<1>1. PICK k \in [0..n -> Int] : Sums(k, f, n)
  <2>1. st \in [1..n -> [Int -> Int]]
    OBVIOUS
  <2>2. \A i \in 1..n, x \in Int : st[i][x] = x + f[i]
    OBVIOUS
  <2> HIDE DEF st
  <2>3. PICK k \in [0..n -> Int] : Loops(k, 0, st, n)
    <3>1. 0 \in Int
      OBVIOUS
    <3> QED
      BY <2>1, <3>1, LoopExists, Zenon
  <2>4. \A i \in 1..n : i - 1 \in 0..n
    OBVIOUS
  <2>5. Sums(k, f, n)
    BY <2>2, <2>3, <2>4 DEF Loops, Sums
  <2> QED
    BY <2>5
<1>2. k = F(k)
  <2>1. \A i \in 0..n : k[i] = IF i = 0 THEN 0 ELSE k[i - 1] + f[i]
    BY <1>1 DEF Sums
  <2> QED
    BY <2>1
<1>3. PICK l : l = F(l) /\ Rt!SumUpTo(f, n) = l[n]
  <2>1. Rt!SumUpTo(f, n) = (CHOOSE l : l = F(l))[n]
    BY DEF Rt!SumUpTo
  <2> HIDE DEF F
  <2>2. (CHOOSE l : l = F(l)) = F(CHOOSE l : l = F(l))
    BY <1>2
  <2> QED
    BY <2>1, <2>2
<1>4. Sums(l, f, n)
  <2>1. 0 \in 0..n /\ \A i \in 1..n : i \in 0..n /\ i # 0
    OBVIOUS
  <2> QED
    BY <1>3, <2>1 DEF Sums
<1>5. \A i \in 0..n : l[i] \in Int
  <2> DEFINE I == {m \in Nat : m <= n => l[m] \in Int}
  <2>1. 0 \in I
    BY <1>4 DEF Sums
  <2>2. ASSUME NEW m \in I PROVE m + 1 \in I
    <3> SUFFICES ASSUME m + 1 <= n PROVE l[m + 1] \in Int
      OBVIOUS
    <3>1. m + 1 \in 1..n /\ (m + 1) - 1 = m /\ l[m] \in Int
      OBVIOUS
    <3>2. l[m + 1] = l[(m + 1) - 1] + f[m + 1] /\ f[m + 1] \in Int
      BY <1>4, <3>1 DEF Sums
    <3> QED
      BY <3>1, <3>2
  <2>3. I = Nat
    BY <2>1, <2>2, SetInduction
  <2> QED
    BY <2>3
<1>6. l \in [0..n -> Int]
  BY <1>3, <1>5
<1> QED
  BY <1>3, <1>4, <1>6

\* A sum is an integer, the empty one is zero, and one more element adds itself.
LEMMA SumStep ==
    ASSUME NEW n \in Nat, NEW f, \A i \in 1..n : f[i] \in Int
    PROVE  /\ Rt!SumUpTo(f, n) \in Int
           /\ n = 0 => Rt!SumUpTo(f, n) = 0
           /\ n > 0 => Rt!SumUpTo(f, n) = Rt!SumUpTo(f, n - 1) + f[n]
<1>1. PICK k \in [0..n -> Int] : Sums(k, f, n) /\ Rt!SumUpTo(f, n) = k[n]
  BY SumDef
<1>2. Rt!SumUpTo(f, n) \in Int /\ (n = 0 => Rt!SumUpTo(f, n) = 0)
  BY <1>1 DEF Sums
<1>3. ASSUME n > 0 PROVE Rt!SumUpTo(f, n) = Rt!SumUpTo(f, n - 1) + f[n]
  <2>1. n - 1 \in Nat /\ \A i \in 1..(n - 1) : i \in 1..n /\ f[i] \in Int
    BY <1>3
  <2>2. PICK l \in [0..(n - 1) -> Int] : Sums(l, f, n - 1) /\ Rt!SumUpTo(f, n - 1) = l[n - 1]
    BY <2>1, SumDef
  <2> DEFINE I == {m \in Nat : m <= n - 1 => l[m] = k[m]}
  <2>3. 0 \in I
    BY <1>1, <2>2 DEF Sums
  <2>4. ASSUME NEW m \in I PROVE m + 1 \in I
    <3> SUFFICES ASSUME m + 1 <= n - 1 PROVE l[m + 1] = k[m + 1]
      OBVIOUS
    <3>1. m + 1 \in 1..n /\ m + 1 \in 1..(n - 1) /\ (m + 1) - 1 = m /\ l[m] = k[m]
      BY <2>1
    <3> QED
      BY <1>1, <2>2, <3>1 DEF Sums
  <2>5. I = Nat
    BY <2>3, <2>4, SetInduction
  <2>6. l[n - 1] = k[n - 1]
    <3>1. n - 1 \in I
      BY <2>1, <2>5
    <3> QED
      BY <3>1
  <2>7. k[n] = k[n - 1] + f[n]
    BY <1>1, <1>3 DEF Sums
  <2> QED
    BY <1>1, <2>2, <2>6, <2>7
<1> QED
  BY <1>2, <1>3

\* The sums of two functions add up to the sum of what they add up to.
LEMMA SumPlus ==
    ASSUME NEW n \in Nat, NEW f, NEW g, NEW h,
           \A i \in 1..n : f[i] \in Int /\ g[i] \in Int /\ h[i] = f[i] + g[i]
    PROVE  Rt!SumUpTo(h, n) = Rt!SumUpTo(f, n) + Rt!SumUpTo(g, n)
<1> DEFINE I == {m \in Nat : m <= n => Rt!SumUpTo(h, m) = Rt!SumUpTo(f, m) + Rt!SumUpTo(g, m)}
<1>1. 0 \in I
  <2>1. 0 \in Nat /\ \A i \in 1..0 : f[i] \in Int /\ g[i] \in Int /\ h[i] \in Int
    OBVIOUS
  <2>2. Rt!SumUpTo(f, 0) = 0 /\ Rt!SumUpTo(g, 0) = 0 /\ Rt!SumUpTo(h, 0) = 0
    BY <2>1, SumStep
  <2> QED
    BY <2>2
<1>2. ASSUME NEW m \in I PROVE m + 1 \in I
  <2> SUFFICES ASSUME m + 1 <= n
               PROVE  Rt!SumUpTo(h, m + 1) = Rt!SumUpTo(f, m + 1) + Rt!SumUpTo(g, m + 1)
    OBVIOUS
  <2>1. /\ m + 1 \in 1..n /\ m + 1 \in Nat /\ m \in Nat /\ (m + 1) - 1 = m /\ m + 1 > 0
        /\ Rt!SumUpTo(h, m) = Rt!SumUpTo(f, m) + Rt!SumUpTo(g, m)
    OBVIOUS
  <2>2. \A i \in 1..m : i \in 1..n
    BY <2>1
  <2>3. \A i \in 1..(m + 1) : i \in 1..n
    BY <2>1
  <2>4. \A i \in 1..(m + 1) : f[i] \in Int
    BY <2>3
  <2>5. Rt!SumUpTo(f, m + 1) = Rt!SumUpTo(f, m) + f[m + 1]
    BY <2>1, <2>4, SumStep
  <2>6. Rt!SumUpTo(f, m) \in Int /\ f[m + 1] \in Int
    BY <2>1, <2>2, <2>3, SumStep
  <2>7. \A i \in 1..(m + 1) : g[i] \in Int
    BY <2>3
  <2>8. Rt!SumUpTo(g, m + 1) = Rt!SumUpTo(g, m) + g[m + 1]
    BY <2>1, <2>7, SumStep
  <2>9. Rt!SumUpTo(g, m) \in Int /\ g[m + 1] \in Int
    BY <2>1, <2>2, <2>3, SumStep
  <2>10. \A i \in 1..(m + 1) : h[i] \in Int
    BY <2>3
  <2>11. Rt!SumUpTo(h, m + 1) = Rt!SumUpTo(h, m) + h[m + 1]
    BY <2>1, <2>10, SumStep
  <2>12. Rt!SumUpTo(h, m) \in Int /\ h[m + 1] \in Int
    BY <2>1, <2>2, <2>3, SumStep
  <2> QED
    BY <2>1, <2>5, <2>6, <2>8, <2>9, <2>11, <2>12
<1>3. I = Nat
  BY <1>1, <1>2, SetInduction
<1>4. n \in I
  BY <1>3
<1> QED
  BY <1>4

\* The sum of n times the same.
LEMMA SumConst ==
    ASSUME NEW n \in Nat, NEW f, NEW c \in Int, \A i \in 1..n : f[i] = c
    PROVE  Rt!SumUpTo(f, n) = n * c
<1> DEFINE I == {m \in Nat : m <= n => Rt!SumUpTo(f, m) = m * c}
<1>1. 0 \in I
  <2>1. 0 \in Nat /\ \A i \in 1..0 : f[i] \in Int
    OBVIOUS
  <2>2. Rt!SumUpTo(f, 0) = 0 /\ 0 * c = 0
    BY <2>1, SumStep
  <2> QED
    BY <2>2
<1>2. ASSUME NEW m \in I PROVE m + 1 \in I
  <2> SUFFICES ASSUME m + 1 <= n PROVE Rt!SumUpTo(f, m + 1) = (m + 1) * c
    OBVIOUS
  <2>1. /\ m + 1 \in 1..n /\ m + 1 \in Nat /\ m \in Nat /\ (m + 1) - 1 = m /\ m + 1 > 0
        /\ Rt!SumUpTo(f, m) = m * c
    OBVIOUS
  <2>2. \A i \in 1..m : i \in 1..n
    BY <2>1
  <2>3. \A i \in 1..(m + 1) : i \in 1..n
    BY <2>1
  <2>4. \A i \in 1..(m + 1) : f[i] \in Int
    BY <2>3
  <2>5. Rt!SumUpTo(f, m + 1) = Rt!SumUpTo(f, m) + f[m + 1]
    BY <2>1, <2>4, SumStep
  <2>6. Rt!SumUpTo(f, m) \in Int /\ f[m + 1] \in Int
    BY <2>1, <2>2, <2>3, SumStep
  <2>7. (m + 1) * c = m * c + c
    BY <2>1, TimesPlus
  <2> QED
    BY <2>1, <2>3, <2>5, <2>6, <2>7
<1>3. I = Nat
  BY <1>1, <1>2, SetInduction
<1>4. n \in I
  BY <1>3
<1> QED
  BY <1>4

\* A sum of natural numbers is one, and no less than any of them.
LEMMA SumBounds ==
    ASSUME NEW n \in Nat, NEW f, \A i \in 1..n : f[i] \in Nat
    PROVE  Rt!SumUpTo(f, n) \in Nat /\ \A i \in 1..n : f[i] <= Rt!SumUpTo(f, n)
<1> DEFINE I == {m \in Nat : m <= n => (Rt!SumUpTo(f, m) \in Nat /\ \A i \in 1..m : f[i] <= Rt!SumUpTo(f, m))}
<1>1. 0 \in I
  <2>1. 0 \in Nat /\ \A i \in 1..0 : f[i] \in Int
    OBVIOUS
  <2>2. Rt!SumUpTo(f, 0) = 0
    BY <2>1, SumStep
  <2> QED
    BY <2>2
<1>2. ASSUME NEW m \in I PROVE m + 1 \in I
  <2> SUFFICES ASSUME m + 1 <= n
               PROVE  Rt!SumUpTo(f, m + 1) \in Nat /\ \A i \in 1..(m + 1) : f[i] <= Rt!SumUpTo(f, m + 1)
    OBVIOUS
  <2>1. /\ m + 1 \in 1..n /\ m + 1 \in Nat /\ m \in Nat /\ (m + 1) - 1 = m /\ m + 1 > 0
        /\ (Rt!SumUpTo(f, m) \in Nat /\ \A i \in 1..m : f[i] <= Rt!SumUpTo(f, m))
    OBVIOUS
  <2>2. \A i \in 1..m : i \in 1..n
    BY <2>1
  <2>3. \A i \in 1..(m + 1) : i \in 1..n
    BY <2>1
  <2>4. \A i \in 1..(m + 1) : f[i] \in Int
    BY <2>3
  <2>5. Rt!SumUpTo(f, m + 1) = Rt!SumUpTo(f, m) + f[m + 1]
    BY <2>1, <2>4, SumStep
  <2>6. Rt!SumUpTo(f, m) \in Int /\ f[m + 1] \in Int
    BY <2>1, <2>2, <2>3, SumStep
  <2>7. f[m + 1] \in Nat
    BY <2>1
  <2>8. \A i \in 1..(m + 1) : i \in 1..m \/ i = m + 1
    BY <2>1
  <2> QED
    BY <2>1, <2>2, <2>5, <2>6, <2>7, <2>8
<1>3. I = Nat
  BY <1>1, <1>2, SetInduction
<1>4. n \in I
  BY <1>3
<1> QED
  BY <1>4

\* A sum of what is not positive is not positive.
LEMMA SumNegative ==
    ASSUME NEW n \in Nat, NEW f, \A i \in 1..n : f[i] \in Int /\ f[i] <= 0
    PROVE  Rt!SumUpTo(f, n) <= 0
<1> DEFINE I == {m \in Nat : m <= n => Rt!SumUpTo(f, m) <= 0}
<1>1. 0 \in I
  <2>1. 0 \in Nat /\ \A i \in 1..0 : f[i] \in Int
    OBVIOUS
  <2>2. Rt!SumUpTo(f, 0) = 0
    BY <2>1, SumStep
  <2> QED
    BY <2>2
<1>2. ASSUME NEW m \in I PROVE m + 1 \in I
  <2> SUFFICES ASSUME m + 1 <= n PROVE Rt!SumUpTo(f, m + 1) <= 0
    OBVIOUS
  <2>1. /\ m + 1 \in 1..n /\ m + 1 \in Nat /\ m \in Nat /\ (m + 1) - 1 = m /\ m + 1 > 0
        /\ Rt!SumUpTo(f, m) <= 0
    OBVIOUS
  <2>2. \A i \in 1..m : i \in 1..n
    BY <2>1
  <2>3. \A i \in 1..(m + 1) : i \in 1..n
    BY <2>1
  <2>4. \A i \in 1..(m + 1) : f[i] \in Int
    BY <2>3
  <2>5. Rt!SumUpTo(f, m + 1) = Rt!SumUpTo(f, m) + f[m + 1]
    BY <2>1, <2>4, SumStep
  <2>6. Rt!SumUpTo(f, m) \in Int /\ f[m + 1] \in Int
    BY <2>1, <2>2, <2>3, SumStep
  <2> QED
    BY <2>1, <2>3, <2>5, <2>6
<1>3. I = Nat
  BY <1>1, <1>2, SetInduction
<1>4. n \in I
  BY <1>3
<1> QED
  BY <1>4

\* h is f with d added to one of its elements.
Shifted(f, h, b, d, n) ==
    \A i \in 1..n : f[i] \in Int /\ h[i] = IF i = b THEN f[i] + d ELSE f[i]

\* A sum grows by what one of its elements grows by.
LEMMA SumShift ==
    ASSUME NEW n \in Nat, NEW b \in 1..n, NEW d \in Int, NEW f, NEW h, Shifted(f, h, b, d, n)
    PROVE  Rt!SumUpTo(h, n) = Rt!SumUpTo(f, n) + d
<1> USE DEF Shifted
<1> DEFINE I == {m \in Nat : m <= n => Rt!SumUpTo(h, m) = Rt!SumUpTo(f, m) + (IF b <= m THEN d ELSE 0)}
<1>1. 0 \in I
  <2>1. 0 \in Nat /\ \A i \in 1..0 : f[i] \in Int /\ h[i] \in Int
    OBVIOUS
  <2>2. Rt!SumUpTo(f, 0) = 0 /\ Rt!SumUpTo(h, 0) = 0
    BY <2>1, SumStep
  <2> QED
    BY <2>2
<1>2. ASSUME NEW m \in I PROVE m + 1 \in I
  <2> SUFFICES ASSUME m + 1 <= n
               PROVE  Rt!SumUpTo(h, m + 1) = Rt!SumUpTo(f, m + 1) + (IF b <= m + 1 THEN d ELSE 0)
    OBVIOUS
  <2>1. /\ m + 1 \in 1..n /\ m + 1 \in Nat /\ m \in Nat /\ (m + 1) - 1 = m /\ m + 1 > 0
        /\ Rt!SumUpTo(h, m) = Rt!SumUpTo(f, m) + (IF b <= m THEN d ELSE 0)
    OBVIOUS
  <2>2. \A i \in 1..m : i \in 1..n
    BY <2>1
  <2>3. \A i \in 1..(m + 1) : i \in 1..n
    BY <2>1
  <2>4. \A i \in 1..(m + 1) : f[i] \in Int
    BY <2>3
  <2>5. Rt!SumUpTo(f, m + 1) = Rt!SumUpTo(f, m) + f[m + 1]
    BY <2>1, <2>4, SumStep
  <2>6. Rt!SumUpTo(f, m) \in Int /\ f[m + 1] \in Int
    BY <2>1, <2>2, <2>3, SumStep
  <2>7. \A i \in 1..(m + 1) : h[i] \in Int
    BY <2>3
  <2>8. Rt!SumUpTo(h, m + 1) = Rt!SumUpTo(h, m) + h[m + 1]
    BY <2>1, <2>7, SumStep
  <2>9. Rt!SumUpTo(h, m) \in Int /\ h[m + 1] \in Int
    BY <2>1, <2>2, <2>3, SumStep
  <2>10. b <= m + 1 <=> b <= m \/ b = m + 1
    BY <2>1
  <2>11. CASE b = m + 1
    BY <2>1, <2>5, <2>6, <2>8, <2>9, <2>10, <2>11
  <2>12. CASE b # m + 1
    BY <2>1, <2>5, <2>6, <2>8, <2>9, <2>10, <2>12
  <2> QED
    BY <2>11, <2>12
<1>3. I = Nat
  BY <1>1, <1>2, SetInduction
<1>4. n \in I
  BY <1>3
<1> QED
  BY <1>4

\* Functions that agree have the same sum.
LEMMA SumSame ==
    ASSUME NEW n \in Nat, NEW f, NEW h, \A i \in 1..n : f[i] \in Int /\ h[i] = f[i]
    PROVE  Rt!SumUpTo(h, n) = Rt!SumUpTo(f, n)
<1> DEFINE z == [i \in 1..n |-> 0]
<1>1. \A i \in 1..n : f[i] \in Int /\ z[i] \in Int /\ h[i] = f[i] + z[i]
  OBVIOUS
<1>2. Rt!SumUpTo(z, n) = n * 0
  BY SumConst
<1> HIDE DEF z
<1>3. Rt!SumUpTo(h, n) = Rt!SumUpTo(f, n) + Rt!SumUpTo(z, n)
  BY <1>1, SumPlus
<1>4. Rt!SumUpTo(f, n) \in Int
  BY SumStep
<1> QED
  BY <1>2, <1>3, <1>4

\* What t lacks of w in one place is no more than what it lacks in all, and it lacks nothing
\* anywhere if the sums are the same.
LEMMA SumLacks ==
    ASSUME NEW n \in Nat, NEW t, NEW w,
           \A i \in 1..n : t[i] \in Int /\ w[i] \in Int /\ t[i] <= w[i]
    PROVE  /\ \A i \in 1..n : w[i] - t[i] <= Rt!SumUpTo(w, n) - Rt!SumUpTo(t, n)
           /\ Rt!SumUpTo(w, n) = Rt!SumUpTo(t, n) => \A i \in 1..n : t[i] = w[i]
<1> DEFINE d == [i \in 1..n |-> w[i] - t[i]]
<1>1. \A i \in 1..n : /\ t[i] \in Int /\ d[i] = w[i] - t[i] /\ d[i] \in Nat /\ d[i] \in Int
                      /\ w[i] = t[i] + d[i]
  OBVIOUS
<1> HIDE DEF d
<1>2. Rt!SumUpTo(w, n) = Rt!SumUpTo(t, n) + Rt!SumUpTo(d, n)
  BY <1>1, SumPlus
<1>3. \A i \in 1..n : d[i] <= Rt!SumUpTo(d, n)
  BY <1>1, SumBounds
<1>4. Rt!SumUpTo(t, n) \in Int /\ Rt!SumUpTo(d, n) \in Int
  <2>1. Rt!SumUpTo(t, n) \in Int
    BY SumStep
  <2>2. Rt!SumUpTo(d, n) \in Int
    BY <1>1, SumStep
  <2> QED
    BY <2>1, <2>2
<1>5. \A i \in 1..n : w[i] - t[i] <= Rt!SumUpTo(w, n) - Rt!SumUpTo(t, n)
  BY <1>1, <1>2, <1>3, <1>4
<1>6. ASSUME Rt!SumUpTo(w, n) = Rt!SumUpTo(t, n), NEW i \in 1..n PROVE t[i] = w[i]
  BY <1>1, <1>2, <1>3, <1>4, <1>6
<1> QED
  BY <1>5, <1>6

\* What sums to zero and is nowhere less than -c is nowhere more than (n - 1) * c.
LEMMA SumUpper ==
    ASSUME NEW n \in Nat, NEW f, NEW c \in Nat, \A i \in 1..n : f[i] \in Int /\ -c <= f[i],
           Rt!SumUpTo(f, n) = 0, NEW b \in 1..n
    PROVE  f[b] <= (n - 1) * c
<1> DEFINE z == [i \in 1..n |-> -c]
<1>1. \A i \in 1..n : z[i] \in Int /\ z[i] <= f[i] /\ f[i] \in Int
  OBVIOUS
<1>2. Rt!SumUpTo(z, n) = n * (-c)
  <2>1. -c \in Int /\ \A i \in 1..n : z[i] = -c
    OBVIOUS
  <2> HIDE DEF z
  <2> QED
    BY <2>1, SumConst
<1>3. z[b] = -c
  OBVIOUS
<1> HIDE DEF z
<1>4. f[b] - z[b] <= Rt!SumUpTo(f, n) - Rt!SumUpTo(z, n)
  BY <1>1, SumLacks
<1>5. n * (-c) = -(n * c) /\ n * c \in Int /\ (n - 1) * c = n * c - c
  OBVIOUS
<1> QED
  BY <1>2, <1>3, <1>4, <1>5

-----------------------------------------------------------------------------
(* The loop of pick().                                                     *)

Backends == [name : Rt!Names, weight : Nat, healthy : BOOLEAN]

\* The nodes of a group differ in their names.
OwnNames(ns) == \A i, j \in 1..Len(ns) : ns[i].name = ns[j].name => i = j

\* What pick() adds to the current weights of a group
Shares(ns) == [i \in 1..Len(ns) |-> IF ns[i].healthy THEN ns[i].weight ELSE 0]

\* What the loop of pick() has computed
Found == [cw : [Rt!Names -> Int], total : Nat, best : Nat \cup {None}]

\* One step of the loop
Look(ns, i, acc) ==
    LET w == [acc.cw EXCEPT ![ns[i].name] = @ + ns[i].weight]
    IN  IF ~ns[i].healthy THEN acc
        ELSE [cw    |-> w,
              total |-> acc.total + ns[i].weight,
              best  |-> IF acc.best = None \/ w[ns[i].name] > w[ns[acc.best].name]
                        THEN i ELSE acc.best]

\* Raised is computed step by step.
LEMMA RaisedDef ==
    ASSUME NEW g, nodes[g] \in Seq(Backends), cw[g] \in [Rt!Names -> Int]
    PROVE  \E k \in [0..Len(nodes[g]) -> Found] :
              /\ k[0] = [cw |-> cw[g], total |-> 0, best |-> None]
              /\ \A i \in 1..Len(nodes[g]) : k[i] = Look(nodes[g], i, k[i - 1])
              /\ Rt!Raised(g) = k[Len(nodes[g])]
<1>1. PICK ns \in Seq(Backends) : ns = nodes[g]
  OBVIOUS
<1>2. PICK c \in [Rt!Names -> Int] : c = cw[g]
  OBVIOUS
<1>3. PICK n \in Nat : n = Len(ns)
  BY LenProperties
<1>4. \A i \in 1..n : ns[i] \in Backends
  BY <1>3, ElementOfSeq
<1> DEFINE a    == [cw |-> c, total |-> 0, best |-> None]
           st   == [i \in 1..n |-> [acc \in Found |-> Look(ns, i, acc)]]
           F(k) == [i \in 0..n |->
                      IF i = 0 THEN [cw |-> cw[g], total |-> 0, best |-> None]
                      ELSE LET acc == k[i - 1]
                               node == nodes[g][i]
                               w   == [acc.cw EXCEPT ![node.name] = @ + node.weight]
                           IN  IF ~node.healthy THEN acc
                               ELSE [cw    |-> w,
                                     total |-> acc.total + node.weight,
                                     best  |-> IF acc.best = None \/ w[node.name] > w[nodes[g][acc.best].name]
                                               THEN i ELSE acc.best]]
<1> HIDE DEF a, st, F
<1>5. ASSUME NEW i \in 1..n, NEW acc \in Found PROVE Look(ns, i, acc) \in Found
  <2>1. /\ ns[i].name \in Rt!Names /\ ns[i].weight \in Nat
        /\ acc.cw \in [Rt!Names -> Int] /\ acc.total \in Nat /\ acc.best \in Nat \cup {None}
    BY <1>4 DEF Backends, Found
  <2>2. [acc.cw EXCEPT ![ns[i].name] = @ + ns[i].weight] \in [Rt!Names -> Int]
    BY <2>1
  <2>3. acc.total + ns[i].weight \in Nat /\ i \in Nat
    BY <2>1
  <2> QED
    BY <2>1, <2>2, <2>3 DEF Look, Found
<1>6. PICK k \in [0..n -> Found] : k[0] = a /\ \A i \in 1..n : k[i] = Look(ns, i, k[i - 1])
  <2>1. a \in Found
    BY DEF Found, a
  <2>2. st \in [1..n -> [Found -> Found]] /\ \A i \in 1..n, acc \in Found : st[i][acc] = Look(ns, i, acc)
    BY <1>5 DEF st
  <2>3. PICK k \in [0..n -> Found] : Loops(k, a, st, n)
    BY <2>1, <2>2, LoopExists, Zenon
  <2>4. \A i \in 1..n : i - 1 \in 0..n
    OBVIOUS
  <2> QED
    BY <2>2, <2>3, <2>4 DEF Loops
<1>7. ASSUME NEW l, NEW i \in 1..n PROVE F(l)[i] = Look(ns, i, l[i - 1])
  <2>1. i \in 0..n /\ i # 0
    OBVIOUS
  <2> QED
    BY <1>1, <2>1 DEF Look, F
<1>8. \A l : F(l)[0] = a /\ DOMAIN F(l) = 0..n
  BY <1>2 DEF F, a
<1>9. k = F(k)
  <2>1. F(k) = [i \in 0..n |-> F(k)[i]]
    BY DEF F
  <2>2. \A i \in 0..n : k[i] = F(k)[i]
    <3>1. \A i \in 0..n : i = 0 \/ i \in 1..n
      OBVIOUS
    <3> QED
      BY <1>6, <1>7, <1>8, <3>1
  <2>3. k = [i \in 0..n |-> k[i]]
    OBVIOUS
  <2> QED
    BY <2>1, <2>2, <2>3
<1>10. PICK l : l = F(l) /\ Rt!Raised(g) = l[n]
  <2>1. Rt!Raised(g) = (CHOOSE l : l = F(l))[n]
    BY <1>1, <1>3 DEF Rt!Raised, F
  <2>2. (CHOOSE l : l = F(l)) = F(CHOOSE l : l = F(l))
    BY <1>9
  <2> QED
    BY <2>1, <2>2
<1>11. l[0] = a /\ \A i \in 1..n : l[i] = Look(ns, i, l[i - 1])
  BY <1>7, <1>8, <1>10
<1>12. l[n] = k[n]
  <2> DEFINE I == {m \in Nat : m <= n => l[m] = k[m]}
  <2>1. 0 \in I
    BY <1>6, <1>11
  <2>2. ASSUME NEW m \in I PROVE m + 1 \in I
    <3> SUFFICES ASSUME m + 1 <= n PROVE l[m + 1] = k[m + 1]
      OBVIOUS
    <3>1. m + 1 \in 1..n /\ (m + 1) - 1 = m /\ l[m] = k[m]
      OBVIOUS
    <3>2. l[m + 1] = Look(ns, m + 1, l[(m + 1) - 1]) /\ k[m + 1] = Look(ns, m + 1, k[(m + 1) - 1])
      BY <1>6, <1>11, <3>1
    <3> QED
      BY <3>1, <3>2
  <2>3. I = Nat
    BY <2>1, <2>2, SetInduction
  <2>4. n \in I
    BY <2>3
  <2> QED
    BY <2>4
<1> QED
  BY <1>1, <1>2, <1>3, <1>6, <1>10, <1>12 DEF a

\* Every healthy node is raised by its weight and the others are left alone; the node that is
\* found is a healthy one that no healthy one exceeds.
RaisedOf(ns, c, f) ==
    /\ f.total = Rt!SumUpTo(Shares(ns), Len(ns))
    /\ \A i \in 1..Len(ns) : f.cw[ns[i].name] = c[ns[i].name] + Shares(ns)[i]
    /\ (\E i \in 1..Len(ns) : ns[i].healthy) =>
         /\ f.best \in 1..Len(ns) /\ ns[f.best].healthy
         /\ \A i \in 1..Len(ns) : ns[i].healthy => f.cw[ns[i].name] <= f.cw[ns[f.best].name]

\* The same after m nodes, with acc computed so far.
Added(ns, c, acc, m) ==
    /\ acc.total = Rt!SumUpTo(Shares(ns), m)
    /\ \A i \in 1..Len(ns) :
        acc.cw[ns[i].name] = c[ns[i].name] + (IF i <= m THEN Shares(ns)[i] ELSE 0)

Best(ns, acc, m) ==
    /\ acc.best = None => \A i \in 1..m : ~ns[i].healthy
    /\ acc.best # None =>
        /\ acc.best \in 1..m /\ ns[acc.best].healthy
        /\ \A i \in 1..m : ns[i].healthy => acc.cw[ns[i].name] <= acc.cw[ns[acc.best].name]

\* What a list of nodes is made of
LEMMA NodeFacts ==
    ASSUME NEW ns \in Seq(Backends)
    PROVE  /\ Len(ns) \in Nat /\ DOMAIN ns = 1..Len(ns)
           /\ \A i \in 1..Len(ns) : /\ ns[i].name \in Rt!Names /\ ns[i].weight \in Nat
                                    /\ Shares(ns)[i] \in Nat
                                    /\ ns[i].healthy => Shares(ns)[i] = ns[i].weight
                                    /\ ~ns[i].healthy => Shares(ns)[i] = 0
<1>1. Len(ns) \in Nat /\ DOMAIN ns = 1..Len(ns)
  BY LenProperties
<1>2. \A i \in 1..Len(ns) : ns[i].name \in Rt!Names /\ ns[i].weight \in Nat
  <2>1. \A i \in 1..Len(ns) : ns[i] \in Backends
    BY ElementOfSeq
  <2> QED
    BY <2>1 DEF Backends
<1>3. \A i \in 1..Len(ns) : /\ ns[i].healthy => Shares(ns)[i] = ns[i].weight
                            /\ ~ns[i].healthy => Shares(ns)[i] = 0
  BY DEF Shares
<1>4. \A i \in 1..Len(ns) : Shares(ns)[i] \in Nat
  BY <1>2, <1>3
<1> QED
  BY <1>1, <1>2, <1>3, <1>4

\* A step of the loop raises its node by its share and no other.
LEMMA LookRaises ==
    ASSUME NEW ns \in Seq(Backends), OwnNames(ns), NEW j \in 1..Len(ns), NEW acc \in Found
    PROVE  /\ Look(ns, j, acc).total = acc.total + Shares(ns)[j]
           /\ Look(ns, j, acc).cw[ns[j].name] = acc.cw[ns[j].name] + Shares(ns)[j]
           /\ \A i \in 1..Len(ns) : i # j => Look(ns, j, acc).cw[ns[i].name] = acc.cw[ns[i].name]
<1>1. acc.cw \in [Rt!Names -> Int] /\ acc.total \in Nat
  BY DEF Found
<1>2. acc.cw[ns[j].name] \in Int /\ ns[j].name \in Rt!Names
  BY <1>1, NodeFacts
<1>3. CASE ~ns[j].healthy
  <2>1. Look(ns, j, acc) = acc /\ Shares(ns)[j] = 0
    BY <1>3, NodeFacts DEF Look
  <2> QED
    BY <1>1, <1>2, <2>1
<1>4. CASE ns[j].healthy
  <2>1. PICK w : w = [acc.cw EXCEPT ![ns[j].name] = @ + ns[j].weight]
    OBVIOUS
  <2>2. Look(ns, j, acc).cw = w /\ Look(ns, j, acc).total = acc.total + ns[j].weight
    BY <1>4, <2>1 DEF Look
  <2>3. Shares(ns)[j] = ns[j].weight
    BY <1>4, NodeFacts
  <2>4. w[ns[j].name] = acc.cw[ns[j].name] + ns[j].weight
    BY <1>1, <1>2, <2>1
  <2>5. \A i \in 1..Len(ns) : i # j => ns[i].name # ns[j].name /\ ns[i].name \in Rt!Names
    BY NodeFacts DEF OwnNames
  <2>6. \A i \in 1..Len(ns) : i # j => w[ns[i].name] = acc.cw[ns[i].name]
    BY <1>1, <2>1, <2>5
  <2> QED
    BY <2>2, <2>3, <2>4, <2>6
<1> QED
  BY <1>3, <1>4

\* The step from m nodes to m + 1: what is added
LEMMA LookAdds ==
    ASSUME NEW ns \in Seq(Backends), NEW c \in [Rt!Names -> Int], OwnNames(ns),
           NEW m \in Nat, m + 1 \in 1..Len(ns), NEW acc \in Found, NEW new,
           new = Look(ns, m + 1, acc), Added(ns, c, acc, m)
    PROVE  Added(ns, c, new, m + 1)
<1>1. PICK j \in 1..Len(ns) : j = m + 1
  OBVIOUS
<1>2. /\ new.total = acc.total + Shares(ns)[j] /\ new.cw[ns[j].name] = acc.cw[ns[j].name] + Shares(ns)[j]
      /\ \A i \in 1..Len(ns) : i # j => new.cw[ns[i].name] = acc.cw[ns[i].name]
  BY <1>1, LookRaises
<1>3. new.total = Rt!SumUpTo(Shares(ns), m + 1)
  <2>1. m + 1 \in Nat /\ m + 1 > 0 /\ (m + 1) - 1 = m /\ \A i \in 1..(m + 1) : i \in 1..Len(ns)
    OBVIOUS
  <2>2. \A i \in 1..(m + 1) : Shares(ns)[i] \in Int
    BY <2>1, NodeFacts
  <2>3. Rt!SumUpTo(Shares(ns), m + 1) = Rt!SumUpTo(Shares(ns), m) + Shares(ns)[m + 1]
    BY <2>1, <2>2, SumStep
  <2>4. acc.total = Rt!SumUpTo(Shares(ns), m)
    BY DEF Added
  <2> QED
    BY <1>1, <1>2, <2>3, <2>4
<1>4. ASSUME NEW i \in 1..Len(ns)
      PROVE  new.cw[ns[i].name] = c[ns[i].name] + (IF i <= m + 1 THEN Shares(ns)[i] ELSE 0)
  <2>1. acc.cw[ns[i].name] = c[ns[i].name] + (IF i <= m THEN Shares(ns)[i] ELSE 0)
    BY DEF Added
  <2>2. PICK u \in Int, d \in Nat : u = c[ns[i].name] /\ d = Shares(ns)[i]
    BY NodeFacts
  <2>3. CASE i = j
    <3>1. acc.cw[ns[i].name] = u /\ i <= m + 1
      BY <1>1, <2>1, <2>2, <2>3
    <3> QED
      BY <1>2, <2>2, <2>3, <3>1
  <2>4. CASE i # j
    <3>1. i <= m + 1 <=> i <= m
      BY <1>1, <2>4
    <3>2. new.cw[ns[i].name] = acc.cw[ns[i].name]
      BY <1>2, <2>4
    <3> QED
      BY <2>1, <3>1, <3>2
  <2> QED
    BY <2>3, <2>4
<1> QED
  BY <1>3, <1>4 DEF Added

\* The same step: what is found
LEMMA LookFinds ==
    ASSUME NEW ns \in Seq(Backends), OwnNames(ns),
           NEW m \in Nat, m + 1 \in 1..Len(ns), NEW acc \in Found, NEW new \in Found,
           new = Look(ns, m + 1, acc), Best(ns, acc, m)
    PROVE  Best(ns, new, m + 1)
<1>1. PICK j \in 1..Len(ns) : j = m + 1
  OBVIOUS
<1>2. \A i \in 1..(m + 1) : i \in 1..m \/ i = j
  BY <1>1
<1>3. \A i \in 1..m : i \in 1..Len(ns) /\ i # j
  BY <1>1
<1>4. None \notin Nat /\ j \in 1..(m + 1) /\ j \in Nat
  BY <1>1, PipelineAssumption
<1>5. CASE ~ns[j].healthy
  <2>1. new = acc
    BY <1>1, <1>5 DEF Look
  <2>2. acc.best = None => \A i \in 1..(m + 1) : ~ns[i].healthy
    BY <1>2, <1>5 DEF Best
  <2>3. ASSUME acc.best # None
        PROVE  /\ acc.best \in 1..(m + 1) /\ ns[acc.best].healthy
               /\ \A i \in 1..(m + 1) : ns[i].healthy => acc.cw[ns[i].name] <= acc.cw[ns[acc.best].name]
    <3>1. /\ acc.best \in 1..m /\ ns[acc.best].healthy
          /\ \A i \in 1..m : ns[i].healthy => acc.cw[ns[i].name] <= acc.cw[ns[acc.best].name]
      BY <2>3 DEF Best
    <3>2. acc.best \in 1..(m + 1)
      BY <3>1
    <3> QED
      BY <1>2, <1>5, <3>1, <3>2
  <2> QED
    BY <2>1, <2>2, <2>3 DEF Best
<1>6. CASE ns[j].healthy
  <2>1. PICK w \in [Rt!Names -> Int] : w = new.cw
    BY DEF Found
  <2>2. \A i \in 1..Len(ns) : w[ns[i].name] \in Int
    BY <2>1, NodeFacts
  <2>3. \A i \in 1..m : w[ns[i].name] = acc.cw[ns[i].name]
    BY <1>1, <1>3, <2>1, LookRaises
  <2>4. new.best = IF acc.best = None \/ w[ns[j].name] > w[ns[acc.best].name] THEN j ELSE acc.best
    BY <1>1, <1>6, <2>1 DEF Look
  <2>5. CASE acc.best = None
    <3>1. new.best = j /\ \A i \in 1..m : ~ns[i].healthy
      BY <2>4, <2>5 DEF Best
    <3>2. ASSUME NEW i \in 1..(m + 1), ns[i].healthy PROVE w[ns[i].name] <= w[ns[j].name]
      <4>1. i = j /\ w[ns[j].name] \in Int
        BY <1>2, <2>2, <3>1, <3>2
      <4> QED
        BY <4>1
    <3> QED
      BY <1>4, <1>6, <2>1, <3>1, <3>2 DEF Best
  <2>6. CASE acc.best # None
    <3>1. PICK p \in 1..m : p = acc.best
      BY <2>6 DEF Best
    <3>2. ns[p].healthy /\ \A i \in 1..m : ns[i].healthy => w[ns[i].name] <= w[ns[p].name]
      BY <2>3, <2>6, <3>1 DEF Best
    <3>3. PICK x \in Int, y \in Int : x = w[ns[j].name] /\ y = w[ns[p].name]
      BY <1>3, <2>2
    <3>4. CASE x > y
      <4>1. new.best = j
        BY <2>4, <3>1, <3>3, <3>4
      <4>2. ASSUME NEW i \in 1..(m + 1), ns[i].healthy PROVE w[ns[i].name] <= w[ns[j].name]
        <5>1. CASE i = j
          BY <3>3, <5>1
        <5>2. CASE i \in 1..m
          <6>1. PICK z \in Int : z = w[ns[i].name]
            BY <1>3, <2>2, <5>2
          <6>2. z <= y
            BY <3>2, <3>3, <4>2, <5>2, <6>1
          <6>3. z <= x
            BY <3>4, <6>2
          <6> QED
            BY <3>3, <6>1, <6>3
        <5> QED
          BY <1>2, <5>1, <5>2
      <4> QED
        BY <1>4, <1>6, <2>1, <4>1, <4>2 DEF Best
    <3>5. CASE ~(x > y)
      <4>1. new.best = p
        BY <2>4, <2>6, <3>1, <3>3, <3>5
      <4>2. ASSUME NEW i \in 1..(m + 1), ns[i].healthy PROVE w[ns[i].name] <= w[ns[p].name]
        <5>1. CASE i = j
          BY <3>3, <3>5, <5>1
        <5>2. CASE i \in 1..m
          BY <3>2, <4>2, <5>2
        <5> QED
          BY <1>2, <5>1, <5>2
      <4>3. p \in 1..(m + 1) /\ p # None
        BY <1>4
      <4> QED
        BY <2>1, <3>2, <4>1, <4>2, <4>3 DEF Best
    <3> QED
      BY <3>4, <3>5
  <2> QED
    BY <2>5, <2>6
<1> QED
  BY <1>5, <1>6

\* That is what the loop of pick() computes.
LEMMA RaisedFacts ==
    ASSUME NEW g, NEW ns \in Seq(Backends), NEW c \in [Rt!Names -> Int],
           ns = nodes[g], c = cw[g], OwnNames(ns)
    PROVE  Rt!Raised(g) \in Found /\ RaisedOf(ns, c, Rt!Raised(g))
<1>1. PICK n \in Nat : n = Len(ns)
  BY NodeFacts
<1>2. PICK k \in [0..n -> Found] :
        /\ k[0] = [cw |-> c, total |-> 0, best |-> None]
        /\ \A i \in 1..n : k[i] = Look(ns, i, k[i - 1])
        /\ Rt!Raised(g) = k[n]
  BY <1>1, RaisedDef
<1> DEFINE I == {m \in Nat : m <= n => Added(ns, c, k[m], m) /\ Best(ns, k[m], m)}
<1>3. 0 \in I
  <2>1. k[0].total = 0 /\ k[0].cw = c /\ k[0].best = None
    BY <1>2
  <2>2. Rt!SumUpTo(Shares(ns), 0) = 0
    <3>1. 0 \in Nat /\ \A i \in 1..0 : Shares(ns)[i] \in Int
      OBVIOUS
    <3> QED
      BY <3>1, SumStep
  <2>3. \A i \in 1..n : c[ns[i].name] = c[ns[i].name] + 0 /\ ~(i <= 0)
    BY <1>1, NodeFacts
  <2>4. Added(ns, c, k[0], 0)
    BY <1>1, <2>1, <2>2, <2>3 DEF Added
  <2>5. Best(ns, k[0], 0)
    BY <2>1 DEF Best
  <2> QED
    BY <2>4, <2>5
<1>4. ASSUME NEW m \in I PROVE m + 1 \in I
  <2>1. m \in Nat /\ m + 1 \in Nat /\ (m + 1) - 1 = m
    OBVIOUS
  <2>2. ASSUME m + 1 <= n PROVE Added(ns, c, k[m + 1], m + 1) /\ Best(ns, k[m + 1], m + 1)
    <3>1. m + 1 \in 1..Len(ns) /\ m + 1 \in 1..n /\ m \in 0..n /\ m + 1 \in 0..n /\ m <= n
      BY <1>1, <2>1, <2>2
    <3>2. PICK acc \in Found, new \in Found : acc = k[m] /\ new = k[m + 1]
      BY <3>1
    <3>3. new = Look(ns, m + 1, acc)
      BY <1>2, <2>1, <3>1, <3>2
    <3>4. Added(ns, c, acc, m) /\ Best(ns, acc, m)
      BY <3>1, <3>2
    <3>5. Added(ns, c, new, m + 1)
      BY <2>1, <3>1, <3>3, <3>4, LookAdds
    <3>6. Best(ns, new, m + 1)
      BY <2>1, <3>1, <3>3, <3>4, LookFinds
    <3> QED
      BY <3>2, <3>5, <3>6
  <2> QED
    BY <2>1, <2>2
<1>5. I = Nat
  BY <1>3, <1>4, SetInduction
<1>6. n \in I /\ n \in 0..n
  BY <1>5
<1>7. PICK f \in Found : f = k[n]
  BY <1>6
<1>8. Added(ns, c, f, n) /\ Best(ns, f, n)
  BY <1>6, <1>7
<1>9. \A i \in 1..n : i <= n
  OBVIOUS
<1>10. RaisedOf(ns, c, f)
  <2>1. f.total = Rt!SumUpTo(Shares(ns), Len(ns))
    BY <1>1, <1>8 DEF Added
  <2>2. \A i \in 1..Len(ns) : f.cw[ns[i].name] = c[ns[i].name] + Shares(ns)[i]
    BY <1>1, <1>8, <1>9 DEF Added
  <2>3. ASSUME \E i \in 1..Len(ns) : ns[i].healthy
        PROVE  /\ f.best \in 1..Len(ns) /\ ns[f.best].healthy
               /\ \A i \in 1..Len(ns) : ns[i].healthy => f.cw[ns[i].name] <= f.cw[ns[f.best].name]
    BY <1>1, <1>8, <2>3 DEF Best
  <2> QED
    BY <2>1, <2>2, <2>3 DEF RaisedOf
<1> QED
  BY <1>2, <1>7, <1>10

-----------------------------------------------------------------------------
(* The invariant.                                                          *)

\* A configuration names no backend of a group twice: cw_ has one entry for each name.
DistinctNames ==
    \A cfg \in Configs : \A i, j \in 1..Len(cfg) :
        cfg[i].group = cfg[j].group /\ cfg[i].name = cfg[j].name => i = j

Weights(ns) == [i \in 1..Len(ns) |-> ns[i].weight]
Weight(ns)  == Rt!SumUpTo(Weights(ns), Len(ns))
Now(ns, c)  == [i \in 1..Len(ns) |-> c[ns[i].name]]
Length(ns, t) == Rt!SumUpTo(t, Len(ns))

\* What a pick adds it takes off again.
Balanced(ns, c) == Rt!SumUpTo(Now(ns, c), Len(ns)) = 0

\* What a node of weight x is owed after k picks of a round of W, of which it had t, w picks after
\* the last of its own: its current weight c says it, and it is owed no less than nothing of the
\* whole round.  That is what WeightedShare leaves out, and NoStarvation what the node has waited
\* in the round before this one.
Owed(W, k, x, c, t, w) ==
    /\ -W <= c /\ c = k * x - W * t
    /\ t <= x
    /\ x > 0 => w <= (k - t) + (IF t = 0 THEN W - x ELSE 0)

\* A group none of whose nodes is marked
Fair(ns, c, t, w) ==
    /\ \A i \in 1..Len(ns) :
        /\ ns[i].healthy
        /\ Owed(Weight(ns), Length(ns, t), ns[i].weight, c[ns[i].name], t[i], w[i])
    /\ Length(ns, t) = 0 \/ Length(ns, t) < Weight(ns)

RtTypes ==
    /\ config \in Seq([group : Rt!Groups, name : Rt!Names, weight : Nat]) /\ serving \in BOOLEAN
    /\ marks \in Nat
    /\ nodes \in [Rt!Groups -> Seq(Backends)] /\ cw \in [Rt!Groups -> [Rt!Names -> Int]]
    /\ taken \in [Rt!Groups -> Seq(Nat)] /\ waited \in [Rt!Groups -> Seq(Nat)]
    /\ \A g \in Rt!Groups : Len(taken[g]) = Len(nodes[g]) /\ Len(waited[g]) = Len(nodes[g])

\* Every group has a name once, also with the backends that are still to come.
Distinct ==
    /\ \A g \in Rt!Groups : OwnNames(nodes[g])
    /\ \A i, j \in 1..Len(config) :
        config[i].group = config[j].group /\ config[i].name = config[j].name => i = j
    /\ \A g \in Rt!Groups : \A i \in 1..Len(nodes[g]), j \in 1..Len(config) :
        config[j].group = g => config[j].name # nodes[g][i].name

\* Before main() serves, no backend was picked and none is marked.
Untouched ==
    ~serving =>
        /\ marks = 0 /\ last = None
        /\ \A g \in Rt!Groups :
            /\ \A name \in Rt!Names : cw[g][name] = 0
            /\ \A i \in 1..Len(nodes[g]) :
                nodes[g][i].healthy /\ taken[g][i] = 0 /\ waited[g][i] = 0

LastInShare ==
    last # None =>
        /\ last.group \in Rt!Groups /\ last.node \in 1..Len(nodes[last.group])
        /\ marks = 0 /\ Weight(nodes[last.group]) > 0
            => last.count <= nodes[last.group][last.node].weight

RtInv ==
    /\ RtTypes /\ Distinct /\ Untouched /\ LastInShare
    /\ \A g \in Rt!Groups :
        /\ Balanced(nodes[g], cw[g])
        /\ marks = 0 => Fair(nodes[g], cw[g], taken[g], waited[g])

-----------------------------------------------------------------------------
(* A pick.                                                                 *)

\* Nothing is owed before the first pick.
LEMMA OwedNothing ==
    ASSUME NEW W \in Nat, NEW x \in Nat, x <= W
    PROVE  Owed(W, 0, x, 0, 0, 0)
<1>1. 0 * x = 0 /\ W * 0 = 0
  OBVIOUS
<1> QED
  BY <1>1 DEF Owed

\* Another node was picked.
LEMMA OwedMore ==
    ASSUME NEW W \in Nat, NEW k \in Nat, NEW x \in Nat, NEW c \in Int, NEW t \in Nat, NEW w \in Nat,
           Owed(W, k, x, c, t, w)
    PROVE  Owed(W, k + 1, x, c + x, t, w + 1)
<1>1. (k + 1) * x = k * x + x /\ k * x \in Int /\ W * t \in Int
  OBVIOUS
<1> QED
  BY <1>1 DEF Owed

\* The node was picked: it had less than its share.
LEMMA OwedLess ==
    ASSUME NEW W \in Nat, NEW k \in Nat, NEW x \in Nat, NEW c \in Int, NEW t \in Nat, NEW w \in Nat,
           Owed(W, k, x, c, t, w), t <= k, k < W, c + x > 0
    PROVE  t + 1 <= x /\ Owed(W, k + 1, x, c + x - W, t + 1, 0)
<1>1. (k + 1) * x = k * x + x /\ W * (t + 1) = W * t + W /\ k * x \in Int /\ W * t \in Int
  BY TimesPlus
<1>2. (k + 1) * x <= W * x /\ W * x \in Int
  <2>1. W - (k + 1) \in Nat
    OBVIOUS
  <2>2. (W - (k + 1)) * x \in Nat
    BY <2>1, TimesNat
  <2>3. (W - (k + 1)) * x = W * x - (k + 1) * x /\ W * x \in Int /\ (k + 1) * x \in Int
    OBVIOUS
  <2> QED
    BY <2>2, <2>3
<1>3. c = k * x - W * t /\ t <= x
  BY DEF Owed
<1>4. t # x
  BY <1>1, <1>2, <1>3
<1>5. t + 1 <= x
  BY <1>3, <1>4
<1>6. c + x - W = (k + 1) * x - W * (t + 1) /\ -W <= c + x - W
  BY <1>1, <1>3
<1>7. 0 <= (k + 1) - (t + 1) /\ t + 1 # 0
  OBVIOUS
<1> QED
  BY <1>5, <1>6, <1>7 DEF Owed

\* Who has had the whole share is owed nothing, and waits for its part of the next round.
LEMMA OwedEnd ==
    ASSUME NEW W \in Nat, NEW x \in Nat, NEW c \in Int, NEW w \in Nat,
           x <= W, Owed(W, W, x, c, x, w)
    PROVE  c = 0 /\ Owed(W, 0, x, 0, 0, w)
<1>1. W * x - W * x = 0 /\ 0 * x = 0 /\ W * 0 = 0
  <2>1. W * x \in Int
    OBVIOUS
  <2> QED
    BY <2>1
<1> QED
  BY <1>1 DEF Owed

\* The weights of a group: natural numbers, and none above what all weigh.
LEMMA WeightFacts ==
    ASSUME NEW ns \in Seq(Backends)
    PROVE  /\ Len(ns) \in Nat /\ DOMAIN ns = 1..Len(ns) /\ Weight(ns) \in Nat
           /\ \A i \in 1..Len(ns) :
                /\ ns[i].name \in Rt!Names /\ ns[i].weight \in Nat /\ Weights(ns)[i] = ns[i].weight
                /\ Shares(ns)[i] \in Nat /\ ns[i].weight <= Weight(ns)
<1>1. Len(ns) \in Nat /\ DOMAIN ns = 1..Len(ns)
  BY LenProperties
<1>2. \A i \in 1..Len(ns) : ns[i].name \in Rt!Names /\ ns[i].weight \in Nat
  <2>1. \A i \in 1..Len(ns) : ns[i] \in Backends
    BY ElementOfSeq
  <2> QED
    BY <2>1 DEF Backends
<1>3. \A i \in 1..Len(ns) : Weights(ns)[i] = ns[i].weight /\ Weights(ns)[i] \in Nat
  BY <1>2 DEF Weights
<1>4. Weight(ns) \in Nat /\ \A i \in 1..Len(ns) : Weights(ns)[i] <= Weight(ns)
  BY <1>1, <1>3, SumBounds DEF Weight
<1>5. \A i \in 1..Len(ns) : Shares(ns)[i] \in Nat
  BY <1>2 DEF Shares
<1> QED
  BY <1>1, <1>2, <1>3, <1>4, <1>5

\* The sum of the current weights after the loop.
LEMMA RaisedSum ==
    ASSUME NEW ns \in Seq(Backends), NEW c \in [Rt!Names -> Int], NEW r \in [Rt!Names -> Int],
           Balanced(ns, c),
           \A i \in 1..Len(ns) : r[ns[i].name] = c[ns[i].name] + Shares(ns)[i]
    PROVE  Rt!SumUpTo(Now(ns, r), Len(ns)) = Rt!SumUpTo(Shares(ns), Len(ns))
<1>1. PICK n \in Nat :
        n = Len(ns) /\ \A i \in 1..n : ns[i].name \in Rt!Names /\ Shares(ns)[i] \in Nat
  BY WeightFacts
<1>2. \A i \in 1..n : /\ Now(ns, c)[i] \in Int /\ Shares(ns)[i] \in Int
                      /\ Now(ns, r)[i] = Now(ns, c)[i] + Shares(ns)[i]
  BY <1>1 DEF Now
<1>3. Rt!SumUpTo(Now(ns, r), n) = Rt!SumUpTo(Now(ns, c), n) + Rt!SumUpTo(Shares(ns), n)
  BY <1>2, SumPlus
<1>4. Rt!SumUpTo(Shares(ns), n) \in Int
  BY <1>1, SumStep
<1> QED
  BY <1>1, <1>3, <1>4 DEF Balanced

\* A pick takes off what it added.
LEMMA PickBalanced ==
    ASSUME NEW ns \in Seq(Backends), NEW c \in [Rt!Names -> Int], NEW r \in [Rt!Names -> Int],
           OwnNames(ns), Balanced(ns, c),
           \A i \in 1..Len(ns) : r[ns[i].name] = c[ns[i].name] + Shares(ns)[i],
           NEW b \in 1..Len(ns), NEW total \in Int, total = Rt!SumUpTo(Shares(ns), Len(ns))
    PROVE  Balanced(ns, [r EXCEPT ![ns[b].name] = @ - total])
<1> DEFINE e == [r EXCEPT ![ns[b].name] = @ - total]
<1>1. PICK n \in Nat : n = Len(ns) /\ \A i \in 1..n : ns[i].name \in Rt!Names
  BY WeightFacts
<1>2. PICK d \in Int, m \in 1..n : d = -total /\ m = b
  BY <1>1
<1>3. \A i \in 1..n : e[ns[i].name] = IF i = m THEN r[ns[i].name] + d ELSE r[ns[i].name]
  BY <1>1, <1>2 DEF OwnNames
<1> HIDE DEF e
<1>4. PICK f, h : f = Now(ns, r) /\ h = Now(ns, e)
  OBVIOUS
<1>5. Shifted(f, h, m, d, n)
  BY <1>1, <1>3, <1>4 DEF Now, Shifted
<1>6. Rt!SumUpTo(h, n) = Rt!SumUpTo(f, n) + d
  BY <1>5, SumShift
<1>7. Rt!SumUpTo(f, n) = total
  BY <1>1, <1>4, RaisedSum
<1> QED
  BY <1>1, <1>2, <1>4, <1>6, <1>7 DEF Balanced, e

\* A group with nothing marked is fair before its first pick.
LEMMA ZeroFair ==
    ASSUME NEW ns \in Seq(Backends), NEW c \in [Rt!Names -> Int], NEW t, NEW w,
           \A name \in Rt!Names : c[name] = 0,
           \A i \in 1..Len(ns) : ns[i].healthy /\ t[i] = 0 /\ w[i] = 0
    PROVE  Balanced(ns, c) /\ Fair(ns, c, t, w)
<1>1. PICK n \in Nat : n = Len(ns)
  BY WeightFacts
<1>2. \A i \in 1..n : ns[i].name \in Rt!Names
  BY <1>1, WeightFacts
<1>3. \A i \in 1..n : Now(ns, c)[i] = 0
  BY <1>1, <1>2 DEF Now
<1>4. n * 0 = 0
  OBVIOUS
<1>5. Rt!SumUpTo(Now(ns, c), n) = 0
  BY <1>3, <1>4, SumConst
<1>6. Rt!SumUpTo(t, n) = 0
  <2>1. \A i \in 1..n : t[i] = 0
    BY <1>1
  <2> QED
    BY <1>4, <2>1, SumConst
<1>7. PICK W \in Nat : W = Weight(ns)
  BY WeightFacts
<1>8. Length(ns, t) = 0
  BY <1>1, <1>6 DEF Length
<1>9. ASSUME NEW i \in 1..n
      PROVE  ns[i].healthy /\ Owed(W, 0, ns[i].weight, c[ns[i].name], t[i], w[i])
  <2>1. ns[i].healthy /\ t[i] = 0 /\ w[i] = 0 /\ c[ns[i].name] = 0
    BY <1>1, <1>2
  <2>2. ns[i].weight \in Nat /\ ns[i].weight <= W
    BY <1>1, <1>7, WeightFacts
  <2> QED
    BY <2>1, <2>2, OwedNothing
<1> QED
  BY <1>1, <1>5, <1>7, <1>8, <1>9 DEF Balanced, Fair

\* Who has the most after all were raised has something.
LEMMA MostIsPositive ==
    ASSUME NEW l \in Nat, NEW x \in [1..l -> Nat], NEW c \in [1..l -> Int], NEW b \in 1..l,
           Rt!SumUpTo(x, l) > 0, Rt!SumUpTo(c, l) = 0,
           \A i \in 1..l : c[i] + x[i] <= c[b] + x[b]
    PROVE  c[b] + x[b] > 0
<1> DEFINE r == [i \in 1..l |-> c[i] + x[i]]
<1>1. r \in [1..l -> Int] /\ \A i \in 1..l : r[i] = c[i] + x[i] /\ c[i] \in Int /\ x[i] \in Int
  OBVIOUS
<1> HIDE DEF r
<1>2. Rt!SumUpTo(r, l) = Rt!SumUpTo(c, l) + Rt!SumUpTo(x, l)
  BY <1>1, SumPlus
<1>3. Rt!SumUpTo(x, l) \in Int
  BY <1>1, SumStep
<1>4. ASSUME ~(c[b] + x[b] > 0) PROVE FALSE
  <2>1. \A i \in 1..l : r[i] \in Int /\ r[i] <= 0
    BY <1>1, <1>4
  <2>2. Rt!SumUpTo(r, l) <= 0
    BY <2>1, SumNegative
  <2> QED
    BY <1>2, <1>3, <2>2
<1> QED
  BY <1>4

\* The nodes of a group in a round: x is what they weigh, c their current weights, t and w what
\* has been picked and waited.
Round(l, x, c, t, w, W, k) ==
    /\ x \in [1..l -> Nat] /\ c \in [1..l -> Int] /\ t \in [1..l -> Nat] /\ w \in [1..l -> Nat]
    /\ W = Rt!SumUpTo(x, l) /\ k = Rt!SumUpTo(t, l) /\ Rt!SumUpTo(c, l) = 0
    /\ k = 0 \/ k < W
    /\ \A i \in 1..l : Owed(W, k, x[i], c[i], t[i], w[i])

\* Node b has been picked: it had the most.
Chosen(l, x, c, t, w, W, b, n, e, v) ==
    /\ \A i \in 1..l : c[i] + x[i] <= c[b] + x[b]
    /\ n \in [1..l -> Nat] /\ e \in [1..l -> Int] /\ v \in [1..l -> Nat]
    /\ \A i \in 1..l : n[i] = IF i = b THEN t[i] + 1 ELSE t[i]
    /\ \A i \in 1..l : e[i] = IF i = b THEN c[i] + x[i] - W ELSE c[i] + x[i]
    /\ \A i \in 1..l : v[i] = IF i = b THEN 0 ELSE w[i] + 1

\* A pick is fair: the node is owed something of the round, and the round ends with every node
\* having had what it weighs.
LEMMA RoundStep ==
    ASSUME NEW l \in Nat, NEW b \in 1..l, NEW W \in Nat, NEW k \in Nat,
           NEW x, NEW c, NEW t, NEW w, NEW n, NEW e, NEW v,
           Round(l, x, c, t, w, W, k), Chosen(l, x, c, t, w, W, b, n, e, v)
    PROVE  /\ Rt!SumUpTo(n, l) = k + 1
           /\ W > 0 => n[b] <= x[b]
           /\ k + 1 >= W => \A i \in 1..l : Owed(W, 0, x[i], e[i], 0, v[i])
           /\ k + 1 < W => \A i \in 1..l : Owed(W, k + 1, x[i], e[i], n[i], v[i])
<1>1. x \in [1..l -> Nat] /\ c \in [1..l -> Int] /\ t \in [1..l -> Nat] /\ w \in [1..l -> Nat]
  BY DEF Round
<1>2. n \in [1..l -> Nat] /\ e \in [1..l -> Int] /\ v \in [1..l -> Nat]
  BY DEF Chosen
<1>3. \A i \in 1..l : t[i] <= k /\ x[i] <= W
  <2>1. \A i \in 1..l : t[i] <= k
    <3>1. k = Rt!SumUpTo(t, l)
      BY DEF Round
    <3> QED
      BY <1>1, <3>1, SumBounds
  <2>2. \A i \in 1..l : x[i] <= W
    <3>1. W = Rt!SumUpTo(x, l)
      BY DEF Round
    <3> QED
      BY <1>1, <3>1, SumBounds
  <2> QED
    BY <2>1, <2>2
<1>4. k = 0 \/ k < W
  BY DEF Round
<1>5. \A i \in 1..l : Owed(W, k, x[i], c[i], t[i], w[i])
  BY DEF Round
<1>6. /\ n[b] = t[b] + 1 /\ e[b] = c[b] + x[b] - W /\ v[b] = 0
      /\ \A i \in 1..l : i # b => n[i] = t[i] /\ e[i] = c[i] + x[i] /\ v[i] = w[i] + 1
  BY DEF Chosen
<1>7. Rt!SumUpTo(n, l) = k + 1
  <2>1. Shifted(t, n, b, 1, l)
    BY <1>1 DEF Chosen, Shifted
  <2>2. Rt!SumUpTo(n, l) = Rt!SumUpTo(t, l) + 1
    BY <2>1, SumShift
  <2> QED
    BY <2>2 DEF Round
<1>8. CASE W = 0
  <2>1. k = 0
    BY <1>4, <1>8
  <2>2. ASSUME NEW i \in 1..l PROVE Owed(W, 0, x[i], e[i], 0, v[i])
    <3>1. PICK y \in Nat, d \in Int, p \in Nat : y = x[i] /\ d = c[i] /\ p = t[i]
      BY <1>1
    <3>2. y = 0
      BY <1>3, <1>8, <3>1
    <3>3. d = 0 * y - 0 * p
      BY <1>5, <1>8, <2>1, <3>1 DEF Owed
    <3>4. d = 0
      BY <3>3
    <3>5. e[i] = 0
      <4>1. CASE i = b
        <5>1. e[i] = d + y - W
          BY <1>6, <3>1, <4>1
        <5> QED
          BY <1>8, <3>2, <3>4, <5>1
      <4>2. CASE i # b
        <5>1. e[i] = d + y
          BY <1>6, <3>1, <4>2
        <5> QED
          BY <3>2, <3>4, <5>1
      <4> QED
        BY <4>1, <4>2
    <3> QED
      BY <1>8, <3>1, <3>2, <3>5 DEF Owed
  <2> QED
    BY <1>7, <1>8, <2>1, <2>2
<1>9. CASE W > 0
  <2>1. k < W
    BY <1>4, <1>9
  <2>2. c[b] + x[b] > 0
    <3>1. Rt!SumUpTo(x, l) > 0 /\ Rt!SumUpTo(c, l) = 0
      BY <1>9 DEF Round
    <3>2. \A i \in 1..l : c[i] + x[i] <= c[b] + x[b]
      BY DEF Chosen
    <3> QED
      BY <1>1, <3>1, <3>2, MostIsPositive
  <2>3. n[b] <= x[b] /\ Owed(W, k + 1, x[b], e[b], n[b], v[b])
    <3>1. PICK y \in Nat, d \in Int, p \in Nat, z \in Nat :
            y = x[b] /\ d = c[b] /\ p = t[b] /\ z = w[b] /\ p <= k
      BY <1>1, <1>3
    <3>2. Owed(W, k, y, d, p, z) /\ d + y > 0
      BY <1>5, <2>2, <3>1
    <3>3. p + 1 <= y /\ Owed(W, k + 1, y, d + y - W, p + 1, 0)
      BY <2>1, <3>1, <3>2, OwedLess
    <3> QED
      BY <1>6, <3>1, <3>3
  <2>4. ASSUME NEW i \in 1..l PROVE n[i] <= x[i] /\ Owed(W, k + 1, x[i], e[i], n[i], v[i])
    <3>1. CASE i = b
      BY <2>3, <3>1
    <3>2. CASE i # b
      <4>1. PICK y \in Nat, d \in Int, p \in Nat, z \in Nat :
              y = x[i] /\ d = c[i] /\ p = t[i] /\ z = w[i]
        BY <1>1
      <4>2. Owed(W, k, y, d, p, z)
        BY <1>5, <4>1
      <4>3. Owed(W, k + 1, y, d + y, p, z + 1)
        BY <4>2, OwedMore
      <4>4. p <= y
        BY <4>2 DEF Owed
      <4>5. n[i] = p /\ e[i] = d + y /\ v[i] = z + 1
        BY <1>6, <3>2, <4>1
      <4> QED
        BY <4>1, <4>3, <4>4, <4>5
    <3> QED
      BY <3>1, <3>2
  <2>5. ASSUME k + 1 >= W, NEW i \in 1..l PROVE Owed(W, 0, x[i], e[i], 0, v[i])
    <3>1. k + 1 = W
      BY <2>1, <2>5
    <3>2. n[i] = x[i]
      <4>1. ASSUME NEW j \in 1..l PROVE n[j] \in Int /\ x[j] \in Int
        <5>1. PICK p \in Nat, y \in Nat : p = n[j] /\ y = x[j]
          BY <1>1, <1>2
        <5> QED
          BY <5>1
      <4>2. \A j \in 1..l : n[j] <= x[j]
        BY <2>4
      <4>3. Rt!SumUpTo(x, l) = Rt!SumUpTo(n, l)
        BY <1>7, <3>1 DEF Round
      <4>4. \A j \in 1..l : n[j] = x[j]
        BY <4>1, <4>2, <4>3, SumLacks
      <4> QED
        BY <4>4
    <3>3. PICK y \in Nat, d \in Int, z \in Nat : y = x[i] /\ d = e[i] /\ z = v[i] /\ y <= W
      BY <1>1, <1>2, <1>3
    <3>4. Owed(W, W, y, d, y, z)
      BY <2>4, <3>1, <3>2, <3>3
    <3>5. d = 0 /\ Owed(W, 0, y, 0, 0, z)
      BY <3>3, <3>4, OwedEnd
    <3> QED
      BY <3>3, <3>5
  <2> QED
    BY <1>7, <2>3, <2>4, <2>5
<1> QED
  BY <1>8, <1>9

\* What pick() makes of a group: r is what the loop makes of its current weights c, e what is left
\* of them, n what has been picked in the round, u what counts after it.
PickOf(ns, c, t, w, b, r, n, e, u, v) ==
    /\ \A i \in 1..Len(ns) : r[ns[i].name] = c[ns[i].name] + Shares(ns)[i]
    /\ \A i \in 1..Len(ns) : ns[i].healthy => r[ns[i].name] <= r[ns[b].name]
    /\ e = [r EXCEPT ![ns[b].name] = @ - Rt!SumUpTo(Shares(ns), Len(ns))]
    /\ t \in [1..Len(ns) -> Nat] /\ w \in [1..Len(ns) -> Nat]
    /\ n = [t EXCEPT ![b] = @ + 1]
    /\ u = IF Rt!SumUpTo(n, Len(ns)) >= Rt!SumUpTo(Shares(ns), Len(ns))
           THEN [j \in 1..Len(ns) |-> 0] ELSE n
    /\ v = [j \in 1..Len(ns) |-> IF j = b THEN 0 ELSE w[j] + 1]

\* What is said of a group stays true.
LEMMA PickFair ==
    ASSUME NEW ns \in Seq(Backends), NEW c \in [Rt!Names -> Int], NEW r \in [Rt!Names -> Int],
           OwnNames(ns), Balanced(ns, c), NEW b \in 1..Len(ns),
           NEW t, NEW w, Fair(ns, c, t, w), NEW n, NEW e, NEW u, NEW v,
           PickOf(ns, c, t, w, b, r, n, e, u, v)
    PROVE  /\ Fair(ns, e, u, v)
           /\ Weight(ns) > 0 => n[b] <= ns[b].weight
<1>1. PICK l \in Nat : l = Len(ns)
  BY WeightFacts
<1>2. PICK W \in Nat : W = Weight(ns)
  BY WeightFacts
<1>3. b \in 1..l /\ t \in [1..l -> Nat] /\ w \in [1..l -> Nat]
  BY <1>1 DEF PickOf
<1>4. \A i \in 1..l : ns[i].name \in Rt!Names /\ ns[i].weight \in Nat
  BY <1>1, WeightFacts
<1>5. PICK k \in Nat : k = Rt!SumUpTo(t, l)
  <2>1. \A i \in 1..l : t[i] \in Nat
    BY <1>3
  <2> QED
    BY <2>1, SumBounds
<1>6. \A i \in 1..l : ns[i].healthy /\ Owed(W, k, ns[i].weight, c[ns[i].name], t[i], w[i])
  BY <1>1, <1>2, <1>5 DEF Fair, Length
<1>7. k = 0 \/ k < W
  BY <1>1, <1>2, <1>5 DEF Fair, Length
<1>8. PICK x \in [1..l -> Nat] :
        x = Weights(ns) /\ x = Shares(ns) /\ \A i \in 1..l : x[i] = ns[i].weight
  <2>1. Weights(ns) = [i \in 1..l |-> ns[i].weight]
    BY <1>1 DEF Weights
  <2>2. Shares(ns) = [i \in 1..l |-> ns[i].weight]
    BY <1>1, <1>6 DEF Shares
  <2>3. [i \in 1..l |-> ns[i].weight] \in [1..l -> Nat]
    BY <1>4
  <2> QED
    BY <2>1, <2>2, <2>3
<1>9. W = Rt!SumUpTo(x, l)
  BY <1>1, <1>2, <1>8 DEF Weight
<1>10. PICK d \in [1..l -> Int] : d = Now(ns, c) /\ \A i \in 1..l : d[i] = c[ns[i].name]
  <2>1. Now(ns, c) = [i \in 1..l |-> c[ns[i].name]]
    BY <1>1 DEF Now
  <2>2. [i \in 1..l |-> c[ns[i].name]] \in [1..l -> Int]
    BY <1>4
  <2> QED
    BY <2>1, <2>2
<1>11. /\ e \in [Rt!Names -> Int]
       /\ \A i \in 1..l : e[ns[i].name] = IF i = b THEN r[ns[i].name] - W ELSE r[ns[i].name]
  <2>1. e = [r EXCEPT ![ns[b].name] = @ - W]
    BY <1>1, <1>8, <1>9 DEF PickOf
  <2> QED
    BY <1>1, <1>3, <1>4, <2>1 DEF OwnNames
<1>12. PICK p \in [1..l -> Int] : \A i \in 1..l : p[i] = e[ns[i].name]
  <2>1. [i \in 1..l |-> e[ns[i].name]] \in [1..l -> Int]
    BY <1>4, <1>11
  <2> QED
    BY <2>1
<1>13. Round(l, x, d, t, w, W, k)
  <2>1. Rt!SumUpTo(d, l) = 0
    BY <1>1, <1>10 DEF Balanced
  <2>2. \A i \in 1..l : Owed(W, k, x[i], d[i], t[i], w[i])
    BY <1>6, <1>8, <1>10
  <2> QED
    BY <1>3, <1>5, <1>7, <1>9, <2>1, <2>2 DEF Round
<1>14. \A i \in 1..l : r[ns[i].name] = d[i] + x[i] /\ r[ns[i].name] <= r[ns[b].name]
  BY <1>1, <1>6, <1>8, <1>10 DEF PickOf
<1>15. n \in [1..l -> Nat] /\ \A i \in 1..l : n[i] = IF i = b THEN t[i] + 1 ELSE t[i]
  <2>1. n = [t EXCEPT ![b] = @ + 1]
    BY DEF PickOf
  <2> QED
    BY <1>3, <2>1
<1>16. v \in [1..l -> Nat] /\ \A i \in 1..l : v[i] = IF i = b THEN 0 ELSE w[i] + 1
  <2>1. v = [i \in 1..l |-> IF i = b THEN 0 ELSE w[i] + 1]
    BY <1>1 DEF PickOf
  <2> QED
    BY <1>3, <2>1
<1>17. Chosen(l, x, d, t, w, W, b, n, p, v)
  <2>1. ASSUME NEW i \in 1..l PROVE d[i] + x[i] <= d[b] + x[b]
    BY <1>3, <1>14
  <2>2. ASSUME NEW i \in 1..l PROVE p[i] = IF i = b THEN d[i] + x[i] - W ELSE d[i] + x[i]
    <3>1. CASE i = b
      <4>1. p[i] = r[ns[i].name] - W
        BY <1>11, <1>12, <3>1
      <4>2. r[ns[i].name] = d[i] + x[i]
        BY <1>14
      <4> QED
        BY <3>1, <4>1, <4>2
    <3>2. CASE i # b
      <4>1. p[i] = r[ns[i].name]
        BY <1>11, <1>12, <3>2
      <4>2. r[ns[i].name] = d[i] + x[i]
        BY <1>14
      <4> QED
        BY <3>2, <4>1, <4>2
    <3> QED
      BY <3>1, <3>2
  <2> QED
    BY <1>15, <1>16, <2>1, <2>2 DEF Chosen
<1>18. /\ Rt!SumUpTo(n, l) = k + 1
       /\ W > 0 => n[b] <= x[b]
       /\ k + 1 >= W => \A i \in 1..l : Owed(W, 0, x[i], p[i], 0, v[i])
       /\ k + 1 < W => \A i \in 1..l : Owed(W, k + 1, x[i], p[i], n[i], v[i])
  BY <1>3, <1>13, <1>17, RoundStep
<1>19. u = IF k + 1 >= W THEN [j \in 1..l |-> 0] ELSE n
  BY <1>1, <1>8, <1>9, <1>18 DEF PickOf
<1>20. CASE k + 1 >= W
  <2>1. \A i \in 1..l : u[i] = 0
    BY <1>19, <1>20
  <2>2. Length(ns, u) = 0
    <3>1. l * 0 = 0
      OBVIOUS
    <3> QED
      BY <1>1, <2>1, <3>1, SumConst DEF Length
  <2>3. \A i \in 1..l : ns[i].healthy /\ Owed(W, 0, ns[i].weight, e[ns[i].name], u[i], v[i])
    BY <1>6, <1>8, <1>12, <1>18, <1>20, <2>1
  <2> QED
    BY <1>1, <1>2, <1>3, <1>8, <1>18, <2>2, <2>3 DEF Fair
<1>21. CASE ~(k + 1 >= W)
  <2>1. u = n /\ k + 1 < W
    BY <1>19, <1>21
  <2>2. Length(ns, u) = k + 1
    BY <1>1, <1>18, <2>1 DEF Length
  <2>3. \A i \in 1..l : ns[i].healthy /\ Owed(W, k + 1, ns[i].weight, e[ns[i].name], u[i], v[i])
    BY <1>6, <1>8, <1>12, <1>18, <2>1
  <2> QED
    BY <1>1, <1>2, <1>3, <1>8, <1>18, <2>1, <2>2, <2>3 DEF Fair
<1> QED
  BY <1>20, <1>21

-----------------------------------------------------------------------------
(* The steps.                                                              *)

\* pick() in a group keeps what is said of the group.
LEMMA PickStep ==
    ASSUME RtInv, NEW g \in Rt!Groups, Rt!HasHealthy(g), Rt!Pick(g)
    PROVE  /\ cw' \in [Rt!Groups -> [Rt!Names -> Int]]
           /\ taken' \in [Rt!Groups -> Seq(Nat)] /\ waited' \in [Rt!Groups -> Seq(Nat)]
           /\ \A h \in Rt!Groups : Len(taken'[h]) = Len(nodes[h]) /\ Len(waited'[h]) = Len(nodes[h])
           /\ \A h \in Rt!Groups :
                /\ Balanced(nodes[h], cw'[h])
                /\ marks = 0 => Fair(nodes[h], cw'[h], taken'[h], waited'[h])
           /\ last'.group = g /\ last'.node \in 1..Len(nodes[g])
           /\ marks = 0 /\ Weight(nodes[g]) > 0 => last'.count <= nodes[g][last'.node].weight
<1>1. PICK ns \in Seq(Backends) : ns = nodes[g]
  BY DEF RtInv, RtTypes
<1>2. PICK c \in [Rt!Names -> Int] : c = cw[g]
  BY DEF RtInv, RtTypes
<1>3. PICK l \in Nat : l = Len(ns) /\ DOMAIN ns = 1..l
  BY WeightFacts
<1>4. PICK t \in [1..l -> Nat], w \in [1..l -> Nat] : t = taken[g] /\ w = waited[g]
  <2>1. taken[g] \in Seq(Nat) /\ waited[g] \in Seq(Nat) /\ Len(taken[g]) = l /\ Len(waited[g]) = l
    BY <1>1, <1>3 DEF RtInv, RtTypes
  <2>2. taken[g] \in [1..l -> Nat] /\ waited[g] \in [1..l -> Nat]
    BY <2>1, LenProperties
  <2> QED
    BY <2>2
<1>5. OwnNames(ns) /\ Balanced(ns, c) /\ (marks = 0 => Fair(ns, c, t, w))
  BY <1>1, <1>2, <1>4 DEF RtInv, Distinct
<1>6. PICK f \in Found : f = Rt!Raised(g) /\ RaisedOf(ns, c, f)
  BY <1>1, <1>2, <1>5, RaisedFacts
<1>7. PICK r \in [Rt!Names -> Int], total \in Nat, b \in 1..l :
        /\ r = f.cw /\ total = f.total /\ b = f.best
        /\ total = Rt!SumUpTo(Shares(ns), l)
        /\ \A i \in 1..l : r[ns[i].name] = c[ns[i].name] + Shares(ns)[i]
        /\ \A i \in 1..l : ns[i].healthy => r[ns[i].name] <= r[ns[b].name]
  <2>1. /\ f.total = Rt!SumUpTo(Shares(ns), l)
        /\ \A i \in 1..l : f.cw[ns[i].name] = c[ns[i].name] + Shares(ns)[i]
        /\ f.best \in 1..l
        /\ \A i \in 1..l : ns[i].healthy => f.cw[ns[i].name] <= f.cw[ns[f.best].name]
    <3>1. \E i \in 1..l : ns[i].healthy
      BY <1>1, <1>3 DEF Rt!HasHealthy
    <3> QED
      BY <1>3, <1>6, <3>1 DEF RaisedOf
  <2>2. f.cw \in [Rt!Names -> Int] /\ f.total \in Nat
    BY DEF Found
  <2> QED
    BY <2>1, <2>2
<1>8. PICK e : e = [r EXCEPT ![ns[b].name] = @ - total] /\ cw' = [cw EXCEPT ![g] = e]
  BY <1>1, <1>6, <1>7 DEF Rt!Pick, Rt!Lowered
<1>9. PICK n : n = [t EXCEPT ![b] = @ + 1]
  OBVIOUS
<1>10. PICK u : u = (IF Rt!SumUpTo(n, l) >= total THEN [j \in 1..l |-> 0] ELSE n)
                /\ taken' = [taken EXCEPT ![g] = u]
  <2>1. Rt!Healthy(g) = total
    BY <1>1, <1>3, <1>7 DEF Rt!Healthy, Shares
  <2>2. Rt!Count(g, b)
    BY <1>6, <1>7 DEF Rt!Pick
  <2>3. DOMAIN n = 1..l
    BY <1>9
  <2> QED
    BY <1>1, <1>3, <1>4, <1>9, <2>1, <2>2, <2>3 DEF Rt!Count
<1>11. PICK v : /\ v = [j \in 1..l |-> IF j = b THEN 0 ELSE w[j] + 1]
                /\ waited' = [waited EXCEPT ![g] = v]
  <2>1. Rt!Count(g, b)
    BY <1>6, <1>7 DEF Rt!Pick
  <2>2. DOMAIN n = 1..l
    BY <1>9
  <2> QED
    BY <1>1, <1>3, <1>4, <1>9, <2>1, <2>2 DEF Rt!Count
<1>12. last'.group = g /\ last'.node = b /\ last'.count = n[b]
  BY <1>4, <1>6, <1>7, <1>9 DEF Rt!Pick, Rt!Count
<1>13. \A i \in 1..l : ns[i].name \in Rt!Names
  BY <1>3, WeightFacts
<1>14. e \in [Rt!Names -> Int]
  BY <1>7, <1>8, <1>13
<1>15. n \in [1..l -> Nat]
  BY <1>9
<1>16. u \in Seq(Nat) /\ Len(u) = l
  <2>1. u \in [1..l -> Nat]
    BY <1>10, <1>15
  <2> QED
    BY <2>1, FunctionIsSeq
<1>17. v \in Seq(Nat) /\ Len(v) = l
  <2>1. v \in [1..l -> Nat]
    BY <1>11
  <2> QED
    BY <2>1, FunctionIsSeq
<1>18. Balanced(ns, e)
  <2>1. \A i \in 1..Len(ns) : r[ns[i].name] = c[ns[i].name] + Shares(ns)[i]
    BY <1>3, <1>7
  <2>2. b \in 1..Len(ns) /\ total \in Int /\ total = Rt!SumUpTo(Shares(ns), Len(ns))
    BY <1>3, <1>7
  <2>3. Balanced(ns, [r EXCEPT ![ns[b].name] = @ - total])
    BY <1>5, <2>1, <2>2, PickBalanced
  <2> QED
    BY <1>8, <2>3
<1>19. marks = 0 => Fair(ns, e, u, v) /\ (Weight(ns) > 0 => n[b] <= ns[b].weight)
  <2> SUFFICES ASSUME marks = 0
               PROVE  Fair(ns, e, u, v) /\ (Weight(ns) > 0 => n[b] <= ns[b].weight)
    OBVIOUS
  <2>1. PickOf(ns, c, t, w, b, r, n, e, u, v)
    BY <1>3, <1>7, <1>8, <1>9, <1>10, <1>11 DEF PickOf
  <2>2. Fair(ns, c, t, w) /\ b \in 1..Len(ns)
    BY <1>3, <1>5
  <2> QED
    BY <1>5, <2>1, <2>2, PickFair
<1>20. /\ cw \in [Rt!Groups -> [Rt!Names -> Int]]
       /\ taken \in [Rt!Groups -> Seq(Nat)] /\ waited \in [Rt!Groups -> Seq(Nat)]
  BY DEF RtInv, RtTypes
<1>21. \A h \in Rt!Groups :
         /\ h = g => cw'[h] = e /\ taken'[h] = u /\ waited'[h] = v
         /\ h # g => cw'[h] = cw[h] /\ taken'[h] = taken[h] /\ waited'[h] = waited[h]
  BY <1>8, <1>10, <1>11, <1>20
<1>22. /\ cw' \in [Rt!Groups -> [Rt!Names -> Int]]
       /\ taken' \in [Rt!Groups -> Seq(Nat)] /\ waited' \in [Rt!Groups -> Seq(Nat)]
  BY <1>8, <1>10, <1>11, <1>14, <1>16, <1>17, <1>20
<1>23. ASSUME NEW h \in Rt!Groups
       PROVE  /\ Len(taken'[h]) = Len(nodes[h]) /\ Len(waited'[h]) = Len(nodes[h])
              /\ Balanced(nodes[h], cw'[h])
              /\ marks = 0 => Fair(nodes[h], cw'[h], taken'[h], waited'[h])
  <2>1. CASE h = g
    BY <1>1, <1>3, <1>16, <1>17, <1>18, <1>19, <1>21, <2>1
  <2>2. CASE h # g
    BY <1>21, <2>2 DEF RtInv, RtTypes
  <2> QED
    BY <2>1, <2>2
<1>24. marks = 0 /\ Weight(nodes[g]) > 0 => last'.count <= nodes[g][last'.node].weight
  BY <1>1, <1>12, <1>19
<1> QED
  BY <1>1, <1>3, <1>12, <1>22, <1>23, <1>24

\* Backends of the configuration become nodes.
BackendsIn == [group : Rt!Groups, name : Rt!Names, weight : Nat]

\* u is s with one element more.
Longer(u, s, x) ==
    Len(u) = Len(s) + 1 /\ u[Len(s) + 1] = x /\ \A i \in 1..Len(s) : u[i] = s[i]

LEMMA Appended ==
    ASSUME NEW S, NEW s \in Seq(S), NEW x \in S
    PROVE  Append(s, x) \in Seq(S) /\ Longer(Append(s, x), s, x)
<1>1. Append(s, x) \in Seq(S) /\ Len(Append(s, x)) = Len(s) + 1
  BY AppendAt
<1>2. Append(s, x)[Len(s) + 1] = x
  BY AppendAt
<1>3. \A i \in 1..Len(s) : Append(s, x)[i] = s[i]
  BY AppendAt
<1> QED
  BY <1>1, <1>2, <1>3 DEF Longer

\* A backend is registered.
LEMMA RegisterStep ==
    ASSUME RtInv, Rt!Register
    PROVE  RtInv'
<1>1. /\ ~serving /\ config # <<>> /\ config' = Tail(config)
      /\ UNCHANGED <<serving, cw, marks, last>>
  BY DEF Rt!Register
<1>2. RtTypes /\ Distinct /\ marks = 0 /\ last = None
      /\ \A h \in Rt!Groups :
            /\ \A name \in Rt!Names : cw[h][name] = 0
            /\ \A i \in 1..Len(nodes[h]) : nodes[h][i].healthy /\ taken[h][i] = 0 /\ waited[h][i] = 0
  BY <1>1 DEF RtInv, Untouched
<1>3. PICK cfg \in Seq(BackendsIn) : cfg = config
  BY <1>2 DEF RtTypes, BackendsIn
<1>4. PICK be \in BackendsIn : be = Head(config)
  BY <1>1, <1>3, TailAt
<1>5. PICK g \in Rt!Groups : g = be.group
  BY DEF BackendsIn
<1>6. PICK node \in Backends : node = Rt!Node(be) /\ node.name = be.name /\ node.healthy
  <2>1. be.name \in Rt!Names /\ be.weight \in Nat
    BY DEF BackendsIn
  <2>2. Rt!Node(be) \in Backends /\ Rt!Node(be).name = be.name /\ Rt!Node(be).healthy = TRUE
    BY <2>1 DEF Backends, Rt!Node
  <2> QED
    BY <2>2
<1>7. /\ nodes' = [nodes EXCEPT ![g] = Append(@, node)]
      /\ taken' = [taken EXCEPT ![g] = Append(@, 0)]
      /\ waited' = [waited EXCEPT ![g] = Append(@, 0)]
  BY <1>4, <1>5, <1>6 DEF Rt!Register
<1>8. /\ cfg # <<>> /\ Tail(cfg) \in Seq(BackendsIn) /\ be = cfg[1]
      /\ Len(cfg) \in Nat /\ Len(cfg) >= 1 /\ Len(Tail(cfg)) = Len(cfg) - 1
      /\ \A i \in 1..(Len(cfg) - 1) : Tail(cfg)[i] = cfg[i + 1]
  BY <1>1, <1>3, <1>4, TailAt
<1>9. PICK ns \in Seq(Backends), t \in Seq(Nat), w \in Seq(Nat) :
        /\ ns = nodes[g] /\ t = taken[g] /\ w = waited[g] /\ Len(t) = Len(ns) /\ Len(w) = Len(ns)
  BY <1>2 DEF RtTypes
<1>10. PICK l \in Nat : l = Len(ns)
  BY WeightFacts
<1>11. PICK ms \in Seq(Backends) : ms = Append(ns, node) /\ Longer(ms, ns, node)
  <2>1. Append(ns, node) \in Seq(Backends) /\ Longer(Append(ns, node), ns, node)
    BY Appended
  <2> QED
    BY <2>1
<1>12. PICK u \in Seq(Nat), v \in Seq(Nat) :
         u = Append(t, 0) /\ Longer(u, t, 0) /\ v = Append(w, 0) /\ Longer(v, w, 0)
  <2>1. 0 \in Nat
    OBVIOUS
  <2>2. Append(t, 0) \in Seq(Nat) /\ Longer(Append(t, 0), t, 0)
    BY <2>1, Appended
  <2>3. Append(w, 0) \in Seq(Nat) /\ Longer(Append(w, 0), w, 0)
    BY <2>1, Appended
  <2> QED
    BY <2>2, <2>3
<1>13. Len(ms) = l + 1 /\ ms[l + 1] = node /\ \A i \in 1..l : ms[i] = ns[i]
  BY <1>10, <1>11 DEF Longer
<1>14. /\ Len(u) = l + 1 /\ u[l + 1] = 0 /\ Len(v) = l + 1 /\ v[l + 1] = 0
       /\ \A i \in 1..l : u[i] = t[i] /\ v[i] = w[i]
  BY <1>9, <1>10, <1>12 DEF Longer
<1>15. \A h \in Rt!Groups :
         /\ h = g => nodes'[h] = ms /\ taken'[h] = u /\ waited'[h] = v
         /\ h # g => nodes'[h] = nodes[h] /\ taken'[h] = taken[h] /\ waited'[h] = waited[h]
  BY <1>2, <1>7, <1>9, <1>11, <1>12, <1>13, <1>14 DEF RtTypes
<1>16. RtTypes'
  <2>1. /\ nodes' \in [Rt!Groups -> Seq(Backends)]
        /\ taken' \in [Rt!Groups -> Seq(Nat)] /\ waited' \in [Rt!Groups -> Seq(Nat)]
    BY <1>2, <1>7, <1>9, <1>11, <1>12, <1>13, <1>14 DEF RtTypes
  <2>2. ASSUME NEW h \in Rt!Groups
        PROVE  Len(taken'[h]) = Len(nodes'[h]) /\ Len(waited'[h]) = Len(nodes'[h])
    <3>1. CASE h = g
      BY <1>11, <1>12, <1>13, <1>14, <1>15, <3>1
    <3>2. CASE h # g
      BY <1>2, <1>15, <3>2 DEF RtTypes
    <3> QED
      BY <3>1, <3>2
  <2>3. config' \in Seq(BackendsIn)
    BY <1>1, <1>3, <1>8
  <2> QED
    BY <1>1, <1>2, <2>1, <2>2, <2>3 DEF RtTypes, BackendsIn
<1>17. \A i \in 1..(l + 1) : i \in 1..l \/ i = l + 1
  BY <1>10
<1>18. \A i \in 1..(Len(cfg) - 1) : i + 1 \in 1..Len(cfg) /\ i + 1 # 1
  BY <1>8
<1>19. 1 \in 1..Len(cfg)
  BY <1>8
<1>20. Distinct'
  <2>1. OwnNames(ms)
    <3>1. OwnNames(ns)
      BY <1>2, <1>9 DEF Distinct
    <3>2. \A i \in 1..l : ns[i].name # node.name
      BY <1>2, <1>3, <1>5, <1>6, <1>8, <1>9, <1>10, <1>19 DEF Distinct
    <3>3. ASSUME NEW i \in 1..(l + 1), NEW j \in 1..(l + 1), ms[i].name = ms[j].name PROVE i = j
      <4>1. CASE i \in 1..l /\ j \in 1..l
        BY <1>10, <1>11, <1>13, <3>1, <3>3, <4>1 DEF OwnNames
      <4>2. CASE i \in 1..l /\ j = l + 1
        BY <1>11, <1>13, <3>2, <3>3, <4>2
      <4>3. CASE i = l + 1 /\ j \in 1..l
        BY <1>11, <1>13, <3>2, <3>3, <4>3
      <4> QED
        BY <1>17, <4>1, <4>2, <4>3
    <3> QED
      BY <1>11, <1>13, <3>3 DEF OwnNames
  <2>2. \A h \in Rt!Groups : OwnNames(nodes'[h])
    BY <1>2, <1>15, <2>1 DEF Distinct
  <2>3. ASSUME NEW i \in 1..Len(config'), NEW j \in 1..Len(config'),
               config'[i].group = config'[j].group, config'[i].name = config'[j].name
        PROVE  i = j
    <3>1. i \in 1..(Len(cfg) - 1) /\ j \in 1..(Len(cfg) - 1)
      BY <1>1, <1>3, <1>8
    <3>2. config'[i] = cfg[i + 1] /\ config'[j] = cfg[j + 1]
      BY <1>1, <1>3, <1>8, <3>1
    <3>3. i + 1 = j + 1
      BY <1>2, <1>3, <1>18, <2>3, <3>1, <3>2 DEF Distinct
    <3> QED
      BY <3>1, <3>3
  <2>4. ASSUME NEW h \in Rt!Groups, NEW i \in 1..Len(nodes'[h]), NEW j \in 1..Len(config'),
               config'[j].group = h
        PROVE  config'[j].name # nodes'[h][i].name
    <3>1. j \in 1..(Len(cfg) - 1) /\ config'[j] = cfg[j + 1] /\ j + 1 \in 1..Len(cfg) /\ j + 1 # 1
      BY <1>1, <1>3, <1>8, <1>18
    <3>2. CASE h # g \/ i \in 1..l
      <4>1. i \in 1..Len(nodes[h]) /\ nodes'[h][i] = nodes[h][i]
        BY <1>9, <1>10, <1>11, <1>13, <1>15, <3>2
      <4> QED
        BY <1>2, <1>3, <2>4, <3>1, <4>1 DEF Distinct
    <3>3. CASE h = g /\ i = l + 1
      <4>1. nodes'[h][i] = node
        BY <1>11, <1>13, <1>15, <3>3
      <4>2. cfg[j + 1].group = cfg[1].group
        BY <1>5, <1>8, <2>4, <3>1, <3>3
      <4>3. cfg[j + 1].name # cfg[1].name
        BY <1>2, <1>3, <1>19, <3>1, <4>2 DEF Distinct
      <4> QED
        BY <1>6, <1>8, <3>1, <4>1, <4>3
    <3> QED
      BY <1>11, <1>13, <1>15, <1>17, <3>2, <3>3
  <2> QED
    BY <2>2, <2>3, <2>4 DEF Distinct
<1>21. ASSUME NEW h \in Rt!Groups, NEW i \in 1..Len(nodes'[h])
       PROVE  nodes'[h][i].healthy /\ taken'[h][i] = 0 /\ waited'[h][i] = 0
  <2>1. CASE h # g
    <3>1. nodes'[h] = nodes[h] /\ taken'[h] = taken[h] /\ waited'[h] = waited[h]
      BY <1>15, <2>1
    <3>2. i \in 1..Len(nodes[h])
      BY <3>1
    <3>3. nodes[h][i].healthy /\ taken[h][i] = 0 /\ waited[h][i] = 0
      BY <1>2, <3>2
    <3> QED
      BY <3>1, <3>3
  <2>2. CASE h = g /\ i \in 1..l
    <3>1. nodes'[h][i] = ns[i] /\ taken'[h][i] = t[i] /\ waited'[h][i] = w[i]
      BY <1>11, <1>12, <1>13, <1>14, <1>15, <2>2
    <3>2. i \in 1..Len(nodes[g])
      BY <1>9, <1>10, <2>2
    <3>3. ns[i].healthy /\ t[i] = 0 /\ w[i] = 0
      BY <1>2, <1>9, <3>2
    <3> QED
      BY <3>1, <3>3
  <2>3. CASE h = g /\ i = l + 1
    BY <1>6, <1>11, <1>12, <1>13, <1>14, <1>15, <2>3
  <2> QED
    BY <1>11, <1>13, <1>15, <1>17, <2>1, <2>2, <2>3
<1>22. Untouched'
  BY <1>1, <1>2, <1>21 DEF Untouched
<1>23. ASSUME NEW h \in Rt!Groups
       PROVE  Balanced(nodes'[h], cw'[h]) /\ Fair(nodes'[h], cw'[h], taken'[h], waited'[h])
  <2>1. PICK ks \in Seq(Backends), c \in [Rt!Names -> Int] : ks = nodes'[h] /\ c = cw'[h]
    BY <1>16 DEF RtTypes
  <2>2. PICK p, q : p = taken'[h] /\ q = waited'[h]
    OBVIOUS
  <2>3. /\ \A name \in Rt!Names : c[name] = 0
        /\ \A i \in 1..Len(ks) : ks[i].healthy /\ p[i] = 0 /\ q[i] = 0
    BY <1>1, <1>2, <1>21, <2>1, <2>2
  <2>4. Balanced(ks, c) /\ Fair(ks, c, p, q)
    BY <2>3, ZeroFair
  <2> QED
    BY <2>1, <2>2, <2>4
<1>24. LastInShare'
  BY <1>1, <1>2 DEF LastInShare
<1> QED
  BY <1>16, <1>20, <1>22, <1>23, <1>24 DEF RtInv

\* A request is routed.
LEMMA RouteStep ==
    ASSUME RtInv, NEW m \in Models, Rt!Route(m), UNCHANGED <<config, nodes, marks>>, serving'
    PROVE  RtInv'
<1>1. m \in Rt!Groups /\ Star \in Rt!Groups
  BY DEF Rt!Groups
<1>2. CASE UNCHANGED <<cw, taken, waited, last>>
  BY <1>2 DEF RtInv, RtTypes, Distinct, Untouched, LastInShare
<1>3. CASE \E g \in Rt!Groups : Rt!HasHealthy(g) /\ Rt!Pick(g)
  <2>1. PICK g \in Rt!Groups : Rt!HasHealthy(g) /\ Rt!Pick(g)
    BY <1>3
  <2>2. /\ cw' \in [Rt!Groups -> [Rt!Names -> Int]]
        /\ taken' \in [Rt!Groups -> Seq(Nat)] /\ waited' \in [Rt!Groups -> Seq(Nat)]
        /\ \A h \in Rt!Groups : Len(taken'[h]) = Len(nodes[h]) /\ Len(waited'[h]) = Len(nodes[h])
        /\ \A h \in Rt!Groups :
             /\ Balanced(nodes[h], cw'[h])
             /\ marks = 0 => Fair(nodes[h], cw'[h], taken'[h], waited'[h])
        /\ last'.group = g /\ last'.node \in 1..Len(nodes[g])
        /\ marks = 0 /\ Weight(nodes[g]) > 0 => last'.count <= nodes[g][last'.node].weight
    BY <2>1, PickStep
  <2>3. RtTypes'
    BY <2>2 DEF RtInv, RtTypes
  <2>4. Distinct' /\ Untouched'
    BY DEF RtInv, Distinct, Untouched
  <2>5. LastInShare'
    BY <2>2 DEF LastInShare
  <2> QED
    BY <2>2, <2>3, <2>4, <2>5 DEF RtInv
<1> QED
  BY <1>1, <1>2, <1>3 DEF Rt!Route

\* main() starts to serve.
LEMMA StartStep ==
    ASSUME RtInv, Rt!Start
    PROVE  RtInv'
<1>1. ~serving /\ config = <<>> /\ serving' = TRUE /\ UNCHANGED <<config, marks>>
  BY DEF Rt!Start
<1>2. CASE Rt!HasHealthy(Local) \/ Rt!HasHealthy(Star)
  <2>1. Rt!Route(Local) /\ UNCHANGED nodes
    BY <1>2 DEF Rt!Start
  <2> QED
    BY <1>1, <2>1, RouteStep, RouterAssumption
<1>3. CASE ~(Rt!HasHealthy(Local) \/ Rt!HasHealthy(Star))
  <2>1. /\ nodes' = [g \in Rt!Groups |-> IF g \in {Local, Star} THEN Append(nodes[g], Rt!Node(Fallback))
                                         ELSE nodes[g]]
        /\ taken' = [g \in Rt!Groups |-> [i \in DOMAIN nodes'[g] |-> 0]]
        /\ waited' = taken'
        /\ UNCHANGED <<cw, last>>
    BY <1>3 DEF Rt!Start
  <2>2. RtTypes /\ Distinct /\ marks = 0 /\ last = None
        /\ \A h \in Rt!Groups :
              /\ \A name \in Rt!Names : cw[h][name] = 0
              /\ \A i \in 1..Len(nodes[h]) : nodes[h][i].healthy
    BY <1>1 DEF RtInv, Untouched
  <2>3. PICK node \in Backends : node = Rt!Node(Fallback) /\ node.healthy
    <3>1. Fallback.name \in Rt!Names /\ Fallback.weight \in Nat
      BY RouterAssumption DEF Rt!Names
    <3>2. Rt!Node(Fallback) \in Backends
      BY <3>1 DEF Backends, Rt!Node
    <3>3. Rt!Node(Fallback).healthy = TRUE
      BY DEF Rt!Node
    <3> QED
      BY <3>2, <3>3
  <2>4. Local \in Rt!Groups /\ Star \in Rt!Groups
    BY RouterAssumption DEF Rt!Groups
  <2>5. ASSUME NEW h \in Rt!Groups
        PROVE  /\ nodes'[h] \in Seq(Backends) /\ OwnNames(nodes'[h])
               /\ taken'[h] \in Seq(Nat) /\ Len(taken'[h]) = Len(nodes'[h])
               /\ \A i \in 1..Len(nodes'[h]) : nodes'[h][i].healthy /\ taken'[h][i] = 0
    <3>1. PICK ns \in Seq(Backends) : ns = nodes[h]
      BY <2>2 DEF RtTypes
    <3>2. PICK l \in Nat : l = Len(ns) /\ DOMAIN ns = 1..l
      BY WeightFacts
    <3>3. PICK ms : ms = nodes'[h]
      OBVIOUS
    <3>4. /\ ms \in Seq(Backends) /\ OwnNames(ms)
          /\ \A i \in 1..Len(ms) : ms[i].healthy
      <4>1. CASE h \in {Local, Star}
        <5>1. ~Rt!HasHealthy(h)
          BY <1>3, <4>1
        <5>2. l = 0
          BY <2>2, <3>1, <3>2, <5>1 DEF Rt!HasHealthy
        <5>3. ms = Append(ns, node)
          BY <2>1, <2>3, <3>1, <3>3, <4>1
        <5>4. ms \in Seq(Backends) /\ Len(ms) = 1 /\ ms[1] = node
          BY <3>2, <5>2, <5>3, AppendAt
        <5> QED
          BY <2>3, <5>4 DEF OwnNames
      <4>2. CASE h \notin {Local, Star}
        <5>1. ms = ns
          BY <2>1, <3>1, <3>3, <4>2
        <5> QED
          BY <2>2, <3>1, <5>1 DEF Distinct
      <4> QED
        BY <4>1, <4>2
    <3>5. PICK k \in Nat : k = Len(ms) /\ DOMAIN ms = 1..k
      BY <3>4, WeightFacts
    <3>6. taken'[h] = [i \in 1..k |-> 0]
      BY <2>1, <3>3, <3>5
    <3>7. [i \in 1..k |-> 0] \in [1..k -> Nat]
      OBVIOUS
    <3>8. taken'[h] \in Seq(Nat) /\ Len(taken'[h]) = k
      BY <3>6, <3>7, FunctionIsSeq
    <3> QED
      BY <3>3, <3>4, <3>5, <3>6, <3>8
  <2>6. RtTypes'
    <3>1. nodes' \in [Rt!Groups -> Seq(Backends)]
      BY <2>1, <2>5
    <3>2. taken' \in [Rt!Groups -> Seq(Nat)]
      BY <2>1, <2>5
    <3>3. waited' = taken' /\ UNCHANGED <<config, marks, cw>> /\ serving' \in BOOLEAN
      BY <1>1, <2>1
    <3> QED
      BY <2>2, <2>5, <3>1, <3>2, <3>3 DEF RtTypes
  <2>7. Distinct'
    <3>1. Len(config') = 0
      BY <1>1
    <3> QED
      BY <2>5, <3>1 DEF Distinct
  <2>8. Untouched' /\ LastInShare'
    BY <1>1, <2>1, <2>2 DEF Untouched, LastInShare
  <2>9. ASSUME NEW h \in Rt!Groups
        PROVE  Balanced(nodes'[h], cw'[h]) /\ Fair(nodes'[h], cw'[h], taken'[h], waited'[h])
    <3>1. PICK ks \in Seq(Backends), c \in [Rt!Names -> Int] : ks = nodes'[h] /\ c = cw'[h]
      BY <2>6 DEF RtTypes
    <3>2. PICK p, q : p = taken'[h] /\ q = waited'[h]
      OBVIOUS
    <3>3. /\ \A name \in Rt!Names : c[name] = 0
          /\ \A i \in 1..Len(ks) : ks[i].healthy /\ p[i] = 0 /\ q[i] = 0
      BY <2>1, <2>2, <2>5, <3>1, <3>2
    <3>4. Balanced(ks, c) /\ Fair(ks, c, p, q)
      BY <3>3, ZeroFair
    <3> QED
      BY <3>1, <3>2, <3>4
  <2> QED
    BY <2>6, <2>7, <2>8, <2>9 DEF RtInv
<1> QED
  BY <1>2, <1>3

\* A node is marked: after that nothing is said of the shares.
LEMMA MarkStep ==
    ASSUME RtInv, NEW g \in Rt!Groups, NEW name, NEW health \in BOOLEAN, Rt!Mark(g, name, health)
    PROVE  RtInv'
<1>1. /\ serving /\ marks' = marks + 1
      /\ UNCHANGED <<config, serving, cw, taken, waited, last>>
  BY DEF Rt!Mark
<1>2. RtTypes /\ marks \in Nat
  BY DEF RtInv, RtTypes
<1>3. PICK ns \in Seq(Backends) : ns = nodes[g]
  BY <1>2 DEF RtTypes
<1>4. PICK l \in Nat : l = Len(ns) /\ DOMAIN ns = 1..l
  BY WeightFacts
<1>5. PICK i \in 1..l : nodes' = [nodes EXCEPT ![g][i].healthy = health]
  BY <1>3, <1>4 DEF Rt!Mark
<1>6. PICK ms : ms = [ns EXCEPT ![i].healthy = health]
  OBVIOUS
<1>7. nodes' = [nodes EXCEPT ![g] = ms]
  BY <1>3, <1>5, <1>6
<1>8. /\ ms \in Seq(Backends) /\ Len(ms) = l
      /\ \A j \in 1..l : ms[j].name = ns[j].name /\ ms[j].weight = ns[j].weight
  <2>1. \A j \in 1..l : ns[j] \in Backends
    BY <1>4, ElementOfSeq
  <2>2. \A j \in 1..l : ms[j] = IF j = i THEN [ns[j] EXCEPT !.healthy = health] ELSE ns[j]
    BY <1>4, <1>6
  <2>3. \A j \in 1..l : ms[j] \in Backends /\ ms[j].name = ns[j].name /\ ms[j].weight = ns[j].weight
    BY <2>1, <2>2 DEF Backends
  <2>4. DOMAIN ms = 1..l /\ ms = [j \in 1..l |-> ms[j]]
    BY <1>4, <1>6
  <2>5. ms \in [1..l -> Backends]
    BY <2>3, <2>4
  <2> QED
    BY <2>3, <2>5, FunctionIsSeq
<1>9. \A h \in Rt!Groups :
        /\ h = g => nodes[h] = ns /\ nodes'[h] = ms
        /\ h # g => nodes'[h] = nodes[h]
  BY <1>2, <1>3, <1>7 DEF RtTypes
<1>10. \A h \in Rt!Groups :
         /\ Len(nodes'[h]) = Len(nodes[h])
         /\ \A j \in 1..Len(nodes[h]) : nodes'[h][j].name = nodes[h][j].name
  BY <1>4, <1>8, <1>9
<1>11. RtTypes'
  <2>1. nodes' \in [Rt!Groups -> Seq(Backends)]
    BY <1>2, <1>7, <1>8 DEF RtTypes
  <2>2. marks' \in Nat
    BY <1>1, <1>2
  <2> QED
    BY <1>1, <1>2, <1>10, <2>1, <2>2 DEF RtTypes
<1>12. Distinct'
  <2>1. Distinct
    BY DEF RtInv
  <2>2. \A h \in Rt!Groups : OwnNames(nodes'[h])
    BY <1>10, <2>1 DEF Distinct, OwnNames
  <2>3. \A h \in Rt!Groups : \A j \in 1..Len(nodes'[h]), k \in 1..Len(config) :
          config[k].group = h => config[k].name # nodes'[h][j].name
    BY <1>10, <2>1 DEF Distinct
  <2> QED
    BY <1>1, <2>1, <2>2, <2>3 DEF Distinct
<1>13. Untouched'
  BY <1>1 DEF Untouched
<1>14. marks' # 0
  BY <1>1, <1>2
<1>15. LastInShare'
  BY <1>1, <1>10, <1>14 DEF RtInv, LastInShare
<1>16. ASSUME NEW h \in Rt!Groups PROVE Balanced(nodes'[h], cw'[h])
  <2>1. Now(nodes'[h], cw'[h]) = Now(nodes[h], cw[h])
    BY <1>1, <1>10 DEF Now
  <2> QED
    BY <1>10, <2>1 DEF RtInv, Balanced
<1> QED
  BY <1>11, <1>12, <1>13, <1>14, <1>15, <1>16 DEF RtInv

\* The invariant holds at first.
LEMMA InitRtInv ==
    ASSUME DistinctNames
    PROVE  Rt!Init => RtInv
<1> SUFFICES ASSUME Rt!Init PROVE RtInv
  OBVIOUS
<1>1. /\ config \in Configs /\ serving = FALSE
      /\ nodes = [g \in Rt!Groups |-> <<>>] /\ cw = [g \in Rt!Groups |-> [n \in Rt!Names |-> 0]]
      /\ marks = 0 /\ taken = [g \in Rt!Groups |-> <<>>] /\ waited = [g \in Rt!Groups |-> <<>>]
      /\ last = None
  BY DEF Rt!Init
<1>2. <<>> \in Seq(Backends) /\ <<>> \in Seq(Nat) /\ Len(<<>>) = 0
  BY EmptySeq
<1>3. RtTypes
  <2>1. config \in Seq([group : Rt!Groups, name : Rt!Names, weight : Nat])
    BY <1>1, RouterAssumption
  <2>2. nodes \in [Rt!Groups -> Seq(Backends)]
    BY <1>1, <1>2
  <2>3. taken \in [Rt!Groups -> Seq(Nat)] /\ waited \in [Rt!Groups -> Seq(Nat)]
    BY <1>1, <1>2
  <2>4. cw \in [Rt!Groups -> [Rt!Names -> Int]]
    BY <1>1
  <2>5. \A g \in Rt!Groups : Len(taken[g]) = Len(nodes[g]) /\ Len(waited[g]) = Len(nodes[g])
    BY <1>1
  <2> QED
    BY <1>1, <2>1, <2>2, <2>3, <2>4, <2>5 DEF RtTypes
<1>4. \A g \in Rt!Groups : nodes[g] = <<>> /\ Len(nodes[g]) = 0
  BY <1>1, <1>2
<1>5. Distinct
  BY <1>1, <1>4 DEF Distinct, DistinctNames, OwnNames
<1>6. Untouched /\ LastInShare
  BY <1>1, <1>4 DEF Untouched, LastInShare
<1>7. ASSUME NEW h \in Rt!Groups
      PROVE  Balanced(nodes[h], cw[h]) /\ Fair(nodes[h], cw[h], taken[h], waited[h])
  <2>1. PICK ks \in Seq(Backends), c \in [Rt!Names -> Int] : ks = nodes[h] /\ c = cw[h]
    BY <1>3 DEF RtTypes
  <2>2. PICK p, q : p = taken[h] /\ q = waited[h]
    OBVIOUS
  <2>3. /\ \A name \in Rt!Names : c[name] = 0
        /\ \A i \in 1..Len(ks) : ks[i].healthy /\ p[i] = 0 /\ q[i] = 0
    BY <1>1, <1>4, <2>1
  <2>4. Balanced(ks, c) /\ Fair(ks, c, p, q)
    BY <2>3, ZeroFair
  <2> QED
    BY <2>1, <2>2, <2>4
<1> QED
  BY <1>3, <1>5, <1>6, <1>7 DEF RtInv

\* Every step keeps it.
LEMMA StepRtInv == RtInv /\ [Rt!Next]_Rt!routerVars => RtInv'
<1> SUFFICES ASSUME RtInv, [Rt!Next]_Rt!routerVars PROVE RtInv'
  OBVIOUS
<1>1. ASSUME UNCHANGED <<config, serving, nodes, cw, marks, taken, waited, last>> PROVE RtInv'
  BY <1>1 DEF RtInv, RtTypes, Distinct, Untouched, LastInShare
<1>2. CASE UNCHANGED Rt!routerVars
  BY <1>1, <1>2 DEF Rt!routerVars
<1>3. ASSUME NEW m \in Models, Rt!Request(m) PROVE RtInv'
  <2>1. Rt!Route(m) /\ UNCHANGED <<config, nodes, marks>> /\ serving'
    BY <1>3 DEF Rt!Request
  <2> QED
    BY <2>1, RouteStep
<1>4. ASSUME NEW ok \in BOOLEAN, Rt!Transfer(ok) PROVE RtInv'
  BY <1>1, <1>4 DEF Rt!Transfer
<1> QED
  BY <1>2, <1>3, <1>4, RegisterStep, StartStep, MarkStep DEF Rt!Next

LEMMA RtInductive ==
    ASSUME DistinctNames
    PROVE  Rt!Spec => []RtInv
  BY InitRtInv, StepRtInv, PTL DEF Rt!Spec

-----------------------------------------------------------------------------
(* The properties.                                                         *)

\* The sums that Router names, of a list of nodes.
LEMMA TotalIsWeight ==
    ASSUME RtInv, NEW g \in Rt!Groups
    PROVE  /\ Rt!Total(g) = Weight(nodes[g]) /\ Rt!Current(g) = Now(nodes[g], cw[g])
           /\ DOMAIN nodes[g] = 1..Len(nodes[g])
<1>1. nodes[g] \in Seq(Backends)
  BY DEF RtInv, RtTypes
<1>2. DOMAIN nodes[g] = 1..Len(nodes[g])
  BY <1>1, LenProperties
<1> QED
  BY <1>2 DEF Rt!Total, Rt!Current, Weight, Weights, Now

\* As long as nothing is marked, all nodes of a group share the picks.
LEMMA HealthyIsWeight ==
    ASSUME RtInv, marks = 0, NEW g \in Rt!Groups
    PROVE  Rt!Healthy(g) = Weight(nodes[g])
<1>1. DOMAIN nodes[g] = 1..Len(nodes[g])
  BY TotalIsWeight
<1>2. \A i \in 1..Len(nodes[g]) : nodes[g][i].healthy
  BY DEF RtInv, Fair
<1>3. [i \in DOMAIN nodes[g] |-> IF nodes[g][i].healthy THEN nodes[g][i].weight ELSE 0]
        = Weights(nodes[g])
  BY <1>1, <1>2 DEF Weights
<1> QED
  BY <1>3 DEF Rt!Healthy, Weight

\* The current weights of a group none of whose nodes is marked: none is below what a pick takes
\* off, and as they sum to zero none is above what all the others may have been left with.
LEMMA FairBounds ==
    ASSUME NEW ns \in Seq(Backends), NEW c \in [Rt!Names -> Int],
           NEW t \in Seq(Nat), NEW w \in Seq(Nat),
           Balanced(ns, c), Fair(ns, c, t, w), NEW i \in 1..Len(ns)
    PROVE  Now(ns, c)[i] \in (-Weight(ns))..((Len(ns) - 1) * Weight(ns))
<1>1. PICK l \in Nat, W \in Nat : l = Len(ns) /\ W = Weight(ns)
  BY WeightFacts
<1>2. \A j \in 1..l : ns[j].name \in Rt!Names
  BY <1>1, WeightFacts
<1>3. \A j \in 1..l : Now(ns, c)[j] = c[ns[j].name] /\ Now(ns, c)[j] \in Int
  BY <1>1, <1>2 DEF Now
<1>4. \A j \in 1..l : -W <= Now(ns, c)[j]
  <2>1. \A j \in 1..l : -W <= c[ns[j].name]
    BY <1>1 DEF Fair, Owed
  <2> QED
    BY <1>3, <2>1
<1>5. Rt!SumUpTo(Now(ns, c), l) = 0
  BY <1>1 DEF Balanced
<1>6. Now(ns, c)[i] <= (l - 1) * W
  BY <1>1, <1>3, <1>4, <1>5, SumUpper
<1>7. (l - 1) * W \in Int /\ -W \in Int
  <2>1. l - 1 \in Int
    OBVIOUS
  <2> QED
    BY <2>1
<1> QED
  BY <1>1, <1>3, <1>4, <1>6, <1>7

\* The invariant bounds the current weights.
LEMMA BoundsFromInv == RtInv => WeightsBounded
<1> SUFFICES ASSUME RtInv PROVE WeightsBounded
  OBVIOUS
<1>1. serving \in BOOLEAN
  BY DEF RtInv, RtTypes
<1>2. ASSUME NEW g \in Rt!Groups
      PROVE  /\ nodes[g] \in Seq([name : Rt!Names, weight : Nat, healthy : BOOLEAN])
             /\ cw[g] \in [Rt!Names -> Int]
             /\ taken[g] \in [DOMAIN nodes[g] -> Nat] /\ waited[g] \in [DOMAIN nodes[g] -> Nat]
             /\ Rt!SumUpTo(Rt!Current(g), Len(nodes[g])) = 0
             /\ marks = 0 => \A i \in DOMAIN nodes[g] :
                    Rt!Current(g)[i] \in (-Rt!Total(g))..((Len(nodes[g]) - 1) * Rt!Total(g))
  <2>1. PICK ns \in Seq(Backends), c \in [Rt!Names -> Int], t \in Seq(Nat), w \in Seq(Nat) :
          /\ ns = nodes[g] /\ c = cw[g] /\ t = taken[g] /\ w = waited[g]
          /\ Len(t) = Len(ns) /\ Len(w) = Len(ns)
    BY DEF RtInv, RtTypes
  <2>2. /\ Rt!Total(g) = Weight(ns) /\ Rt!Current(g) = Now(ns, c) /\ DOMAIN ns = 1..Len(ns)
    BY <2>1, TotalIsWeight
  <2>3. t \in [1..Len(t) -> Nat] /\ w \in [1..Len(w) -> Nat]
    BY LenProperties
  <2>4. Balanced(ns, c)
    BY <2>1 DEF RtInv
  <2>5. ASSUME marks = 0, NEW i \in 1..Len(ns)
        PROVE  Now(ns, c)[i] \in (-Weight(ns))..((Len(ns) - 1) * Weight(ns))
    <3>1. Fair(ns, c, t, w)
      BY <2>1, <2>5 DEF RtInv
    <3> QED
      BY <2>4, <3>1, FairBounds
  <2>6. /\ nodes[g] \in Seq([name : Rt!Names, weight : Nat, healthy : BOOLEAN])
        /\ cw[g] \in [Rt!Names -> Int]
    BY <2>1 DEF Backends
  <2>7. taken[g] \in [DOMAIN nodes[g] -> Nat] /\ waited[g] \in [DOMAIN nodes[g] -> Nat]
    BY <2>1, <2>2, <2>3
  <2>8. Rt!SumUpTo(Rt!Current(g), Len(nodes[g])) = 0
    BY <2>1, <2>2, <2>4 DEF Balanced
  <2>9. marks = 0 => \A i \in DOMAIN nodes[g] :
            Rt!Current(g)[i] \in (-Rt!Total(g))..((Len(nodes[g]) - 1) * Rt!Total(g))
    BY <2>1, <2>2, <2>5
  <2> QED
    BY <2>6, <2>7, <2>8, <2>9
<1>3. last # None => last.node \in DOMAIN nodes[last.group]
  <2> SUFFICES ASSUME last # None PROVE last.node \in DOMAIN nodes[last.group]
    OBVIOUS
  <2>1. last.group \in Rt!Groups /\ last.node \in 1..Len(nodes[last.group])
    BY DEF RtInv, LastInShare
  <2> QED
    BY <2>1, TotalIsWeight
<1> QED
  BY <1>1, <1>2, <1>3 DEF WeightsBounded, Rt!TypeOK

\* The invariant gives every node its share.
LEMMA ShareFromInv == RtInv => WeightedShare
<1> SUFFICES ASSUME RtInv, marks = 0, last # None, Rt!Healthy(last.group) > 0
             PROVE  last.count <= nodes[last.group][last.node].weight
  BY DEF WeightedShare, Rt!WeightedShare
<1>1. last.group \in Rt!Groups
  BY DEF RtInv, LastInShare
<1>2. Weight(nodes[last.group]) > 0
  BY <1>1, HealthyIsWeight
<1> QED
  BY <1>2 DEF RtInv, LastInShare

\* The picks that others have had of a round.
LEMMA OthersHaveHad ==
    ASSUME NEW ns \in Seq(Backends), NEW c \in [Rt!Names -> Int],
           NEW t \in Seq(Nat), NEW w \in Seq(Nat),
           Len(t) = Len(ns), Len(w) = Len(ns), Fair(ns, c, t, w), NEW i \in 1..Len(ns), ns[i].weight > 0
    PROVE  w[i] <= 2 * (Weight(ns) - ns[i].weight)
<1>1. PICK l \in Nat, W \in Nat : l = Len(ns) /\ W = Weight(ns)
  BY WeightFacts
<1>2. /\ \A j \in 1..l : Weights(ns)[j] \in Nat /\ Weights(ns)[j] = ns[j].weight
      /\ \A j \in 1..l : t[j] \in Nat /\ w[j] \in Nat
  <2>1. \A j \in 1..l : Weights(ns)[j] \in Nat /\ Weights(ns)[j] = ns[j].weight
    BY <1>1, WeightFacts
  <2>2. \A j \in 1..l : t[j] \in Nat /\ w[j] \in Nat
    BY <1>1, ElementOfSeq
  <2> QED
    BY <2>1, <2>2
<1>3. \A j \in 1..l : t[j] <= Weights(ns)[j]
  <2>1. \A j \in 1..l : t[j] <= ns[j].weight
    BY <1>1 DEF Fair, Owed
  <2> QED
    BY <1>2, <2>1
<1>4. PICK k \in Nat : k = Rt!SumUpTo(t, l)
  BY <1>2, SumBounds
<1>5. W = Rt!SumUpTo(Weights(ns), l)
  BY <1>1 DEF Weight
<1>6. i \in 1..l
  BY <1>1
<1>7. k - t[i] <= W - Weights(ns)[i]
  <2>1. \A j \in 1..l : t[j] \in Int /\ Weights(ns)[j] \in Int /\ t[j] <= Weights(ns)[j]
    <3> SUFFICES ASSUME NEW j \in 1..l
                 PROVE  t[j] \in Int /\ Weights(ns)[j] \in Int /\ t[j] <= Weights(ns)[j]
      OBVIOUS
    <3>1. t[j] \in Nat /\ Weights(ns)[j] \in Nat
      BY <1>2
    <3>2. t[j] <= Weights(ns)[j]
      BY <1>3
    <3> QED
      BY <3>1, <3>2
  <2>2. \A j \in 1..l :
          Weights(ns)[j] - t[j] <= Rt!SumUpTo(Weights(ns), l) - Rt!SumUpTo(t, l)
    BY <2>1, SumLacks
  <2>3. Weights(ns)[i] - t[i] <= W - k
    BY <1>4, <1>5, <1>6, <2>2
  <2>4. PICK a \in Int, b \in Int : a = Weights(ns)[i] /\ b = t[i]
    BY <1>6, <2>1
  <2>5. a - b <= W - k
    BY <2>3, <2>4
  <2>6. k - b <= W - a
    BY <2>5
  <2> QED
    BY <2>4, <2>6
<1>8. k = Length(ns, t)
  BY <1>1, <1>4 DEF Length
<1>9. PICK x \in Nat, p \in Nat, q \in Nat : x = ns[i].weight /\ p = t[i] /\ q = w[i]
  BY <1>2, <1>6
<1>10. q <= (k - p) + (IF p = 0 THEN W - x ELSE 0)
  BY <1>1, <1>8, <1>9 DEF Fair, Owed
<1>11. k - p <= W - x /\ x <= W
  <2>1. x <= W
    BY <1>1, <1>9, WeightFacts
  <2> QED
    BY <1>2, <1>6, <1>7, <1>9, <2>1
<1>12. q <= 2 * (W - x)
  BY <1>10, <1>11
<1> QED
  BY <1>1, <1>9, <1>12

\* The invariant lets nobody starve.
LEMMA TurnFromInv == RtInv => NoStarvation
<1> SUFFICES ASSUME RtInv, marks = 0, NEW g \in Rt!Groups, NEW i \in DOMAIN nodes[g],
                    nodes[g][i].weight > 0
             PROVE  waited[g][i] <= 2 * (Rt!Total(g) - nodes[g][i].weight)
  BY DEF NoStarvation, Rt!NoStarvation
<1>1. PICK ns \in Seq(Backends), c \in [Rt!Names -> Int], t \in Seq(Nat), w \in Seq(Nat) :
        /\ ns = nodes[g] /\ c = cw[g] /\ t = taken[g] /\ w = waited[g]
        /\ Len(t) = Len(ns) /\ Len(w) = Len(ns)
  BY DEF RtInv, RtTypes
<1>2. Fair(ns, c, t, w)
  BY <1>1 DEF RtInv
<1>3. Rt!Total(g) = Weight(ns) /\ i \in 1..Len(ns) /\ ns[i].weight > 0
  BY <1>1, TotalIsWeight
<1>4. w[i] <= 2 * (Weight(ns) - ns[i].weight)
  BY <1>1, <1>2, <1>3, OthersHaveHad
<1> QED
  BY <1>1, <1>3, <1>4

\* However long the program runs, with whatever weights and with whatever is marked, what a pick
\* adds to the current weights of a group it takes off again, and as long as nothing is marked
\* none of them leaves its bounds (include/router.h, LoadBalancer::pick).
THEOREM WeightsStayBounded ==
    ASSUME DistinctNames
    PROVE  Rt!Spec => []WeightsBounded
<1>1. RtInv => WeightsBounded
  BY BoundsFromInv
<1> QED
  BY <1>1, RtInductive, PTL

\* In no round of picks of a group is a backend picked more often than it weighs, as long as
\* nothing is marked (include/router.h, LoadBalancer::pick).
THEOREM SharesByWeight ==
    ASSUME DistinctNames
    PROVE  Rt!Spec => []WeightedShare
<1>1. RtInv => WeightedShare
  BY ShareFromInv
<1> QED
  BY <1>1, RtInductive, PTL

\* Every backend that weighs anything is picked again within two rounds, as long as nothing is
\* marked (include/router.h, LoadBalancer::pick).
THEOREM NobodyStarves ==
    ASSUME DistinctNames
    PROVE  Rt!Spec => []NoStarvation
<1>1. RtInv => NoStarvation
  BY TurnFromInv
<1> QED
  BY <1>1, RtInductive, PTL
=============================================================================
