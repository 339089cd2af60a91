--------------------------- MODULE SequenceLemmas ---------------------------
(***************************************************************************)
(* Facts about sequences that the proofs about several components need.    *)
(***************************************************************************)
EXTENDS Filter, SequencesExt, SequenceTheorems, FiniteSetTheorems, FunctionTheorems,
        WellFoundedInduction, TLAPS

\* Induction over the numbers, for a set: a set that has 0, and with each number the next,
\* has them all.
LEMMA SetInduction ==
    ASSUME NEW I \in SUBSET Nat, 0 \in I, \A n \in I : n + 1 \in I
    PROVE  I = Nat
<1> DEFINE T == Nat \ I
<1> SUFFICES ASSUME T # {} PROVE FALSE
  OBVIOUS
<1>1. PICK x \in T : \A y \in T : ~(<<y, x>> \in OpToRel(<, Nat))
  BY NatLessThanWellFounded, WFMin
<1>2. \A y \in T : ~(y < x)
  BY <1>1 DEF OpToRel
<1>3. x \in Nat /\ x # 0 /\ x - 1 \in Nat /\ x - 1 < x
  OBVIOUS
<1>4. x - 1 \in I
  BY <1>2, <1>3
<1>5. (x - 1) + 1 \in I
  BY <1>4
<1> QED
  BY <1>3, <1>5

-----------------------------------------------------------------------------
(* Append and Tail.                                                        *)

\* Appending adds one element.
LEMMA AppendAt ==
    ASSUME NEW S, NEW s \in Seq(S), NEW x \in S
    PROVE  /\ Append(s, x) \in Seq(S)
           /\ Len(Append(s, x)) = Len(s) + 1
           /\ \A i \in 1..Len(s) : Append(s, x)[i] = s[i]
           /\ Append(s, x)[Len(s) + 1] = x
  BY AppendProperties

\* The elements after an Append.
LEMMA ToSetAppend ==
    ASSUME NEW S, NEW s \in Seq(S), NEW x \in S
    PROVE  ToSet(Append(s, x)) = ToSet(s) \cup {x}
<1>1. Len(s) \in Nat /\ DOMAIN s = 1..Len(s) /\ DOMAIN Append(s, x) = 1..(Len(s) + 1)
  BY AppendAt, LenProperties
<1>2. ASSUME NEW y \in ToSet(Append(s, x)) PROVE y \in ToSet(s) \cup {x}
  BY <1>1, AppendAt DEF ToSet
<1>3. ASSUME NEW y \in ToSet(s) PROVE y \in ToSet(Append(s, x))
  BY <1>1, AppendAt DEF ToSet
<1>4. x \in ToSet(Append(s, x))
  BY <1>1, AppendAt DEF ToSet
<1> QED
  BY <1>2, <1>3, <1>4

\* Appending a new element leaves no element twice.
LEMMA InjectiveAppend ==
    ASSUME NEW S, NEW s \in Seq(S), NEW x \in S, IsInjective(s), x \notin ToSet(s)
    PROVE  IsInjective(Append(s, x))
<1>1. Len(s) \in Nat /\ DOMAIN s = 1..Len(s) /\ DOMAIN Append(s, x) = 1..(Len(s) + 1)
  BY AppendAt, LenProperties
<1>2. \A i \in 1..Len(s) : s[i] # x
  BY <1>1 DEF ToSet
<1>3. ASSUME NEW i \in 1..(Len(s) + 1), NEW j \in 1..(Len(s) + 1),
             Append(s, x)[i] = Append(s, x)[j]
      PROVE  i = j
  <2>1. i \in 1..Len(s) \/ i = Len(s) + 1
    BY <1>1
  <2>2. j \in 1..Len(s) \/ j = Len(s) + 1
    BY <1>1
  <2> QED
    BY <1>1, <1>2, <1>3, <2>1, <2>2, AppendAt DEF IsInjective
<1> QED
  BY <1>1, <1>3 DEF IsInjective

\* The tail of a sequence has its elements but the first, one place earlier.
LEMMA TailAt ==
    ASSUME NEW S, NEW s \in Seq(S), s # <<>>
    PROVE  /\ Tail(s) \in Seq(S) /\ Head(s) \in S /\ Head(s) = s[1]
           /\ Len(s) \in Nat /\ Len(s) >= 1 /\ Len(Tail(s)) = Len(s) - 1
           /\ \A i \in 1..(Len(s) - 1) : Tail(s)[i] = s[i + 1]
  BY HeadTailProperties, LenProperties, EmptySeq

\* The elements before a Tail.
LEMMA ToSetTail ==
    ASSUME NEW S, NEW s \in Seq(S), s # <<>>
    PROVE  ToSet(s) = {Head(s)} \cup ToSet(Tail(s))
<1>1. DOMAIN s = 1..Len(s) /\ DOMAIN Tail(s) = 1..(Len(s) - 1) /\ Len(s) \in Nat /\ Len(s) >= 1
  BY TailAt, LenProperties
<1>2. ASSUME NEW y \in ToSet(s) PROVE y \in {Head(s)} \cup ToSet(Tail(s))
  <2>1. PICK i \in 1..Len(s) : y = s[i]
    BY <1>1 DEF ToSet
  <2>2. CASE i = 1
    BY <2>1, <2>2, TailAt
  <2>3. CASE i # 1
    <3>1. i - 1 \in 1..(Len(s) - 1) /\ (i - 1) + 1 = i
      BY <1>1, <2>3
    <3>2. Tail(s)[i - 1] = y
      BY <2>1, <3>1, TailAt
    <3> QED
      BY <1>1, <3>1, <3>2 DEF ToSet
  <2> QED
    BY <2>2, <2>3
<1>3. Head(s) \in ToSet(s)
  BY <1>1, TailAt DEF ToSet
<1>4. ASSUME NEW y \in ToSet(Tail(s)) PROVE y \in ToSet(s)
  <2>1. PICK i \in 1..(Len(s) - 1) : y = Tail(s)[i]
    BY <1>1 DEF ToSet
  <2>2. y = s[i + 1] /\ i + 1 \in 1..Len(s)
    BY <1>1, <2>1, TailAt
  <2> QED
    BY <1>1, <2>2 DEF ToSet
<1> QED
  BY <1>2, <1>3, <1>4

\* Without its head, an injective sequence is injective and no longer has that element.
LEMMA InjectiveTail ==
    ASSUME NEW S, NEW s \in Seq(S), s # <<>>, IsInjective(s)
    PROVE  IsInjective(Tail(s)) /\ Head(s) \notin ToSet(Tail(s))
<1>1. /\ Head(s) = s[1] /\ Len(s) \in Nat /\ Len(s) >= 1 /\ DOMAIN s = 1..Len(s)
      /\ DOMAIN Tail(s) = 1..(Len(s) - 1)
      /\ \A i \in 1..(Len(s) - 1) : Tail(s)[i] = s[i + 1]
  BY TailAt, LenProperties
<1>2. \A i, j \in 1..Len(s) : s[i] = s[j] => i = j
  BY <1>1 DEF IsInjective
<1>3. \A i \in 1..(Len(s) - 1) : i + 1 \in 1..Len(s) /\ i + 1 # 1
  BY <1>1
<1>4. ASSUME NEW i \in 1..(Len(s) - 1), NEW j \in 1..(Len(s) - 1), Tail(s)[i] = Tail(s)[j]
      PROVE  i = j
  <2>1. i + 1 = j + 1
    BY <1>1, <1>2, <1>3, <1>4
  <2> QED
    BY <2>1
<1>5. \A i \in 1..(Len(s) - 1) : Tail(s)[i] # Head(s)
  <2>1. 1 \in 1..Len(s)
    BY <1>1
  <2> QED
    BY <1>1, <1>2, <1>3, <2>1
<1> QED
  BY <1>1, <1>4, <1>5 DEF IsInjective, ToSet

\* Two sequences, one after the other.
LEMMA Concatenation ==
    ASSUME NEW S, NEW p \in Seq(S), NEW l \in Seq(S)
    PROVE  /\ ToSet(p \o l) = ToSet(p) \cup ToSet(l)
           /\ IsInjective(p \o l) <=>
                 IsInjective(p) /\ IsInjective(l) /\ ToSet(p) \cap ToSet(l) = {}
<1> DEFINE m == Len(p)
           n == Len(l)
           s == p \o l
<1>1. /\ m \in Nat /\ n \in Nat /\ DOMAIN p = 1..m /\ DOMAIN l = 1..n
      /\ s \in Seq(S) /\ DOMAIN s = 1..(m + n)
  BY LenProperties, ConcatProperties
<1>2. \A i \in 1..m : s[i] = p[i] /\ i \in 1..(m + n)
  BY <1>1, ConcatProperties
<1>3. \A i \in 1..n : s[m + i] = l[i] /\ m + i \in 1..(m + n)
  BY <1>1, ConcatProperties
<1>4. \A i \in 1..(m + n) : i \in 1..m \/ (i - m \in 1..n /\ m + (i - m) = i)
  BY <1>1
<1> HIDE DEF m, n, s
<1>5. ToSet(s) = ToSet(p) \cup ToSet(l)
  <2>1. \A x \in ToSet(s) : x \in ToSet(p) \/ x \in ToSet(l)
    <3>1. SUFFICES ASSUME NEW i \in 1..(m + n) PROVE s[i] \in ToSet(p) \cup ToSet(l)
      BY <1>1 DEF ToSet
    <3>2. CASE i \in 1..m
      BY <1>1, <1>2, <3>2 DEF ToSet
    <3>3. CASE i \notin 1..m
      <4>1. i - m \in 1..n /\ s[i] = l[i - m]
        BY <1>3, <1>4, <3>3
      <4> QED
        BY <1>1, <4>1 DEF ToSet
    <3> QED
      BY <3>2, <3>3
  <2>2. \A x \in ToSet(p) : x \in ToSet(s)
    BY <1>1, <1>2 DEF ToSet
  <2>3. \A x \in ToSet(l) : x \in ToSet(s)
    BY <1>1, <1>3 DEF ToSet
  <2> QED
    BY <2>1, <2>2, <2>3
<1>6. ASSUME IsInjective(s)
      PROVE  IsInjective(p) /\ IsInjective(l) /\ ToSet(p) \cap ToSet(l) = {}
  <2>1. \A i, j \in 1..(m + n) : s[i] = s[j] => i = j
    BY <1>1, <1>6 DEF IsInjective
  <2>2. IsInjective(p)
    BY <1>1, <1>2, <2>1 DEF IsInjective
  <2>3. IsInjective(l)
    <3>1. ASSUME NEW i \in 1..n, NEW j \in 1..n, l[i] = l[j] PROVE i = j
      <4>1. m + i = m + j
        BY <1>3, <2>1, <3>1
      <4> QED
        BY <1>1, <4>1
    <3> QED
      BY <1>1, <3>1 DEF IsInjective
  <2>4. ASSUME NEW x \in ToSet(p), x \in ToSet(l) PROVE FALSE
    <3>1. PICK i \in 1..m, j \in 1..n : p[i] = x /\ l[j] = x
      BY <1>1, <2>4 DEF ToSet
    <3>2. i = m + j
      BY <1>2, <1>3, <2>1, <3>1
    <3> QED
      BY <1>1, <3>2
  <2> QED
    BY <2>2, <2>3, <2>4
<1>7. ASSUME IsInjective(p), IsInjective(l), ToSet(p) \cap ToSet(l) = {},
             NEW i \in 1..(m + n), NEW j \in 1..(m + n), s[i] = s[j]
      PROVE  i = j
  <2>1. CASE i \in 1..m /\ j \in 1..m
    BY <1>1, <1>2, <1>7, <2>1 DEF IsInjective
  <2>2. CASE i \in 1..m /\ j \notin 1..m
    <3>1. p[i] = l[j - m] /\ j - m \in 1..n
      BY <1>2, <1>3, <1>4, <1>7, <2>2
    <3>2. p[i] \in ToSet(p) /\ l[j - m] \in ToSet(l)
      BY <1>1, <2>2, <3>1 DEF ToSet
    <3> QED
      BY <1>7, <3>1, <3>2
  <2>3. CASE i \notin 1..m /\ j \in 1..m
    <3>1. p[j] = l[i - m] /\ i - m \in 1..n
      BY <1>2, <1>3, <1>4, <1>7, <2>3
    <3>2. p[j] \in ToSet(p) /\ l[i - m] \in ToSet(l)
      BY <1>1, <2>3, <3>1 DEF ToSet
    <3> QED
      BY <1>7, <3>1, <3>2
  <2>4. CASE i \notin 1..m /\ j \notin 1..m
    <3>1. i - m \in 1..n /\ j - m \in 1..n /\ l[i - m] = l[j - m]
      BY <1>3, <1>4, <1>7, <2>4
    <3>2. i - m = j - m
      BY <1>1, <1>7, <3>1 DEF IsInjective
    <3> QED
      BY <1>1, <3>2
  <2> QED
    BY <2>1, <2>2, <2>3, <2>4
<1> QED
  BY <1>1, <1>5, <1>6, <1>7 DEF IsInjective, s

-----------------------------------------------------------------------------
(* Keep.                                                                   *)

\* k[i] is what is kept of the first i elements of s, up to n.
Keeps(k, s, T, n) ==
    /\ DOMAIN k = 0..n
    /\ k[0] = <<>>
    /\ \A i \in 1..n : k[i] = IF s[i] \in T THEN Append(k[i - 1], s[i]) ELSE k[i - 1]

\* The recursion of Keep has a solution.
LEMMA KeepsExists ==
    ASSUME NEW s, NEW T, NEW n \in Nat
    PROVE  \E k : Keeps(k, s, T, n)
<1> DEFINE I == {m \in Nat : \E k : Keeps(k, s, T, m)}
<1>1. 0 \in I
  <2>1. Keeps([i \in 0..0 |-> <<>>], s, T, 0)
    BY DEF Keeps
  <2> QED
    BY <2>1
<1>2. ASSUME NEW m \in I PROVE m + 1 \in I
  <2>1. PICK k : Keeps(k, s, T, m)
    OBVIOUS
  <2> DEFINE g == [i \in 0..(m + 1) |->
                     IF i <= m THEN k[i]
                     ELSE IF s[m + 1] \in T THEN Append(k[m], s[m + 1]) ELSE k[m]]
  <2>2. DOMAIN g = 0..(m + 1) /\ g[0] = <<>>
    BY <2>1 DEF Keeps
  <2>3. ASSUME NEW i \in 1..(m + 1)
        PROVE  g[i] = IF s[i] \in T THEN Append(g[i - 1], s[i]) ELSE g[i - 1]
    <3>1. CASE i = m + 1
      <4>1. g[i - 1] = k[m] /\ i \in 0..(m + 1) /\ ~(i <= m) /\ s[i] = s[m + 1]
        BY <3>1
      <4> QED
        BY <3>1, <4>1
    <3>2. CASE i # m + 1
      <4>1. i \in 1..m /\ i - 1 \in 0..(m + 1) /\ i - 1 <= m
        BY <3>2
      <4>2. g[i] = k[i] /\ g[i - 1] = k[i - 1]
        BY <4>1
      <4> QED
        BY <2>1, <4>1, <4>2 DEF Keeps
    <3> QED
      BY <3>1, <3>2
  <2> HIDE DEF g
  <2>4. Keeps(g, s, T, m + 1)
    BY <2>2, <2>3 DEF Keeps
  <2> QED
    BY <2>4
<1>3. I = Nat
  BY <1>1, <1>2, SetInduction
<1> QED
  BY <1>3

\* Keep is computed by a solution of its recursion.
LEMMA KeepDef ==
    ASSUME NEW S, NEW s \in Seq(S), NEW T
    PROVE  \E k : Keeps(k, s, T, Len(s)) /\ Keep(s, T) = k[Len(s)]
<1> DEFINE F(k) == [i \in 0..Len(s) |->
                      IF i = 0 THEN <<>>
                      ELSE IF s[i] \in T THEN Append(k[i - 1], s[i]) ELSE k[i - 1]]
<1>1. PICK k : Keeps(k, s, T, Len(s)) /\ k = [i \in 0..Len(s) |-> k[i]]
  <2>1. PICK l : Keeps(l, s, T, Len(s))
    BY KeepsExists, LenProperties
  <2>2. Keeps([i \in 0..Len(s) |-> l[i]], s, T, Len(s))
    BY <2>1 DEF Keeps
  <2> QED
    BY <2>2
<1>2. k = F(k)
  <2>1. \A i \in 0..Len(s) : k[i] = IF i = 0 THEN <<>>
            ELSE IF s[i] \in T THEN Append(k[i - 1], s[i]) ELSE k[i - 1]
    BY <1>1, LenProperties DEF Keeps
  <2>2. F(k) = [i \in 0..Len(s) |-> k[i]]
    BY <2>1
  <2> QED
    BY <1>1, <2>2
<1>3. PICK l : l = F(l) /\ Keep(s, T) = l[Len(s)]
  <2>1. Keep(s, T) = (CHOOSE l : l = F(l))[Len(s)]
    BY DEF Keep
  <2> HIDE DEF F
  <2>2. (CHOOSE l : l = F(l)) = F(CHOOSE l : l = F(l))
    BY <1>2
  <2> QED
    BY <2>1, <2>2
<1>4. Len(s) \in Nat /\ 0 \in 0..Len(s) /\ \A i \in 1..Len(s) : i \in 0..Len(s) /\ i # 0
  BY LenProperties
<1>5. DOMAIN l = 0..Len(s) /\ \A i \in 0..Len(s) : l[i] = IF i = 0 THEN <<>>
            ELSE IF s[i] \in T THEN Append(l[i - 1], s[i]) ELSE l[i - 1]
  BY <1>3
<1>6. Keeps(l, s, T, Len(s))
  BY <1>4, <1>5 DEF Keeps
<1> QED
  BY <1>3, <1>6

\* What is kept of the first n elements of s: those of them that are in T, no new ones,
\* none twice that was not there twice.
LEMMA KeepsFacts ==
    ASSUME NEW S, NEW s \in Seq(S), NEW T, NEW k, Keeps(k, s, T, Len(s)),
           NEW n \in 0..Len(s)
    PROVE  /\ k[n] \in Seq(S)
           /\ ToSet(k[n]) = {s[i] : i \in 1..n} \cap T
           /\ IsInjective(s) => IsInjective(k[n])
<1> DEFINE Elements(m) == {s[i] : i \in 1..m}
           P(m) == /\ k[m] \in Seq(S)
                   /\ ToSet(k[m]) = Elements(m) \cap T
                   /\ IsInjective(s) => IsInjective(k[m])
           I == {m \in Nat : m <= Len(s) => P(m)}
<1>0. Len(s) \in Nat /\ DOMAIN s = 1..Len(s) /\ \A i \in 1..Len(s) : s[i] \in S
  BY LenProperties, ElementOfSeq
<1>1. 0 \in I
  <2>1. k[0] = <<>>
    BY DEF Keeps
  <2>2. <<>> \in Seq(S) /\ ToSet(<<>>) = {} /\ IsInjective(<<>>) /\ Elements(0) = {}
    BY DEF ToSet, IsInjective
  <2> QED
    BY <2>1, <2>2
<1>2. ASSUME NEW m \in I PROVE m + 1 \in I
  <2> SUFFICES ASSUME m + 1 <= Len(s) PROVE P(m + 1)
    OBVIOUS
  <2>1. P(m) /\ m + 1 \in 1..Len(s) /\ (m + 1) - 1 = m /\ m \in Nat
    BY <1>0
  <2>2. k[m + 1] = IF s[m + 1] \in T THEN Append(k[m], s[m + 1]) ELSE k[m]
    BY <2>1 DEF Keeps
  <2>3. Elements(m + 1) = Elements(m) \cup {s[m + 1]}
    <3>1. \A i : i \in 1..(m + 1) <=> i \in 1..m \/ i = m + 1
      BY <2>1
    <3> QED
      BY <3>1
  <2>4. IsInjective(s) => s[m + 1] \notin Elements(m)
    BY <1>0, <2>1 DEF IsInjective
  <2>5. CASE s[m + 1] \in T
    <3>1. k[m + 1] = Append(k[m], s[m + 1]) /\ k[m] \in Seq(S) /\ s[m + 1] \in S
      BY <1>0, <2>1, <2>2, <2>5
    <3>2. ToSet(k[m + 1]) = ToSet(k[m]) \cup {s[m + 1]}
      BY <3>1, ToSetAppend
    <3>3. k[m + 1] \in Seq(S)
      BY <3>1, AppendAt
    <3>4. IsInjective(s) => IsInjective(k[m + 1])
      BY <2>1, <2>4, <3>1, InjectiveAppend
    <3> HIDE DEF Elements
    <3> QED
      BY <2>1, <2>3, <2>5, <3>2, <3>3, <3>4
  <2>6. CASE s[m + 1] \notin T
    <3> HIDE DEF Elements
    <3> QED
      BY <2>1, <2>2, <2>3, <2>6
  <2> QED
    BY <2>5, <2>6
<1>3. I = Nat
  BY <1>1, <1>2, SetInduction
<1>4. P(n)
  <2>1. n \in Nat /\ n <= Len(s)
    BY <1>0
  <2> HIDE DEF P
  <2>2. n \in I
    BY <1>3, <2>1
  <2> QED
    BY <2>1, <2>2
<1> QED
  BY <1>4

\* What is kept of a sequence: its elements in T; if it had none twice, none twice.
LEMMA KeepFacts ==
    ASSUME NEW S, NEW s \in Seq(S), NEW T
    PROVE  /\ Keep(s, T) \in Seq(S)
           /\ ToSet(Keep(s, T)) = ToSet(s) \cap T
           /\ IsInjective(s) => IsInjective(Keep(s, T))
<1>1. PICK k : Keeps(k, s, T, Len(s)) /\ Keep(s, T) = k[Len(s)]
  BY KeepDef
<1>2. Len(s) \in 0..Len(s) /\ DOMAIN s = 1..Len(s)
  BY LenProperties
<1>3. ToSet(s) = {s[i] : i \in 1..Len(s)}
  BY <1>2 DEF ToSet
<1>4. /\ k[Len(s)] \in Seq(S)
      /\ ToSet(k[Len(s)]) = {s[i] : i \in 1..Len(s)} \cap T
      /\ IsInjective(s) => IsInjective(k[Len(s)])
  BY <1>1, <1>2, KeepsFacts
<1> QED
  BY <1>1, <1>3, <1>4

-----------------------------------------------------------------------------
(* The elements of a sequence that are in a set.                           *)

HasAny(s, F)    == \E i \in 1..Len(s) : s[i] \in F
AtMostOne(s, F) == \A i, j \in 1..Len(s) : s[i] \in F /\ s[j] \in F => i = j

\* Appending adds one to them if the new element is in the set.
LEMMA HasAnyAppend ==
    ASSUME NEW S, NEW s \in Seq(S), NEW x \in S, NEW F
    PROVE  /\ HasAny(Append(s, x), F) <=> HasAny(s, F) \/ x \in F
           /\ AtMostOne(s, F) /\ ~(HasAny(s, F) /\ x \in F) => AtMostOne(Append(s, x), F)
<1>1. Len(s) \in Nat /\ Len(Append(s, x)) = Len(s) + 1
  BY AppendAt, LenProperties
<1>2. \A i \in 1..(Len(s) + 1) : Append(s, x)[i] = IF i = Len(s) + 1 THEN x ELSE s[i]
  BY <1>1, AppendAt
<1>3. \A i : i \in 1..(Len(s) + 1) <=> i \in 1..Len(s) \/ i = Len(s) + 1
  BY <1>1
<1>4. Len(s) + 1 \notin 1..Len(s)
  BY <1>1
<1>5. HasAny(Append(s, x), F) <=> HasAny(s, F) \/ x \in F
  <2>1. HasAny(Append(s, x), F) <=> \E i \in 1..(Len(s) + 1) : Append(s, x)[i] \in F
    BY <1>1 DEF HasAny
  <2> QED
    BY <1>2, <1>3, <1>4, <2>1 DEF HasAny
<1>6. ASSUME AtMostOne(s, F), ~(HasAny(s, F) /\ x \in F),
             NEW i \in 1..(Len(s) + 1), NEW j \in 1..(Len(s) + 1),
             Append(s, x)[i] \in F, Append(s, x)[j] \in F
      PROVE  i = j
  <2>1. CASE i = Len(s) + 1
    BY <1>2, <1>3, <1>4, <1>6, <2>1 DEF HasAny
  <2>2. CASE j = Len(s) + 1
    BY <1>2, <1>3, <1>4, <1>6, <2>2 DEF HasAny
  <2>3. CASE i # Len(s) + 1 /\ j # Len(s) + 1
    <3>1. i \in 1..Len(s) /\ j \in 1..Len(s) /\ s[i] \in F /\ s[j] \in F
      BY <1>2, <1>3, <1>6, <2>3
    <3> QED
      BY <1>6, <3>1 DEF AtMostOne
  <2> QED
    BY <2>1, <2>2, <2>3
<1> QED
  BY <1>1, <1>5, <1>6 DEF AtMostOne

\* They are the head, if it is in the set, and those of the tail.
LEMMA HasAnyTail ==
    ASSUME NEW S, NEW s \in Seq(S), s # <<>>, NEW F
    PROVE  /\ HasAny(s, F) <=> Head(s) \in F \/ HasAny(Tail(s), F)
           /\ AtMostOne(s, F) => AtMostOne(Tail(s), F) /\ ~(Head(s) \in F /\ HasAny(Tail(s), F))
<1>1. /\ Head(s) = s[1] /\ Len(s) \in Nat /\ Len(s) >= 1 /\ Len(Tail(s)) = Len(s) - 1
      /\ \A i \in 1..(Len(s) - 1) : Tail(s)[i] = s[i + 1]
  BY TailAt
<1>2. ASSUME HasAny(s, F) PROVE Head(s) \in F \/ HasAny(Tail(s), F)
  <2>1. PICK i \in 1..Len(s) : s[i] \in F
    BY <1>2 DEF HasAny
  <2>2. i = 1 \/ (i - 1 \in 1..(Len(s) - 1) /\ Tail(s)[i - 1] = s[i])
    BY <1>1
  <2> QED
    BY <1>1, <2>1, <2>2 DEF HasAny
<1>3. Head(s) \in F => HasAny(s, F)
  BY <1>1 DEF HasAny
<1>4. \A i \in 1..Len(Tail(s)) : i + 1 \in 1..Len(s) /\ s[i + 1] = Tail(s)[i] /\ i \in Nat
  BY <1>1
<1>5. HasAny(Tail(s), F) => HasAny(s, F)
  BY <1>4 DEF HasAny
<1>6. ASSUME AtMostOne(s, F), NEW i \in 1..Len(Tail(s)), NEW j \in 1..Len(Tail(s)),
             Tail(s)[i] \in F, Tail(s)[j] \in F
      PROVE  i = j
  <2>1. i + 1 = j + 1
    BY <1>4, <1>6 DEF AtMostOne
  <2> QED
    BY <1>4, <2>1
<1>7. ASSUME AtMostOne(s, F), Head(s) \in F, NEW i \in 1..Len(Tail(s)), Tail(s)[i] \in F
      PROVE  FALSE
  <2>1. 1 \in 1..Len(s) /\ i + 1 = 1
    BY <1>1, <1>4, <1>7 DEF AtMostOne
  <2> QED
    BY <1>4, <2>1
<1> QED
  BY <1>2, <1>3, <1>5, <1>6, <1>7 DEF HasAny, AtMostOne

\* A sequence without repetitions is as long as its elements are many.
LEMMA InjectiveLen ==
    ASSUME NEW S, NEW s \in Seq(S), IsInjective(s)
    PROVE  IsFiniteSet(ToSet(s)) /\ Cardinality(ToSet(s)) = Len(s)
<1>1. Len(s) \in Nat /\ DOMAIN s = 1..Len(s) /\ s \in [1..Len(s) -> S]
  BY LenProperties
<1>2. s \in [1..Len(s) -> ToSet(s)] /\ s = [i \in 1..Len(s) |-> s[i]]
  BY <1>1 DEF ToSet
<1>3. \A i, j \in 1..Len(s) : s[i] = s[j] => i = j
  BY <1>1 DEF IsInjective
<1>4. \A y \in ToSet(s) : \E i \in 1..Len(s) : s[i] = y
  BY <1>1 DEF ToSet
<1>5. s \in Bijection(1..Len(s), ToSet(s))
  BY <1>2, <1>3, <1>4, Fun_IsBij
<1>6. ExistsBijection(1..Len(s), ToSet(s))
  BY <1>5 DEF ExistsBijection
<1>7. IsFiniteSet(ToSet(s))
  BY <1>1, <1>6, FS_NatBijection
<1> QED
  BY <1>1, <1>6, <1>7, FS_CountingElements

\* The first elements of a sequence.
LEMMA PrefixFacts ==
    ASSUME NEW S, NEW s \in Seq(S), NEW n \in 0..Len(s)
    PROVE  /\ SubSeq(s, 1, n) \in Seq(S) /\ Len(SubSeq(s, 1, n)) = n
           /\ \A i \in 1..n : SubSeq(s, 1, n)[i] = s[i]
           /\ ToSet(SubSeq(s, 1, n)) \subseteq ToSet(s)
           /\ n = Len(s) => SubSeq(s, 1, n) = s
           /\ IsInjective(s) => IsInjective(SubSeq(s, 1, n))
<1> DEFINE p == SubSeq(s, 1, n)
<1>1. Len(s) \in Nat /\ DOMAIN s = 1..Len(s) /\ \A i \in 1..n : s[i] \in S
  BY LenProperties, ElementOfSeq
<1>2. p \in Seq(S) /\ Len(p) = (IF 1 <= n THEN n - 1 + 1 ELSE 0) /\ \A i \in 1..(n - 1 + 1) : p[i] = s[1 + i - 1]
  BY <1>1, SubSeqProperties
<1>3. n = Len(s) => p = s
  BY SubSeqFull
<1> HIDE DEF p
<1>4. Len(p) = n /\ \A i \in 1..n : p[i] = s[i]
  BY <1>2
<1>5. DOMAIN p = 1..n /\ 1..n \subseteq 1..Len(s)
  BY <1>1, <1>2, <1>4, LenProperties
<1>6. ToSet(p) \subseteq ToSet(s)
  BY <1>1, <1>4, <1>5 DEF ToSet
<1>7. IsInjective(s) => IsInjective(p)
  BY <1>1, <1>4, <1>5 DEF IsInjective
<1> QED
  BY <1>2, <1>3, <1>4, <1>6, <1>7 DEF p

-----------------------------------------------------------------------------
(* More of Keep.                                                           *)

\* The first n elements of s and r are the same, and so is which are in T and in U.
Alike(s, T, r, U, n) == \A i \in 1..n : s[i] = r[i] /\ (s[i] \in T <=> s[i] \in U)

\* A function on 1..n is a sequence.
LEMMA FunctionIsSeq ==
    ASSUME NEW S, NEW n \in Nat, NEW f \in [1..n -> S]
    PROVE  f \in Seq(S) /\ Len(f) = n
<1>1. f \in Seq(S)
  BY SeqDef
<1> QED
  BY <1>1, LenProperties

\* Solutions of the recursion of Keep agree where what they keep agrees.
LEMMA KeepsSame ==
    ASSUME NEW S, NEW s \in Seq(S), NEW r \in Seq(S), NEW T, NEW U, NEW k, NEW l,
           NEW n \in 0..Len(s), n <= Len(r),
           Keeps(k, s, T, Len(s)), Keeps(l, r, U, Len(r)),
           Alike(s, T, r, U, n)
    PROVE  k[n] = l[n]
<1> DEFINE I == {m \in Nat : m <= n => k[m] = l[m]}
<1>1. Len(s) \in Nat /\ Len(r) \in Nat /\ n \in Nat /\ n <= Len(s)
  BY LenProperties
<1>2. 0 \in I
  BY DEF Keeps
<1>3. ASSUME NEW m \in I PROVE m + 1 \in I
  <2> SUFFICES ASSUME m + 1 <= n PROVE k[m + 1] = l[m + 1]
    OBVIOUS
  <2>1. m \in Nat /\ k[m] = l[m] /\ m + 1 \in 1..n /\ m + 1 \in 1..Len(s) /\ m + 1 \in 1..Len(r)
    BY <1>1, <1>3
  <2>2. (m + 1) - 1 = m
    BY <2>1
  <2>3. k[m + 1] = IF s[m + 1] \in T THEN Append(k[m], s[m + 1]) ELSE k[m]
    BY <2>1, <2>2 DEF Keeps
  <2>4. l[m + 1] = IF r[m + 1] \in U THEN Append(l[m], r[m + 1]) ELSE l[m]
    BY <2>1, <2>2 DEF Keeps
  <2> QED
    BY <2>1, <2>3, <2>4 DEF Alike
<1> HIDE DEF I
<1>4. I = Nat
  <2>1. I \in SUBSET Nat
    BY DEF I
  <2> QED
    BY <1>2, <1>3, <2>1, SetInduction
<1>5. n \in I
  BY <1>1, <1>4
<1> QED
  BY <1>1, <1>5 DEF I

\* What is kept does not depend on the elements that are not in the sequence.
LEMMA KeepSame ==
    ASSUME NEW S, NEW s \in Seq(S), NEW T, NEW U, \A x \in ToSet(s) : x \in T <=> x \in U
    PROVE  Keep(s, T) = Keep(s, U)
<1>1. PICK k : Keeps(k, s, T, Len(s)) /\ Keep(s, T) = k[Len(s)]
  BY KeepDef
<1>2. PICK l : Keeps(l, s, U, Len(s)) /\ Keep(s, U) = l[Len(s)]
  BY KeepDef
<1>3. Len(s) \in 0..Len(s) /\ Len(s) <= Len(s) /\ \A i \in 1..Len(s) : s[i] \in ToSet(s)
  BY LenProperties DEF ToSet
<1>4. Alike(s, T, s, U, Len(s))
  BY <1>3 DEF Alike
<1>5. Len(s) \in 0..Len(s) /\ Len(s) <= Len(s)
  BY <1>3
<1> DEFINE n == Len(s)
<1>6. Keeps(k, s, T, n) /\ Keeps(l, s, U, n)
  BY <1>1, <1>2
<1>7. k[n] = l[n]
  BY <1>4, <1>5, <1>6, KeepsSame
<1> QED
  BY <1>1, <1>2, <1>7

\* What is kept after an Append.
LEMMA KeepAppend ==
    ASSUME NEW S, NEW s \in Seq(S), NEW x \in S, NEW T
    PROVE  Keep(Append(s, x), T) = IF x \in T THEN Append(Keep(s, T), x) ELSE Keep(s, T)
<1> DEFINE r == Append(s, x)
           n == Len(s)
<1>1. /\ r \in Seq(S) /\ Len(r) = n + 1 /\ n \in Nat
      /\ \A i \in 1..n : r[i] = s[i]
      /\ r[n + 1] = x
  BY AppendAt, LenProperties
<1> HIDE DEF r
<1>2. PICK k : Keeps(k, s, T, n) /\ Keep(s, T) = k[n]
  BY KeepDef
<1>3. PICK l : Keeps(l, r, T, Len(r)) /\ Keep(r, T) = l[Len(r)]
  BY <1>1, KeepDef
<1>4. k[n] = l[n]
  <2>1. n \in 0..Len(s) /\ n <= Len(r)
    BY <1>1
  <2>2. Alike(s, T, r, T, n)
    BY <1>1 DEF Alike
  <2>3. Keeps(k, s, T, Len(s)) /\ Keeps(l, r, T, Len(r)) /\ r \in Seq(S)
    BY <1>1, <1>2, <1>3
  <2> HIDE DEF n
  <2> QED
    BY <2>1, <2>2, <2>3, KeepsSame
<1>5. l[n + 1] = IF x \in T THEN Append(l[n], x) ELSE l[n]
  <2>1. n + 1 \in 1..Len(r) /\ (n + 1) - 1 = n
    BY <1>1
  <2> QED
    BY <1>1, <1>3, <2>1 DEF Keeps
<1> QED
  BY <1>1, <1>2, <1>3, <1>4, <1>5 DEF r

\* All is kept.
LEMMA KeepAll ==
    ASSUME NEW S, NEW s \in Seq(S), NEW T, ToSet(s) \subseteq T
    PROVE  Keep(s, T) = s
<1> DEFINE k == [i \in 0..Len(s) |-> SubSeq(s, 1, i)]
<1>0. Len(s) \in Nat
  BY LenProperties
<1>1. Keeps(k, s, T, Len(s))
  <2>1. k[0] = <<>>
    <3>1. SubSeq(s, 1, 0) \in Seq(S) /\ Len(SubSeq(s, 1, 0)) = 0
      BY <1>0, PrefixFacts
    <3> QED
      BY <1>0, <3>1, EmptySeq
  <2>2. ASSUME NEW i \in 1..Len(s) PROVE k[i] = Append(k[i - 1], s[i]) /\ s[i] \in T
    <3>1. s[i] \in T /\ s[i] \in S
      BY <1>0, ElementOfSeq, LenProperties DEF ToSet
    <3>2. /\ SubSeq(s, 1, i) \in Seq(S) /\ Len(SubSeq(s, 1, i)) = i
          /\ \A j \in 1..i : SubSeq(s, 1, i)[j] = s[j]
      BY <1>0, PrefixFacts
    <3>3. /\ SubSeq(s, 1, i - 1) \in Seq(S) /\ Len(SubSeq(s, 1, i - 1)) = i - 1
          /\ \A j \in 1..(i - 1) : SubSeq(s, 1, i - 1)[j] = s[j]
      <4>1. i - 1 \in 0..Len(s)
        BY <1>0
      <4> QED
        BY <4>1, PrefixFacts
    <3> DEFINE a == Append(SubSeq(s, 1, i - 1), s[i])
    <3>4. /\ a \in Seq(S) /\ Len(a) = i /\ a[i] = s[i]
          /\ \A j \in 1..(i - 1) : a[j] = s[j]
      BY <1>0, <3>1, <3>3, AppendAt
    <3>5. \A j \in 1..i : a[j] = SubSeq(s, 1, i)[j]
      BY <3>2, <3>4
    <3> HIDE DEF a
    <3>6. SubSeq(s, 1, i) = a
      BY <3>2, <3>4, <3>5, SeqEqual
    <3>7. k[i] = SubSeq(s, 1, i) /\ k[i - 1] = SubSeq(s, 1, i - 1)
      BY <1>0
    <3> QED
      BY <3>1, <3>6, <3>7 DEF a
  <2>3. DOMAIN k = 0..Len(s)
    OBVIOUS
  <2> HIDE DEF k
  <2> QED
    BY <2>1, <2>2, <2>3 DEF Keeps
<1>2. PICK l : Keeps(l, s, T, Len(s)) /\ Keep(s, T) = l[Len(s)]
  BY KeepDef
<1>3. k[Len(s)] = l[Len(s)]
  <2>1. Len(s) \in 0..Len(s) /\ Len(s) <= Len(s) /\ Alike(s, T, s, T, Len(s))
    BY <1>0 DEF Alike
  <2> HIDE DEF k
  <2> QED
    BY <1>1, <1>2, <2>1, KeepsSame
<1>4. k[Len(s)] = s
  BY <1>0, PrefixFacts
<1> QED
  BY <1>2, <1>3, <1>4

\* All is kept but one.
LEMMA KeepAllBut ==
    ASSUME NEW S, NEW s \in Seq(S), NEW T, NEW i \in 1..Len(s), s[i] \notin T,
           \A j \in 1..Len(s) : j # i => s[j] \in T
    PROVE  /\ Keep(s, T) \in Seq(S) /\ Len(Keep(s, T)) = Len(s) - 1
           /\ \A j \in 1..(Len(s) - 1) : Keep(s, T)[j] = IF j < i THEN s[j] ELSE s[j + 1]
<1> DEFINE last(m) == IF m < i THEN m ELSE m - 1
           g(m) == [j \in 1..last(m) |-> IF j < i THEN s[j] ELSE s[j + 1]]
           k == [m \in 0..Len(s) |-> g(m)]
<1>0. Len(s) \in Nat /\ i \in Nat /\ i <= Len(s) /\ i >= 1 /\ \A j \in 1..Len(s) : s[j] \in S
  BY LenProperties, ElementOfSeq
<1>1. ASSUME NEW m \in 0..Len(s)
      PROVE  /\ g(m) \in Seq(S) /\ Len(g(m)) = last(m)
             /\ \A j \in 1..last(m) : g(m)[j] = IF j < i THEN s[j] ELSE s[j + 1]
  <2>1. last(m) \in Nat
    BY <1>0
  <2>2. \A j \in 1..last(m) : (IF j < i THEN s[j] ELSE s[j + 1]) \in S
    BY <1>0
  <2>3. \A j \in 1..last(m) : g(m)[j] = IF j < i THEN s[j] ELSE s[j + 1]
    OBVIOUS
  <2> HIDE DEF last
  <2>4. g(m) \in [1..last(m) -> S]
    BY <2>2
  <2> HIDE DEF g
  <2>5. g(m) \in Seq(S) /\ Len(g(m)) = last(m)
    BY <2>1, <2>4, FunctionIsSeq
  <2> QED
    BY <2>3, <2>5
<1>2. g(0) = <<>>
  <2>1. g(0) \in Seq(S) /\ Len(g(0)) = last(0)
    BY <1>0, <1>1
  <2>2. last(0) = 0
    BY <1>0
  <2> HIDE DEF g, last
  <2> QED
    BY <2>1, <2>2, EmptySeq
<1>3. ASSUME NEW m \in 1..Len(s), m # i PROVE g(m) = Append(g(m - 1), s[m])
  <2>1. m - 1 \in 0..Len(s) /\ m \in 0..Len(s) /\ m \in Nat
    BY <1>0
  <2>2. /\ g(m - 1) \in Seq(S) /\ Len(g(m - 1)) = last(m - 1)
        /\ \A j \in 1..last(m - 1) : g(m - 1)[j] = IF j < i THEN s[j] ELSE s[j + 1]
    BY <1>1, <2>1
  <2>3. /\ g(m) \in Seq(S) /\ Len(g(m)) = last(m)
        /\ \A j \in 1..last(m) : g(m)[j] = IF j < i THEN s[j] ELSE s[j + 1]
    BY <1>1, <2>1
  <2>4. /\ last(m) = last(m - 1) + 1 /\ last(m - 1) \in Nat
        /\ (IF last(m) < i THEN s[last(m)] ELSE s[last(m) + 1]) = s[m]
    BY <1>0, <1>3, <2>1
  <2>5. s[m] \in S
    BY <1>0
  <2> DEFINE a == Append(g(m - 1), s[m])
  <2> HIDE DEF g, last
  <2>6. /\ a \in Seq(S) /\ Len(a) = last(m) /\ a[last(m)] = s[m]
        /\ \A j \in 1..last(m - 1) : a[j] = g(m - 1)[j]
    BY <2>2, <2>4, <2>5, AppendAt
  <2>7. \A j \in 1..last(m) : j \in 1..last(m - 1) \/ j = last(m)
    BY <2>4
  <2>8. \A j \in 1..last(m) : a[j] = g(m)[j]
    BY <2>2, <2>3, <2>4, <2>6, <2>7
  <2> HIDE DEF a
  <2>9. a = g(m)
    BY <2>3, <2>6, <2>8, SeqEqual
  <2> QED
    BY <2>9 DEF a
<1>4. g(i) = g(i - 1)
  <2>1. last(i) = last(i - 1)
    BY <1>0
  <2> QED
    BY <2>1
<1>5. Keeps(k, s, T, Len(s))
  <2>1. DOMAIN k = 0..Len(s) /\ k[0] = <<>>
    BY <1>0, <1>2
  <2>2. ASSUME NEW m \in 1..Len(s)
        PROVE  k[m] = IF s[m] \in T THEN Append(k[m - 1], s[m]) ELSE k[m - 1]
    <3>1. k[m] = g(m) /\ k[m - 1] = g(m - 1)
      BY <1>0
    <3>2. s[m] \in T <=> m # i
      BY <1>0
    <3> HIDE DEF k, g
    <3> QED
      BY <1>3, <1>4, <3>1, <3>2
  <2> HIDE DEF k
  <2> QED
    BY <2>1, <2>2 DEF Keeps
<1>6. PICK l : Keeps(l, s, T, Len(s)) /\ Keep(s, T) = l[Len(s)]
  BY KeepDef
<1>7. k[Len(s)] = l[Len(s)]
  <2>1. Len(s) \in 0..Len(s) /\ Len(s) <= Len(s) /\ Alike(s, T, s, T, Len(s))
    BY <1>0 DEF Alike
  <2> HIDE DEF k
  <2> QED
    BY <1>5, <1>6, <2>1, KeepsSame
<1>8. k[Len(s)] = g(Len(s)) /\ last(Len(s)) = Len(s) - 1 /\ Len(s) \in 0..Len(s)
  BY <1>0
<1>9. /\ g(Len(s)) \in Seq(S) /\ Len(g(Len(s))) = last(Len(s))
      /\ \A j \in 1..last(Len(s)) : g(Len(s))[j] = IF j < i THEN s[j] ELSE s[j + 1]
  BY <1>1, <1>8
<1>10. Keep(s, T) = g(Len(s))
  BY <1>6, <1>7, <1>8
<1> HIDE DEF k, g, last
<1>11. /\ g(Len(s)) \in Seq(S) /\ Len(g(Len(s))) = Len(s) - 1
       /\ \A j \in 1..(Len(s) - 1) : g(Len(s))[j] = IF j < i THEN s[j] ELSE s[j + 1]
  BY <1>8, <1>9
<1> QED
  BY <1>10, <1>11

-----------------------------------------------------------------------------
(* Sequences one after the other, and what is kept of them.                *)

\* Induction over sequences, for a set: a set that has the empty sequence, and with each
\* sequence those that are longer by one, has them all.
LEMMA SeqInduction ==
    ASSUME NEW S, NEW J \in SUBSET Seq(S), <<>> \in J, \A s \in J, x \in S : Append(s, x) \in J
    PROVE  J = Seq(S)
<1> DEFINE I == {n \in Nat : \A s \in Seq(S) : Len(s) = n => s \in J}
<1>1. 0 \in I
  BY EmptySeq
<1>2. ASSUME NEW n \in I PROVE n + 1 \in I
  <2> SUFFICES ASSUME NEW s \in Seq(S), Len(s) = n + 1 PROVE s \in J
    OBVIOUS
  <2>1. n \in Nat /\ s # <<>>
    BY EmptySeq
  <2>2. PICK t \in Seq(S), x \in S : s = Append(t, x)
    BY <2>1, SequenceEmptyOrAppend
  <2>3. Len(t) = n
    BY <2>1, <2>2, AppendAt, LenProperties
  <2>4. t \in J
    BY <2>3
  <2> QED
    BY <2>2, <2>4
<1>3. I = Nat
  BY <1>1, <1>2, SetInduction
<1> QED
  BY <1>3, LenProperties

\* Appending to the second of two sequences.
LEMMA ConcatAppend ==
    ASSUME NEW S, NEW s \in Seq(S), NEW t \in Seq(S), NEW x \in S
    PROVE  s \o Append(t, x) = Append(s \o t, x)
<1>1. <<x>> \in Seq(S) /\ s \o t \in Seq(S)
  BY ConcatProperties
<1>2. Append(t, x) = t \o <<x>> /\ Append(s \o t, x) = (s \o t) \o <<x>>
  BY <1>1, AppendIsConcat
<1> QED
  BY <1>1, <1>2, ConcatAssociative

\* Nothing is kept of nothing.
LEMMA KeepEmpty ==
    ASSUME NEW T
    PROVE  Keep(<<>>, T) = <<>>
<1>1. <<>> \in Seq({}) /\ Len(<<>>) = 0
  BY EmptySeq
<1>2. PICK k : Keeps(k, <<>>, T, Len(<<>>)) /\ Keep(<<>>, T) = k[Len(<<>>)]
  BY <1>1, KeepDef
<1> QED
  BY <1>1, <1>2 DEF Keeps

\* What is kept of two sequences, one after the other.
LEMMA KeepConcat ==
    ASSUME NEW S, NEW s \in Seq(S), NEW t \in Seq(S), NEW T
    PROVE  Keep(s \o t, T) = Keep(s, T) \o Keep(t, T)
<1> DEFINE J == {u \in Seq(S) : Keep(s \o u, T) = Keep(s, T) \o Keep(u, T)}
<1>1. Keep(s, T) \in Seq(S)
  BY KeepFacts
<1>2. <<>> \in J
  <2>1. <<>> \in Seq(S) /\ s \o <<>> = s /\ Keep(s, T) \o <<>> = Keep(s, T)
    BY <1>1, EmptySeq, ConcatEmptySeq
  <2> QED
    BY <2>1, KeepEmpty
<1>3. ASSUME NEW u \in J, NEW x \in S PROVE Append(u, x) \in J
  <2>1. u \in Seq(S) /\ Keep(s \o u, T) = Keep(s, T) \o Keep(u, T)
    OBVIOUS
  <2>2. Append(u, x) \in Seq(S) /\ s \o u \in Seq(S) /\ Keep(u, T) \in Seq(S)
    BY <2>1, AppendAt, ConcatProperties, KeepFacts
  <2>3. s \o Append(u, x) = Append(s \o u, x)
    BY <2>1, ConcatAppend
  <2> DEFINE v == s \o u
  <2>4. Keep(Append(v, x), T) = IF x \in T THEN Append(Keep(v, T), x) ELSE Keep(v, T)
    <3> v \in Seq(S)
      BY <2>2
    <3> HIDE DEF v, J
    <3> QED
      BY KeepAppend
  <2>5. Keep(Append(u, x), T) = IF x \in T THEN Append(Keep(u, T), x) ELSE Keep(u, T)
    BY <2>1, KeepAppend
  <2>6. Keep(s, T) \o Append(Keep(u, T), x) = Append(Keep(s, T) \o Keep(u, T), x)
    BY <1>1, <2>2, ConcatAppend
  <2>7. Keep(s \o Append(u, x), T) = Keep(s, T) \o Keep(Append(u, x), T)
    BY <2>1, <2>3, <2>4, <2>5, <2>6
  <2> QED
    BY <2>2, <2>7
<1> HIDE DEF J
<1>4. J = Seq(S)
  <2>1. J \in SUBSET Seq(S)
    BY DEF J
  <2> QED
    BY <1>2, <1>3, <2>1, SeqInduction
<1> QED
  BY <1>4 DEF J

\* What is kept of what is kept.
LEMMA KeepKeep ==
    ASSUME NEW S, NEW s \in Seq(S), NEW T, NEW U, U \subseteq T
    PROVE  Keep(Keep(s, T), U) = Keep(s, U)
<1> DEFINE J == {u \in Seq(S) : Keep(Keep(u, T), U) = Keep(u, U)}
<1>1. <<>> \in J
  BY EmptySeq, KeepEmpty
<1>2. ASSUME NEW u \in J, NEW x \in S PROVE Append(u, x) \in J
  <2>1. u \in Seq(S) /\ Keep(Keep(u, T), U) = Keep(u, U)
    OBVIOUS
  <2>2. Append(u, x) \in Seq(S) /\ Keep(u, T) \in Seq(S)
    BY <2>1, AppendAt, KeepFacts
  <2>3. Keep(Append(u, x), T) = IF x \in T THEN Append(Keep(u, T), x) ELSE Keep(u, T)
    BY <2>1, KeepAppend
  <2>4. Keep(Append(u, x), U) = IF x \in U THEN Append(Keep(u, U), x) ELSE Keep(u, U)
    BY <2>1, KeepAppend
  <2>5. Keep(Append(Keep(u, T), x), U)
           = IF x \in U THEN Append(Keep(Keep(u, T), U), x) ELSE Keep(Keep(u, T), U)
    BY <2>2, KeepAppend
  <2>6. x \in U => x \in T
    OBVIOUS
  <2>7. Keep(Keep(Append(u, x), T), U) = Keep(Append(u, x), U)
    BY <2>1, <2>3, <2>4, <2>5, <2>6
  <2> QED
    BY <2>2, <2>7
<1> HIDE DEF J
<1>3. J = Seq(S)
  <2>1. J \in SUBSET Seq(S)
    BY DEF J
  <2> QED
    BY <1>1, <1>2, <2>1, SeqInduction
<1> QED
  BY <1>3 DEF J

\* Nothing is kept of a sequence that has no element in the set.
LEMMA KeepNone ==
    ASSUME NEW S, NEW s \in Seq(S), NEW T
    PROVE  Keep(s, T) = <<>> <=> ToSet(s) \cap T = {}
<1>1. Keep(s, T) \in Seq(S) /\ ToSet(Keep(s, T)) = ToSet(s) \cap T
  BY KeepFacts
<1>2. Keep(s, T) = <<>> => ToSet(Keep(s, T)) = {}
  BY DEF ToSet
<1>3. ASSUME Keep(s, T) # <<>> PROVE ToSet(Keep(s, T)) # {}
  <2>1. 1 \in DOMAIN Keep(s, T)
    BY <1>1, <1>3, EmptySeq, LenProperties
  <2> QED
    BY <2>1 DEF ToSet
<1> QED
  BY <1>1, <1>2, <1>3

\* A sequence is a prefix of every sequence that begins with it.
LEMMA PrefixOfConcat ==
    ASSUME NEW S, NEW s \in Seq(S), NEW t \in Seq(S)
    PROVE  IsPrefix(s, s \o t)
<1> DEFINE u == s \o t
<1>1. /\ u \in Seq(S) /\ Len(s) \in Nat /\ Len(t) \in Nat /\ Len(u) = Len(s) + Len(t)
      /\ \A i \in 1..Len(s) : u[i] = s[i]
  BY ConcatProperties, LenProperties
<1> HIDE DEF u
<1>2. Len(s) \in 0..Len(u) /\ Len(s) \in 0..Len(s)
  BY <1>1
<1>3. /\ SubSeq(u, 1, Len(s)) \in Seq(S) /\ Len(SubSeq(u, 1, Len(s))) = Len(s)
      /\ \A i \in 1..Len(s) : SubSeq(u, 1, Len(s))[i] = u[i]
  BY <1>1, <1>2, PrefixFacts
<1>4. SubSeq(s, 1, Len(s)) = s
  BY SubSeqFull
<1>5. SubSeq(u, 1, Len(s)) = s
  BY <1>1, <1>3, SeqEqual
<1>6. IsPrefix(s, u)
  BY <1>1, <1>4, <1>5 DEF IsPrefix
<1> QED
  BY <1>6 DEF u

-----------------------------------------------------------------------------
(* Rising sequences of numbers.                                            *)

Rising(s)  == \A i \in 2..Len(s) : s[i - 1] < s[i]
Numbers(n) == [p \in 1..n |-> p]

\* A sequence stays rising if the number appended is greater than all.
LEMMA RisingAppend ==
    ASSUME NEW s \in Seq(Nat), Rising(s), NEW x \in Nat, \A y \in ToSet(s) : y < x
    PROVE  Rising(Append(s, x))
<1>1. /\ Len(s) \in Nat /\ Len(Append(s, x)) = Len(s) + 1 /\ DOMAIN s = 1..Len(s)
      /\ \A i \in 1..Len(s) : Append(s, x)[i] = s[i]
      /\ Append(s, x)[Len(s) + 1] = x
  BY AppendAt, LenProperties
<1> SUFFICES ASSUME NEW i \in 2..(Len(s) + 1) PROVE Append(s, x)[i - 1] < Append(s, x)[i]
  BY <1>1 DEF Rising
<1>2. i - 1 \in 1..Len(s) /\ Append(s, x)[i - 1] = s[i - 1]
  BY <1>1
<1>3. CASE i = Len(s) + 1
  BY <1>1, <1>2, <1>3 DEF ToSet
<1>4. CASE i # Len(s) + 1
  <2>1. i \in 2..Len(s) /\ i \in 1..Len(s)
    BY <1>1, <1>4
  <2> QED
    BY <1>1, <1>2, <2>1 DEF Rising
<1> QED
  BY <1>3, <1>4

\* The first n numbers, and one more.
LEMMA NumbersFacts ==
    ASSUME NEW n \in Nat
    PROVE  /\ Numbers(n) \in Seq(Nat) /\ ToSet(Numbers(n)) = 1..n
           /\ Numbers(n + 1) = Append(Numbers(n), n + 1)
<1>1. ASSUME NEW m \in Nat
      PROVE  /\ Numbers(m) \in Seq(Nat) /\ Len(Numbers(m)) = m /\ ToSet(Numbers(m)) = 1..m
             /\ \A p \in 1..m : Numbers(m)[p] = p
  <2>1. Numbers(m) \in [1..m -> Nat] /\ DOMAIN Numbers(m) = 1..m /\ \A p \in 1..m : Numbers(m)[p] = p
    BY DEF Numbers
  <2>2. Numbers(m) \in Seq(Nat) /\ Len(Numbers(m)) = m
    BY <2>1, FunctionIsSeq
  <2>3. ToSet(Numbers(m)) = 1..m
    BY <2>1 DEF ToSet
  <2> QED
    BY <2>1, <2>2, <2>3
<1> DEFINE s == Append(Numbers(n), n + 1)
           t == Numbers(n + 1)
<1>2. /\ s \in Seq(Nat) /\ Len(s) = n + 1 /\ s[n + 1] = n + 1
      /\ \A p \in 1..n : s[p] = p
  <2>1. /\ Numbers(n) \in Seq(Nat) /\ n + 1 \in Nat /\ Len(Numbers(n)) = n
        /\ \A p \in 1..n : Numbers(n)[p] = p
    BY <1>1
  <2> QED
    BY <2>1, AppendAt
<1>3. t \in Seq(Nat) /\ Len(t) = n + 1 /\ \A p \in 1..(n + 1) : t[p] = p
  BY <1>1
<1>4. \A p \in 1..(n + 1) : p \in 1..n \/ p = n + 1
  OBVIOUS
<1> HIDE DEF s, t
<1>5. \A p \in 1..Len(s) : s[p] = t[p]
  BY <1>2, <1>3, <1>4
<1>6. s = t
  BY <1>2, <1>3, <1>5, SeqEqual
<1> QED
  BY <1>1, <1>6 DEF s, t

\* What is kept of the numbers up to n + 1, and of those up to n.
LEMMA KeepNumbers ==
    ASSUME NEW n \in Nat, NEW T, NEW U, \A p \in 1..n : p \in T <=> p \in U
    PROVE  /\ Keep(Numbers(n), T) = Keep(Numbers(n), U)
           /\ Keep(Numbers(n + 1), T) = IF n + 1 \in T THEN Append(Keep(Numbers(n), U), n + 1)
                                        ELSE Keep(Numbers(n), U)
<1> DEFINE s == Numbers(n)
           x == n + 1
<1>1. /\ s \in Seq(Nat) /\ x \in Nat /\ Numbers(n + 1) = Append(s, x)
      /\ \A p \in ToSet(s) : p \in T <=> p \in U
  <2>1. Numbers(n) \in Seq(Nat) /\ ToSet(Numbers(n)) = 1..n /\ Numbers(n + 1) = Append(Numbers(n), n + 1)
    BY NumbersFacts
  <2> QED
    BY <2>1
<1> HIDE DEF s, x
<1>2. Keep(Append(s, x), T) = IF x \in T THEN Append(Keep(s, T), x) ELSE Keep(s, T)
  BY <1>1, KeepAppend
<1>3. Keep(s, T) = Keep(s, U)
  BY <1>1, KeepSame
<1>4. Keep(Numbers(n + 1), T) = IF x \in T THEN Append(Keep(s, U), x) ELSE Keep(s, U)
  BY <1>1, <1>2, <1>3
<1> QED
  BY <1>3, <1>4 DEF s, x

\* The numbers that are kept are rising.
LEMMA KeepRising ==
    ASSUME NEW n \in Nat, NEW T
    PROVE  /\ Keep(Numbers(n), T) \in Seq(Nat) /\ Rising(Keep(Numbers(n), T))
           /\ ToSet(Keep(Numbers(n), T)) = 1..n \cap T
<1> DEFINE I == {m \in Nat : Rising(Keep(Numbers(m), T))}
<1>1. \A m \in Nat : /\ Numbers(m) \in Seq(Nat) /\ ToSet(Numbers(m)) = 1..m
                     /\ Keep(Numbers(m), T) \in Seq(Nat)
                     /\ ToSet(Keep(Numbers(m), T)) = 1..m \cap T
  <2> SUFFICES ASSUME NEW m \in Nat
               PROVE  /\ Numbers(m) \in Seq(Nat) /\ ToSet(Numbers(m)) = 1..m
                      /\ Keep(Numbers(m), T) \in Seq(Nat)
                      /\ ToSet(Keep(Numbers(m), T)) = 1..m \cap T
    OBVIOUS
  <2>1. Numbers(m) \in Seq(Nat) /\ ToSet(Numbers(m)) = 1..m
    BY NumbersFacts
  <2> QED
    BY <2>1, KeepFacts
<1>2. 0 \in I
  <2>1. Keep(Numbers(0), T) = <<>>
    <3>1. ToSet(Numbers(0)) \cap T = {}
      BY <1>1
    <3> QED
      BY <1>1, <3>1, KeepNone
  <2> QED
    BY <2>1, EmptySeq DEF Rising
<1>3. ASSUME NEW m \in I PROVE m + 1 \in I
  <2>1. m \in Nat /\ Rising(Keep(Numbers(m), T))
    OBVIOUS
  <2>2. /\ Numbers(m) \in Seq(Nat) /\ m + 1 \in Nat
        /\ Numbers(m + 1) = Append(Numbers(m), m + 1)
    BY <2>1, NumbersFacts
  <2>3. Keep(Numbers(m + 1), T)
           = IF m + 1 \in T THEN Append(Keep(Numbers(m), T), m + 1) ELSE Keep(Numbers(m), T)
    BY <2>1, KeepNumbers
  <2>4. \A y \in ToSet(Keep(Numbers(m), T)) : y < m + 1
    BY <1>1, <2>1
  <2>5. Rising(Append(Keep(Numbers(m), T), m + 1))
    BY <1>1, <2>1, <2>4, RisingAppend
  <2> QED
    BY <2>1, <2>3, <2>5
<1> HIDE DEF I
<1>4. I = Nat
  <2>1. I \in SUBSET Nat
    BY DEF I
  <2> QED
    BY <1>2, <1>3, <2>1, SetInduction
<1>5. Rising(Keep(Numbers(n), T))
  BY <1>4 DEF I
<1> QED
  BY <1>1, <1>5
=============================================================================
