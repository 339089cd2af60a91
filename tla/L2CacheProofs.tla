--------------------------- MODULE L2CacheProofs ---------------------------
(***************************************************************************)
(* Proofs about L2Cache, for every set of keys, every dependency graph and *)
(* every pattern of crashes.                                               *)
(***************************************************************************)
EXTENDS L2Cache, FiniteSetTheorems, TLAPS

\* Between zero and a number lies what remains of it.
LEMMA ScaledBetween ==
    ASSUME NEW c \in Int, NEW p \in Permille
    PROVE  /\ Scaled(c, p) \in Int
           /\ 0 <= c => 0 <= Scaled(c, p) /\ Scaled(c, p) <= c
           /\ c < 0 => c <= Scaled(c, p) /\ Scaled(c, p) <= 0
<1>1. p \in Int /\ 0 <= p /\ p <= 1000
  BY DEF Permille
<1>2. c * p \in Int /\ Scaled(c, p) \in Int
  BY <1>1 DEF Scaled
<1>3. 1000 * Scaled(c, p) <= c * p /\ c * p < 1000 * Scaled(c, p) + 1000
  BY <1>2 DEF Scaled
<1>4. /\ 0 <= c => 0 <= c * p /\ c * p <= 1000 * c
      /\ c < 0 => 1000 * c <= c * p /\ c * p <= 0
  BY <1>1
<1> QED
  BY <1>2, <1>3, <1>4

\* Attenuating a confidence leaves it in its domain.
LEMMA ScaledType ==
    ASSUME NEW c \in Conf, NEW p \in Permille
    PROVE  Scaled(c, p) \in Conf
<1>1. CASE c = 0
  <2>1. Scaled(c, p) = 0
    BY <1>1, ScaledBetween
  <2> QED
    BY <2>1 DEF Conf
<1>2. CASE c # 0
  <2>1. PICK w \in WriteConfs : c \in (IF w < 0 THEN w..0 ELSE 0..w)
    BY <1>2 DEF Conf
  <2>2. w \in Int /\ c \in Int
    BY <2>1, ConfAssumption
  <2>3. Scaled(c, p) \in (IF w < 0 THEN w..0 ELSE 0..w)
    BY <2>1, <2>2, ScaledBetween
  <2> QED
    BY <2>3 DEF Conf
<1> QED
  BY <1>1, <1>2

\* The number of index edges into an entry is an index of the table of powers.
LEMMA CardinalityInTable ==
    ASSUME NEW S \in SUBSET Keys
    PROVE  Cardinality(S) \in 0..Cardinality(Keys)
<1>1. IsFiniteSet(S) /\ Cardinality(S) <= Cardinality(Keys)
  BY FS_Subset, KeysAssumption
<1>2. Cardinality(S) \in Nat /\ Cardinality(Keys) \in Nat
  BY <1>1, FS_CardinalityType, KeysAssumption
<1> QED
  BY <1>1, <1>2

\* Softening an entry n times, for an n in the table, yields an entry.
LEMMA SoftenedType ==
    ASSUME NEW x \in Entry, NEW n \in 0..Cardinality(Keys)
    PROVE  Softened(x, n) \in Entry
<1>1. CutPower[n] \in Permille
  BY PowerAssumption
<1>2. Scaled(x.conf, CutPower[n]) \in Conf
  BY <1>1, ScaledType DEF Entry
<1> QED
  BY <1>2 DEF Softened, Entry, Status

\* What a cascade does to one entry.
LEMMA CascadeAt ==
    ASSUME NEW e \in [Keys -> Entry \cup {Absent}], NEW rev, NEW root, NEW x \in Keys
    PROVE  \/ Cascade(e, rev, root)[x] = e[x]
           \/ /\ Cascadable(e, x)
              /\ \E n \in 0..Cardinality(Keys) :
                     Cascade(e, rev, root)[x] = Softened(e[x], n)
<1> DEFINE V == Visited(e, rev, root)
           Edges(z) == {y \in V : z \in rev[y]}
<1>1. Edges(x) \in SUBSET Keys
  BY DEF Visited
<1>2. Cardinality(Edges(x)) \in 0..Cardinality(Keys)
  BY <1>1, CardinalityInTable
<1>3. Cascade(e, rev, root)[x] = IF Cascadable(e, x) /\ Edges(x) # {}
                                 THEN Softened(e[x], Cardinality(Edges(x)))
                                 ELSE e[x]
  BY DEF Cascade
<1> HIDE DEF Edges
<1> QED
  BY <1>2, <1>3

\* A softened entry is an entry with the same depends_on list and text.
LEMMA SoftenedKeeps ==
    ASSUME NEW x \in Entry, NEW n \in 0..Cardinality(Keys)
    PROVE  /\ Softened(x, n) # Absent
           /\ Softened(x, n).deps = x.deps
           /\ Softened(x, n).dumpable = x.dumpable
           /\ Softened(x, n).created = x.created
           /\ Softened(x, n).status = "STALE"
<1>1. Softened(x, n) # Absent
  BY SoftenedType, AbsentAssumption
<1> QED
  BY <1>1 DEF Softened, Entry

\* A cascade changes status and confidence only, and of valid entries only.
LEMMA CascadeKeeps ==
    ASSUME NEW e \in [Keys -> Entry \cup {Absent}], NEW rev, NEW root
    PROVE  /\ Cascade(e, rev, root) \in [Keys -> Entry \cup {Absent}]
           /\ \A x \in Keys :
                /\ Cascade(e, rev, root)[x] = Absent <=> e[x] = Absent
                /\ DepsOf(Cascade(e, rev, root), x) = DepsOf(e, x)
                /\ ~ Cascadable(e, x) => Cascade(e, rev, root)[x] = e[x]
                /\ e[x] # Absent =>
                      /\ Cascade(e, rev, root)[x].dumpable = e[x].dumpable
                      /\ Cascade(e, rev, root)[x].created = e[x].created
<1> DEFINE c == Cascade(e, rev, root)
<1>0. c = [x \in Keys |-> c[x]]
  BY DEF Cascade
<1> HIDE DEF c
<1>1. ASSUME NEW x \in Keys
      PROVE  /\ c[x] \in Entry \cup {Absent}
             /\ c[x] = Absent <=> e[x] = Absent
             /\ DepsOf(c, x) = DepsOf(e, x)
             /\ ~ Cascadable(e, x) => c[x] = e[x]
             /\ e[x] # Absent => c[x].dumpable = e[x].dumpable /\ c[x].created = e[x].created
  <2>1. CASE c[x] = e[x]
    BY <2>1 DEF DepsOf
  <2>2. CASE c[x] # e[x]
    <3>1. PICK n \in 0..Cardinality(Keys) : Cascadable(e, x) /\ c[x] = Softened(e[x], n)
      BY <2>2, CascadeAt DEF c
    <3>2. e[x] \in Entry
      BY <3>1 DEF Cascadable
    <3> QED
      BY <3>1, <3>2, SoftenedKeeps, SoftenedType, AbsentAssumption DEF DepsOf
  <2> QED
    BY <2>1, <2>2
<1>2. c \in [Keys -> Entry \cup {Absent}]
  BY <1>0, <1>1
<1> QED
  BY <1>1, <1>2 DEF c

-----------------------------------------------------------------------------
(* Each operation preserves the inductive invariant.                       *)

\* The initial state: nothing in memory, nothing on disk.
LEMMA InitIInv == Init => IInv
<1> SUFFICES ASSUME Init PROVE IInv
  OBVIOUS
<1>1. TypeOK
  BY ClockAssumption, FileAssumption
     DEF Init, TypeOK, NoEntries, NoIndex, Phases, Unlocked
<1>2. LockInv
  BY DEF Init, LockInv
<1>3. IndexExact
  BY DEF Init, IndexExact, NoEntries, NoIndex, DepsOf
<1>4. DiskIndexInv
  BY DEF Init, DiskIndexInv, NoEntries, IndexOnDisk, DepsOf
<1>5. DeadInv /\ DiskCurrent /\ DataOnlyInv /\ CreatedInv
  BY DEF Init, DeadInv, DiskCurrent, DataOnlyInv, CreatedInv, Idle, NoEntries
<1> QED
  BY <1>1, <1>2, <1>3, <1>4, <1>5 DEF IInv

\* An entry a caller passes is an entry.
LEMMA NewEntryType == TypeOK => NewEntries \subseteq Entry
<1> SUFFICES ASSUME TypeOK, NEW D \in DepSets, NEW v \in WriteConfs, NEW t \in Dumpable
             PROVE  [deps |-> D,
                     status |-> IF v > (3 * One) \div 10 THEN "FRESH" ELSE "STALE",
                     conf |-> v, created |-> now, dumpable |-> t] \in Entry
  BY DEF NewEntries
<1>1. D \in SUBSET Keys /\ v \in Conf /\ t \in BOOLEAN /\ now \in 0..MaxClock
  BY KeysAssumption, ConfAssumption, DumpableAssumption DEF TypeOK, Conf
<1> QED
  BY <1>1 DEF Entry, Status

\* set
LEMMA SetIInv ==
    ASSUME IInv, NEW k \in Keys, NEW x \in NewEntries, Set(k, x)
    PROVE  IInv'
<1> USE DEF IInv
<1>0. x \in Entry /\ x # Absent
  BY NewEntryType, AbsentAssumption
<1>1. TypeOK'
  <2>1. x.deps \in SUBSET Keys
    BY <1>0 DEF Entry
  <2>2. entries' \in [Keys -> Entry \cup {Absent}]
    BY <1>0 DEF Set, TypeOK
  <2>3. depRev' \in [Keys -> SUBSET Keys]
    BY <2>1 DEF Set, TypeOK, Link, Unlink
  <2> QED
    BY <2>2, <2>3 DEF Set, TypeOK, Holding, FilesOwed, disk
<1>2. LockInv'
  BY DEF Set, LockInv, Idle, Holding, FilesOwed
<1>3. ASSUME NEW j \in Keys, j # k
      PROVE  /\ DepsOf(entries', j) = DepsOf(entries, j)
             /\ \A d \in Keys : j \in depRev'[d] <=> j \in depRev[d]
  BY <1>3 DEF Set, TypeOK, DepsOf, Link, Unlink
<1>4. IndexExact'
  <2>1. SUFFICES ASSUME NEW j \in Keys \ suspect, NEW d \in Keys
                 PROVE  j \in depRev'[d] <=> d \in DepsOf(entries', j)
    BY DEF IndexExact, Set
  <2>2. CASE j = k
    <3>1. DepsOf(entries', k) = x.deps
      BY <1>0 DEF Set, TypeOK, DepsOf
    <3>2. k \in depRev[d] <=> d \in DepsOf(entries, k)
      BY <2>2 DEF IndexExact
    <3> QED
      BY <2>2, <3>1, <3>2 DEF Set, Link, Unlink
  <2>3. CASE j # k
    BY <2>3, <1>3 DEF IndexExact
  <2> QED
    BY <2>2, <2>3
<1>5. DiskIndexInv'
  BY <1>3 DEF Set, Idle, DiskIndexInv, IndexOnDisk, disk, DepsOf
<1>6. DeadInv'
  BY DEF Set, DeadInv, Invalid, TypeOK, Holding, disk
<1>7. DiskCurrent' /\ DataOnlyInv'
  BY DEF Set, Holding, FilesOwed, DiskCurrent, DataOnlyInv, Idle
<1>8. CreatedInv'
  <2>1. x.created = now /\ now \in 0..MaxClock
    BY DEF NewEntries, TypeOK
  <2> QED
    BY <2>1, ClockAssumption DEF CreatedInv, Set, TypeOK, disk
<1> QED
  BY <1>1, <1>2, <1>4, <1>5, <1>6, <1>7, <1>8

\* What dropping the links of some keys leaves for the others, and for them.
LEMMA UnlinkAt ==
    ASSUME TypeOK, IndexExact, NEW K \in SUBSET Keys, NEW j \in Keys, NEW d \in Keys
    PROVE  /\ Unlink(entries, depRev, K) \in [Keys -> SUBSET Keys]
           /\ j \notin K => (j \in Unlink(entries, depRev, K)[d] <=> j \in depRev[d])
           /\ j \in K /\ j \notin suspect => j \notin Unlink(entries, depRev, K)[d]
  BY DEF Unlink, TypeOK, IndexExact

\* remove
LEMMA RemoveIInv ==
    ASSUME IInv, NEW k \in Keys, Remove(k)
    PROVE  IInv'
<1> USE DEF IInv
<1>0. depRev' = Unlink(entries, depRev, {k}) /\ {k} \in SUBSET Keys
  BY DEF Remove
<1>1. TypeOK'
  BY <1>0, UnlinkAt DEF Remove, TypeOK, Holding, FilesOwed, disk
<1>2. LockInv'
  BY DEF Remove, LockInv, Idle, Holding, FilesOwed
<1>3. /\ DepsOf(entries', k) = {}
      /\ \A j \in Keys \ {k} : DepsOf(entries', j) = DepsOf(entries, j)
  BY DEF Remove, TypeOK, DepsOf
<1>4. IndexExact'
  <2> SUFFICES ASSUME NEW j \in Keys \ suspect, NEW d \in Keys
               PROVE  j \in depRev'[d] <=> d \in DepsOf(entries', j)
    BY DEF IndexExact, Remove
  <2> QED
    BY <1>0, <1>3, UnlinkAt DEF IndexExact
<1>5. DiskIndexInv'
  BY <1>3 DEF Remove, Idle, DiskIndexInv, IndexOnDisk, disk, DepsOf
<1>6. DeadInv'
  BY DEF Remove, DeadInv, Invalid, TypeOK, Holding, disk
<1>7. DiskCurrent' /\ DataOnlyInv'
  BY DEF Remove, Holding, FilesOwed, DiskCurrent, DataOnlyInv, Idle
<1>8. CreatedInv'
  BY DEF CreatedInv, Remove, TypeOK, disk
<1> QED
  BY <1>1, <1>2, <1>4, <1>5, <1>6, <1>7, <1>8

\* purge_expired
LEMMA PurgeIInv ==
    ASSUME IInv, PurgeExpired
    PROVE  IInv'
<1> USE DEF IInv
<1> DEFINE P == Purgeable
<1>0. /\ depRev' = Unlink(entries, depRev, P) /\ P \in SUBSET Keys
      /\ entries' = [j \in Keys |-> IF j \in Keys \ P THEN entries[j] ELSE Absent]
      /\ dirty' = dirty \cup P
  BY DEF PurgeExpired, Purgeable, Keep
<1> HIDE DEF P
<1>1. TypeOK'
  <2>1. entries' \in [Keys -> Entry \cup {Absent}] /\ dirty' \subseteq Keys
    BY <1>0 DEF TypeOK
  <2>2. depRev' \in [Keys -> SUBSET Keys]
    BY <1>0 DEF TypeOK, Unlink
  <2>3. op'.keys \in SUBSET Keys
    BY DEF PurgeExpired, Holding, Purgeable
  <2> QED
    BY <2>1, <2>2, <2>3 DEF PurgeExpired, TypeOK, Holding, FilesOwed, disk
<1>2. LockInv'
  BY DEF PurgeExpired, LockInv, Idle, Holding, FilesOwed
<1>3. /\ \A j \in P : DepsOf(entries', j) = {}
      /\ \A j \in Keys \ P : DepsOf(entries', j) = DepsOf(entries, j)
  BY <1>0 DEF DepsOf
<1>4. IndexExact'
  <2> SUFFICES ASSUME NEW j \in Keys \ suspect, NEW d \in Keys
               PROVE  j \in depRev'[d] <=> d \in DepsOf(entries', j)
    BY DEF IndexExact, PurgeExpired
  <2> QED
    BY <1>0, <1>3, UnlinkAt DEF IndexExact
<1>5. DiskIndexInv'
  <2>1. /\ dataFile' = dataFile /\ revFile' = revFile /\ suspect' = suspect
        /\ phase = "up" /\ phase' = "up"
    BY DEF PurgeExpired, Idle, disk
  <2>2. \A j \in Keys \ (suspect' \cup dirty') :
            j \in Keys \ (suspect \cup dirty) /\ DepsOf(entries', j) = DepsOf(entries, j)
    BY <2>1, <1>0, <1>3
  <2>3. \A j \in Keys : DepsOf(dataFile', j) = DepsOf(dataFile, j)
    BY <2>1
  <2> QED
    BY <2>1, <2>2, <2>3 DEF DiskIndexInv, IndexOnDisk
<1>6. DeadInv'
  BY <1>0 DEF PurgeExpired, DeadInv, Invalid, TypeOK, Holding, disk
<1>7. DiskCurrent' /\ DataOnlyInv'
  BY DEF PurgeExpired, Holding, FilesOwed, DiskCurrent, DataOnlyInv, Idle
<1>8. CreatedInv'
  BY <1>0 DEF CreatedInv, PurgeExpired, TypeOK, disk
<1> QED
  BY <1>1, <1>2, <1>4, <1>5, <1>6, <1>7, <1>8

\* An operation that changes status and confidence only, and of which the keys
\* in dead stay invalid, disturbs neither the index nor what is on disk.
LEMMA StatusOnlyIInv ==
    ASSUME IInv, Idle,
           entries' \in [Keys -> Entry \cup {Absent}],
           \A j \in Keys : /\ entries'[j] = Absent <=> entries[j] = Absent
                           /\ DepsOf(entries', j) = DepsOf(entries, j)
                           /\ entries[j] # Absent =>
                                 /\ entries'[j].dumpable = entries[j].dumpable
                                 /\ entries'[j].created = entries[j].created,
           \A j \in dead' : j \in dead /\ Invalid(entries', j),
           NEW n \in {"soft_invalidate", "hard_invalidate", "apply_confidence_decay"},
           NEW K \in SUBSET Keys,
           n = "hard_invalidate" => \A j \in K : Invalid(entries', j),
           Holding(n, K),
           UNCHANGED <<depRev, now, phase, disk, dirty, suspect>>
    PROVE  IInv'
<1> USE DEF IInv
<1>1. TypeOK'
  <2>1. dead' \subseteq Keys
    BY DEF TypeOK
  <2> QED
    BY <2>1 DEF TypeOK, Holding, FilesOwed, disk
<1>2. LockInv'
  BY DEF LockInv, Idle, Holding, FilesOwed
<1>3. IndexExact'
  BY DEF IndexExact
<1>4. DiskIndexInv'
  <2>1. phase = "up" /\ dataFile' = dataFile /\ revFile' = revFile
    BY DEF Idle, disk
  <2>2. \A j \in Keys : DepsOf(dataFile', j) = DepsOf(dataFile, j)
    BY <2>1
  <2> QED
    BY <2>1, <2>2 DEF DiskIndexInv, IndexOnDisk
<1>5. DeadInv'
  BY DEF DeadInv, Invalid, Holding, disk
<1>6. DiskCurrent'
  BY DEF DiskCurrent, Idle, Holding, FilesOwed
<1>7. DataOnlyInv'
  <2>1. AllDumpable' => AllDumpable
    BY DEF AllDumpable, Present
  <2> QED
    BY <2>1 DEF DataOnlyInv, DiskCurrent, disk
<1>8. CreatedInv'
  BY DEF CreatedInv, disk
<1> QED
  BY <1>1, <1>2, <1>3, <1>4, <1>5, <1>6, <1>7, <1>8

\* soft_invalidate
LEMMA SoftInvalidateIInv ==
    ASSUME IInv, NEW k \in Keys, SoftInvalidate(k)
    PROVE  IInv'
<1>1. 1 \in 0..Cardinality(Keys)
  <2>1. Cardinality(Keys) \in Nat /\ Cardinality(Keys) # 0
    BY KeysAssumption, FS_CardinalityType, FS_EmptySet
  <2> QED
    BY <2>1
<1>2. entries \in [Keys -> Entry \cup {Absent}] /\ entries[k] \in Entry
  BY DEF IInv, TypeOK, SoftInvalidate
<1>3. entries' = [entries EXCEPT ![k] = Softened(entries[k], 1)]
  BY DEF SoftInvalidate
<1>4. entries' \in [Keys -> Entry \cup {Absent}]
  BY <1>1, <1>2, <1>3, SoftenedType
<1>5. \A j \in Keys : /\ entries'[j] = Absent <=> entries[j] = Absent
                      /\ DepsOf(entries', j) = DepsOf(entries, j)
                      /\ entries[j] # Absent =>
                            /\ entries'[j].dumpable = entries[j].dumpable
                            /\ entries'[j].created = entries[j].created
  BY <1>1, <1>2, <1>3, SoftenedKeeps, AbsentAssumption DEF DepsOf
<1>6. \A j \in dead' : j \in dead /\ Invalid(entries', j)
  BY <1>2, <1>3 DEF SoftInvalidate, IInv, DeadInv, Invalid, TypeOK
<1> QED
  BY <1>4, <1>5, <1>6, StatusOnlyIInv DEF SoftInvalidate

\* hard_invalidate, with and without the cascade
LEMMA HardInvalidateIInv ==
    ASSUME IInv, NEW k \in Keys, NEW cascade \in BOOLEAN, HardInvalidate(k, cascade)
    PROVE  IInv'
<1> DEFINE e == [entries EXCEPT ![k] = [entries[k] EXCEPT !.status = "INVALIDATED", !.conf = 0]]
<1>1. entries \in [Keys -> Entry \cup {Absent}] /\ entries[k] \in Entry
  BY DEF IInv, TypeOK, HardInvalidate
<1>2. 0 \in Conf
  BY ConfAssumption DEF Conf
<1>3. e \in [Keys -> Entry \cup {Absent}] /\ e[k] \in Entry /\ e[k].status = "INVALIDATED"
  BY <1>1, <1>2 DEF Entry, Status
<1>4. \A j \in Keys : /\ e[j] = Absent <=> entries[j] = Absent
                      /\ DepsOf(e, j) = DepsOf(entries, j)
                      /\ entries[j] # Absent =>
                            /\ e[j].dumpable = entries[j].dumpable
                            /\ e[j].created = entries[j].created
  BY <1>1, <1>3, AbsentAssumption DEF DepsOf, Entry
<1>5. \A j \in dead \cup {k} : j \in Keys /\ Invalid(e, j)
  BY <1>1, <1>3 DEF IInv, DeadInv, Invalid, TypeOK
<1>6. entries' = IF cascade THEN Cascade(e, depRev, k) ELSE e
  BY DEF HardInvalidate
<1> HIDE DEF e
<1>7. /\ entries' \in [Keys -> Entry \cup {Absent}]
      /\ \A j \in Keys : /\ entries'[j] = Absent <=> entries[j] = Absent
                         /\ DepsOf(entries', j) = DepsOf(entries, j)
                         /\ entries[j] # Absent =>
                               /\ entries'[j].dumpable = entries[j].dumpable
                               /\ entries'[j].created = entries[j].created
  BY <1>3, <1>4, <1>6, CascadeKeeps
<1>8. \A j \in dead \cup {k} : Invalid(entries', j)
  <2> SUFFICES ASSUME NEW j \in dead \cup {k} PROVE Invalid(entries', j)
    OBVIOUS
  <2>1. j \in Keys /\ ~ Cascadable(e, j)
    BY <1>5 DEF Invalid, Cascadable
  <2>2. entries'[j] = e[j]
    BY <2>1, <1>3, <1>6, CascadeKeeps
  <2> QED
    BY <2>2, <1>5 DEF Invalid
<1> QED
  BY <1>7, <1>8, StatusOnlyIInv DEF HardInvalidate

\* apply_confidence_decay
LEMMA DecayIInv ==
    ASSUME IInv, ApplyConfidenceDecay
    PROVE  IInv'
<1>1. entries \in [Keys -> Entry \cup {Absent}] /\ now \in 0..MaxClock
  BY DEF IInv, TypeOK
<1>2. ASSUME NEW j \in Keys, Cascadable(entries, j)
      PROVE  LET x == entries[j]
             IN  /\ Decayed(x) \in Entry /\ Decayed(x).deps = x.deps
                 /\ Decayed(x).dumpable = x.dumpable /\ Decayed(x).created = x.created
  <2> DEFINE x == entries[j]
  <2>1. x \in Entry /\ x.created <= now
    BY <1>1, <1>2 DEF Cascadable, IInv, CreatedInv
  <2>2. now - x.created \in 0..MaxClock
    BY <1>1, <2>1, ClockAssumption DEF Entry
  <2>3. Scaled(x.conf, Retained[now - x.created]) \in Conf
    BY <2>1, <2>2, ScaledType, PowerAssumption DEF Entry
  <2> QED
    BY <2>1, <2>3 DEF Decayed, Entry, Status
<1>3. entries' = [j \in Keys |-> IF Cascadable(entries, j) THEN Decayed(entries[j])
                                                           ELSE entries[j]]
  BY DEF ApplyConfidenceDecay
<1>4. entries' \in [Keys -> Entry \cup {Absent}]
  BY <1>1, <1>2, <1>3
<1>5. \A j \in Keys : /\ entries'[j] = Absent <=> entries[j] = Absent
                      /\ DepsOf(entries', j) = DepsOf(entries, j)
                      /\ entries[j] # Absent =>
                            /\ entries'[j].dumpable = entries[j].dumpable
                            /\ entries'[j].created = entries[j].created
  BY <1>1, <1>2, <1>3, AbsentAssumption DEF DepsOf, Cascadable
<1>6. \A j \in dead : j \in Keys /\ Invalid(entries', j)
  BY <1>1, <1>3 DEF IInv, TypeOK, DeadInv, Invalid, Cascadable
<1> QED
  BY <1>4, <1>5, <1>6, StatusOnlyIInv DEF ApplyConfidenceDecay

\* What is left to save after one file.
LEMMA Tails == /\ Tail(<<"data">>) = <<>> /\ Tail(<<"rev">>) = <<>>
               /\ Tail(<<"data", "rev">>) = <<"rev">>
               /\ <<"rev">> # <<>> /\ <<"data">> # <<"data", "rev">>
  OBVIOUS

\* Releasing mu_ at the end of an operation whose data is on disk: a completed
\* invalidation holds both in memory and in the file.
LEMMA AcknowledgeDead ==
    ASSUME IInv, saving # <<>>, Acknowledge
    PROVE  /\ op' \in [name : {"none"}, keys : SUBSET Keys] /\ op'.name = "none"
           /\ dead' \subseteq Keys
           /\ \A k \in dead' : Invalid(entries, k)
           /\ \A k \in dead' : k \in dead \/ k \in Keys
<1>1. op'= [name |-> "none", keys |-> {}]
  BY DEF Acknowledge, Unlocked
<1>2. CASE op.name = "hard_invalidate"
  BY <1>1, <1>2 DEF Acknowledge, IInv, DeadInv, TypeOK
<1>3. CASE op.name # "hard_invalidate"
  BY <1>1, <1>3 DEF Acknowledge, IInv, DeadInv, TypeOK
<1> QED
  BY <1>2, <1>3

\* save_to_disk, when every entry can be dumped
LEMMA SaveToDiskIInv ==
    ASSUME IInv, SaveToDisk
    PROVE  IInv'
<1> USE DEF IInv
<1>0. saving \in {<<"data">>, <<"data", "rev">>}
  BY DEF SaveToDisk, TypeOK
<1>1. saving' \in {<<>>, <<"rev">>} /\ (saving' = <<>> <=> saving = <<"data">>)
  <2>1. saving' = Tail(saving)
    BY DEF SaveToDisk
  <2>2. CASE saving = <<"data">>
    BY <2>1, <2>2, Tails
  <2>3. CASE saving = <<"data", "rev">>
    BY <2>1, <2>3, Tails
  <2> QED
    BY <1>0, <2>2, <2>3
<1>2. /\ dataFile' = entries /\ entries' = entries /\ depRev' = depRev /\ phase' = phase
      /\ revFile' = revFile /\ now' = now /\ dirty' = dirty /\ suspect' = suspect
      /\ AllDumpable
  BY DEF SaveToDisk, memory
<1>3. /\ op' \in [name : {"none", "set", "remove", "soft_invalidate", "hard_invalidate",
                          "apply_confidence_decay", "purge_expired", "shutdown"},
                  keys : SUBSET Keys]
      /\ dead' \subseteq Keys
      /\ \A k \in dead' : Invalid(entries, k)
      /\ op'.name = "hard_invalidate" => \A k \in op'.keys : Invalid(entries, k)
  <2>1. CASE Acknowledge
    <3>1. saving # <<>>
      BY DEF SaveToDisk
    <3> QED
      BY <2>1, <3>1, AcknowledgeDead
  <2>2. CASE UNCHANGED <<op, dead>>
    BY <2>2 DEF DeadInv, TypeOK, SaveToDisk
  <2> QED
    BY <2>1, <2>2 DEF SaveToDisk
<1>4. TypeOK' /\ CreatedInv'
  BY <1>1, <1>2, <1>3 DEF TypeOK, CreatedInv
<1>5. LockInv'
  BY <1>0, <1>1, <1>2 DEF LockInv
<1>6. IndexExact'
  BY <1>2 DEF IndexExact
<1>7. DiskIndexInv'
  <2>1. phase # "down" /\ phase' # "down"
    BY <1>0, <1>2 DEF LockInv
  <2>2. \A k \in Keys : DepsOf(dataFile', k) = DepsOf(entries', k)
    BY <1>2
  <2> QED
    BY <1>2, <2>1, <2>2 DEF DiskIndexInv, IndexOnDisk
<1>8. DeadInv'
  BY <1>2, <1>3 DEF DeadInv, Invalid
<1>9. DiskCurrent' /\ DataOnlyInv'
  BY <1>1, <1>2 DEF DiskCurrent, DataOnlyInv, Idle
<1> QED
  BY <1>4, <1>5, <1>6, <1>7, <1>8, <1>9

\* save_revidx, also at the end of shutdown() and of the destructor
LEMMA SaveRevidxIInv ==
    ASSUME IInv, SaveRevidx
    PROVE  IInv'
<1> USE DEF IInv
<1>0. saving = <<"rev">> /\ saving' = <<>>
  <2>1. saving = <<"rev">>
    BY DEF SaveRevidx, TypeOK
  <2>2. saving' = Tail(saving)
    BY DEF SaveRevidx
  <2> QED
    BY <2>1, <2>2, Tails
<1>1. /\ dataFile' = dataFile /\ dataFile = entries /\ revFile' = depRev
      /\ now' = now /\ suspect' = suspect
  BY <1>0 DEF SaveRevidx, LockInv
<1>2. /\ op'.name = "none" /\ op' \in [name : {"none"}, keys : SUBSET Keys]
      /\ dead' \subseteq Keys
      /\ \A k \in dead' : Invalid(entries, k)
  BY <1>0, AcknowledgeDead DEF SaveRevidx
<1>3. depRev # Torn /\ depRev # Missing /\ depRev \in [Keys -> SUBSET Keys]
  BY FileAssumption DEF TypeOK
<1>4. CASE phase = "up"
  <2>1. phase' = "up" /\ entries' = entries /\ depRev' = depRev /\ dirty' = {}
    BY <1>4 DEF SaveRevidx, memory
  <2>2. TypeOK' /\ CreatedInv' /\ LockInv'
    <3>1. TypeOK'
      BY <1>0, <1>1, <1>2, <1>3, <2>1 DEF TypeOK, Phases
    <3>2. CreatedInv' /\ LockInv'
      BY <1>0, <1>1, <2>1 DEF CreatedInv, LockInv
    <3> QED
      BY <3>1, <3>2
  <2>5. IndexExact'
    BY <1>1, <2>1 DEF IndexExact
  <2>3. DiskIndexInv'
    BY <1>1, <1>3, <2>1 DEF IndexExact, DiskIndexInv, IndexOnDisk
  <2>4. DeadInv' /\ DiskCurrent' /\ DataOnlyInv'
    BY <1>0, <1>1, <1>2, <2>1 DEF DeadInv, Invalid, DiskCurrent, DataOnlyInv
  <2> QED
    BY <2>2, <2>3, <2>4, <2>5
<1>5. CASE phase = "stopping"
  <2>1. /\ phase' = "stopped" /\ entries' = NoEntries /\ depRev' = NoIndex
        /\ dirty' = Present(entries)
    BY <1>5 DEF SaveRevidx
  <2>2. TypeOK' /\ CreatedInv' /\ LockInv'
    BY <1>0, <1>1, <1>2, <1>3, <2>1
       DEF TypeOK, CreatedInv, LockInv, Present, NoEntries, NoIndex, Phases
  <2>3. IndexExact'
    BY <2>1 DEF IndexExact, NoEntries, NoIndex, DepsOf
  <2>4. DiskIndexInv'
    <3>1. \A k \in Keys \ dirty' : DepsOf(entries', k) = {} /\ DepsOf(entries, k) = {}
      BY <2>1 DEF Present, NoEntries, DepsOf
    <3>2. \A k \in Keys \ (suspect \cup dirty') : \A d \in Keys : k \notin depRev[d]
      BY <3>1 DEF IndexExact
    <3> QED
      BY <1>1, <1>3, <2>1, <3>1, <3>2 DEF DiskIndexInv, IndexOnDisk
  <2>5. DeadInv' /\ DiskCurrent' /\ DataOnlyInv'
    BY <1>0, <1>1, <1>2, <2>1 DEF DeadInv, Invalid, DiskCurrent, DataOnlyInv, Idle, NoEntries
  <2> QED
    BY <2>2, <2>3, <2>4, <2>5
<1>6. CASE phase = "exiting"
  <2>1. /\ phase' = "down" /\ entries' = NoEntries /\ depRev' = NoIndex /\ dirty' = {}
        /\ entries = NoEntries /\ depRev = NoIndex
    BY <1>6 DEF SaveRevidx, LockInv
  <2>2. TypeOK' /\ CreatedInv' /\ LockInv'
    BY <1>0, <1>1, <1>2, <1>3, <2>1 DEF TypeOK, CreatedInv, LockInv, NoEntries, NoIndex, Phases
  <2>3. IndexExact' /\ DiskIndexInv'
    BY <1>1, <1>3, <2>1 DEF IndexExact, DiskIndexInv, IndexOnDisk, NoEntries, NoIndex, DepsOf
  <2>4. DeadInv' /\ DiskCurrent' /\ DataOnlyInv'
    BY <1>0, <1>1, <1>2, <2>1 DEF DeadInv, Invalid, DiskCurrent, DataOnlyInv, Idle, NoEntries
  <2> QED
    BY <2>2, <2>3, <2>4
<1> QED
  BY <1>0, <1>4, <1>5, <1>6 DEF LockInv

\* What the files and the history look like after the process died, by a crash
\* or by an exception in main's shutdown().
LEMMA DownIInv ==
    ASSUME IInv, phase # "down", phase' = "down",
           entries' = NoEntries, depRev' = NoIndex, saving' = <<>>, op' = Unlocked,
           dirty' = {}, now' = now, dead' = dead,
           dataFile' \in {dataFile} \cup Prefixes,
           revFile' \in {revFile, Torn},
           suspect' = suspect \cup dirty \cup
               {k \in Keys : dataFile'[k] = Absent /\ entries[k] # Absent}
    PROVE  IInv'
<1> USE DEF IInv
<1>1. \A k \in Keys : \/ dataFile'[k] = Absent
                      \/ dataFile'[k] = entries[k]
                      \/ dataFile' = dataFile
  BY DEF Prefixes, Keep
<1>2. dataFile' \in [Keys -> Entry \cup {Absent}]
  BY DEF Prefixes, Keep, TypeOK
<1>3. TypeOK'
  <2>1. suspect' \subseteq Keys /\ dirty' \subseteq Keys /\ dead' \subseteq Keys
    BY DEF TypeOK
  <2>2. revFile' \in [Keys -> SUBSET Keys] \cup {Torn, Missing}
    BY DEF TypeOK
  <2>3. entries' \in [Keys -> Entry \cup {Absent}] /\ depRev' \in [Keys -> SUBSET Keys]
    BY DEF NoEntries, NoIndex
  <2> QED
    BY <1>2, <2>1, <2>2, <2>3 DEF TypeOK, Phases, Unlocked
<1>4. CreatedInv'
  BY <1>1 DEF CreatedInv, NoEntries
<1>5. LockInv'
  BY DEF LockInv
<1>6. IndexExact'
  BY DEF IndexExact, NoEntries, NoIndex, DepsOf
<1>7. DiskIndexInv'
  <2> SUFFICES ASSUME revFile' # Torn, NEW k \in Keys \ suspect', NEW d \in Keys
               PROVE  k \in IndexOnDisk(d)' <=> d \in DepsOf(dataFile', k)
    BY DEF DiskIndexInv
  <2>1. revFile' = revFile /\ revFile # Torn
    OBVIOUS
  <2>2. k \in Keys \ (suspect \cup dirty) /\ (dataFile'[k] = Absent => entries[k] = Absent)
    OBVIOUS
  <2>3. k \in IndexOnDisk(d)' <=> d \in DepsOf(entries, k)
    BY <2>1, <2>2 DEF DiskIndexInv, IndexOnDisk
  <2>4. DepsOf(dataFile', k) = DepsOf(entries, k)
    <3>1. CASE dataFile'[k] = Absent
      BY <3>1, <2>2 DEF DepsOf
    <3>2. CASE dataFile'[k] = entries[k]
      BY <3>2 DEF DepsOf
    <3>3. CASE dataFile' = dataFile /\ dataFile[k] # Absent
      BY <3>3, <2>2 DEF DiskIndexInv
    <3> QED
      BY <1>1, <3>1, <3>2, <3>3
  <2> QED
    BY <2>3, <2>4
<1>8. DeadInv'
  <2>1. \A k \in dead : k \in Keys /\ Invalid(entries', k) /\ Invalid(dataFile', k)
    BY <1>1 DEF DeadInv, Invalid, TypeOK, NoEntries
  <2> QED
    BY <2>1 DEF DeadInv
<1>9. DiskCurrent' /\ DataOnlyInv'
  BY DEF DiskCurrent, DataOnlyInv, Idle
<1> QED
  BY <1>3, <1>4, <1>5, <1>6, <1>7, <1>8, <1>9

\* save_to_disk interrupted by an exception of dump()
LEMMA SaveToDiskThrowsIInv ==
    ASSUME IInv, SaveToDiskThrows
    PROVE  IInv'
<1>1. CASE phase = "up"
  <2> USE DEF IInv
  <2>1. /\ entries' = entries /\ depRev' = depRev /\ phase' = "up" /\ suspect' = suspect
        /\ dirty' = dirty /\ now' = now /\ revFile' = revFile /\ dead' = dead
        /\ saving' = <<>> /\ op' = Unlocked /\ ~ AllDumpable
    BY <1>1 DEF SaveToDiskThrows, memory
  <2>2. \A k \in Keys : dataFile'[k] = Absent \/ dataFile'[k] = entries[k]
    BY DEF SaveToDiskThrows, Prefixes, Keep
  <2>3. dataFile' \in [Keys -> Entry \cup {Absent}]
    BY DEF SaveToDiskThrows, Prefixes, Keep, TypeOK
  <2>4. TypeOK' /\ CreatedInv' /\ LockInv'
    <3>1. op' \in [name : {"none"}, keys : SUBSET Keys]
      BY <2>1 DEF Unlocked
    <3>2. TypeOK'
      BY <2>1, <2>3, <3>1 DEF TypeOK, Phases
    <3>3. CreatedInv'
      BY <2>1, <2>2 DEF CreatedInv
    <3>4. LockInv'
      BY <2>1 DEF LockInv
    <3> QED
      BY <3>2, <3>3, <3>4
  <2>5. IndexExact'
    BY <2>1 DEF IndexExact
  <2>6. DiskIndexInv'
    <3>1. \A k \in Keys : dataFile'[k] # Absent => DepsOf(dataFile', k) = DepsOf(entries, k)
      BY <2>2 DEF DepsOf
    <3> QED
      BY <1>1, <2>1, <3>1 DEF DiskIndexInv, IndexOnDisk
  <2>7. DeadInv'
    BY <2>1, <2>2 DEF DeadInv, Invalid, TypeOK
  <2>8. DiskCurrent' /\ DataOnlyInv'
    BY <2>1 DEF DiskCurrent, DataOnlyInv, AllDumpable, Present
  <2> QED
    BY <2>4, <2>5, <2>6, <2>7, <2>8
<1>2. CASE phase # "up"
  <2>1. phase # "down"
    BY DEF SaveToDiskThrows, IInv, LockInv
  <2> QED
    BY <1>2, <2>1, DownIInv DEF SaveToDiskThrows
<1> QED
  BY <1>1, <1>2

\* a crash, between two files or inside one
LEMMA CrashIInv ==
    ASSUME IInv, Crash
    PROVE  IInv'
<1>1. PICK data \in {dataFile} \cup Prefixes, rev \in {revFile, Torn} : Die(data, rev)
  BY DEF Crash
<1> QED
  BY <1>1, DownIInv DEF Crash, Die

\* init and load_from_disk
LEMMA StartIInv ==
    ASSUME IInv, Init_L2
    PROVE  IInv'
<1> USE DEF IInv
<1>1. /\ phase = "down" /\ phase' = "up" /\ entries' = dataFile /\ depRev' = LoadedIndex
      /\ now' = now /\ saving' = saving /\ dataFile' = dataFile /\ revFile' = revFile
      /\ op' = op /\ dirty' = dirty /\ dead' = dead
      /\ suspect' = IF revFile = Torn THEN {} ELSE suspect
  BY DEF Init_L2, disk
<1>2. saving = <<>> /\ dirty = {}
  BY <1>1 DEF LockInv
<1>3. /\ revFile = Torn => LoadedIndex = ReverseIndex(dataFile)
      /\ revFile = Missing => LoadedIndex = NoIndex
      /\ revFile \notin {Torn, Missing} => LoadedIndex = revFile
      /\ LoadedIndex \in [Keys -> SUBSET Keys]
  <2>1. /\ ReverseIndex(dataFile) \in [Keys -> SUBSET Keys]
        /\ NoIndex \in [Keys -> SUBSET Keys]
    BY DEF ReverseIndex, NoIndex
  <2>2. CASE revFile = Torn
    BY <2>1, <2>2, FileAssumption DEF LoadedIndex
  <2>3. CASE revFile = Missing
    BY <2>1, <2>3, FileAssumption DEF LoadedIndex
  <2>4. CASE revFile \notin {Torn, Missing}
    BY <2>4 DEF LoadedIndex, TypeOK
  <2> QED
    BY <2>2, <2>3, <2>4, FileAssumption
<1>4. TypeOK' /\ CreatedInv' /\ LockInv'
  BY <1>1, <1>2, <1>3 DEF TypeOK, CreatedInv, LockInv, Phases
<1>5. IndexExact'
  <2> SUFFICES ASSUME NEW k \in Keys \ suspect', NEW d \in Keys
               PROVE  k \in LoadedIndex[d] <=> d \in DepsOf(dataFile, k)
    BY <1>1 DEF IndexExact
  <2>1. CASE revFile = Torn
    BY <2>1, <1>3 DEF ReverseIndex
  <2>2. CASE revFile # Torn
    <3>1. LoadedIndex[d] = IndexOnDisk(d)
      BY <2>2, <1>3 DEF IndexOnDisk, NoIndex
    <3> QED
      BY <1>1, <2>2, <3>1 DEF DiskIndexInv
  <2> QED
    BY <2>1, <2>2
<1>6. DiskIndexInv'
  <2>1. \A k \in Keys : DepsOf(entries', k) = DepsOf(dataFile, k)
    BY <1>1
  <2>2. \A d \in Keys : IndexOnDisk(d)' = IndexOnDisk(d)
    BY <1>1 DEF IndexOnDisk
  <2> QED
    BY <1>1, <1>2, <2>1, <2>2 DEF DiskIndexInv
<1>7. DeadInv' /\ DiskCurrent' /\ DataOnlyInv'
  BY <1>1, <1>2, <1>3 DEF DeadInv, Invalid, DiskCurrent, DataOnlyInv
<1> QED
  BY <1>4, <1>5, <1>6, <1>7

\* shutdown(), the clock, and steps that change nothing
LEMMA OtherIInv ==
    ASSUME IInv, Shutdown \/ Tick \/ UNCHANGED vars
    PROVE  IInv'
<1> USE DEF IInv
<1>1. CASE Shutdown
  <2>1. /\ entries' = entries /\ depRev' = depRev /\ now' = now /\ dataFile' = dataFile
        /\ revFile' = revFile /\ dirty' = dirty /\ suspect' = suspect /\ dead' = dead
        /\ saving' = <<"data", "rev">> /\ op' = [name |-> "shutdown", keys |-> {}]
        /\ \/ phase = "up" /\ phase' = "stopping"
           \/ phase = "stopped" /\ phase' = "exiting"
    BY <1>1 DEF Shutdown, Idle, Holding, FilesOwed, memory, disk
  <2>2. TypeOK' /\ CreatedInv' /\ LockInv'
    BY <2>1 DEF TypeOK, CreatedInv, LockInv, Phases
  <2>3. IndexExact'
    BY <2>1 DEF IndexExact
  <2>4. DiskIndexInv'
    BY <2>1 DEF DiskIndexInv, IndexOnDisk
  <2>5. DeadInv' /\ DiskCurrent' /\ DataOnlyInv'
    BY <2>1 DEF DeadInv, Invalid, DiskCurrent, DataOnlyInv, Idle
  <2> QED
    BY <2>2, <2>3, <2>4, <2>5
<1>2. CASE Tick \/ UNCHANGED vars
  <2>1. /\ entries' = entries /\ depRev' = depRev /\ dataFile' = dataFile
        /\ revFile' = revFile /\ dirty' = dirty /\ suspect' = suspect /\ dead' = dead
        /\ saving' = saving /\ op' = op /\ phase' = phase
    BY <1>2 DEF Tick, vars, memory, disk, ghosts
  <2>2. now' \in 0..MaxClock /\ now \in 0..MaxClock /\ now <= now'
    BY <1>2, ClockAssumption DEF Tick, vars, TypeOK
  <2>3. TypeOK'
    BY <2>1, <2>2 DEF TypeOK
  <2>4. CreatedInv'
    <3>1. \A k \in Keys : /\ entries[k] # Absent => entries[k].created \in 0..MaxClock
                          /\ dataFile[k] # Absent => dataFile[k].created \in 0..MaxClock
      BY DEF TypeOK, Entry
    <3> QED
      BY <2>1, <2>2, <3>1, ClockAssumption DEF CreatedInv
  <2>5. LockInv' /\ IndexExact'
    BY <2>1 DEF LockInv, IndexExact
  <2>6. DiskIndexInv'
    BY <2>1 DEF DiskIndexInv, IndexOnDisk
  <2>7. DeadInv'
    BY <2>1 DEF DeadInv, Invalid
  <2>8. AllDumpable' <=> AllDumpable
    BY <2>1 DEF AllDumpable, Present
  <2>9. DiskCurrent' /\ DataOnlyInv'
    BY <2>1, <2>8 DEF DiskCurrent, DataOnlyInv, Idle
  <2> QED
    BY <2>3, <2>4, <2>5, <2>6, <2>7, <2>9
<1> QED
  BY <1>1, <1>2

-----------------------------------------------------------------------------
(* The theorems.                                                           *)

\* Every step of the cache preserves the inductive invariant.
THEOREM StepIInv == IInv /\ [Next]_vars => IInv'
<1> SUFFICES ASSUME IInv, [Next]_vars PROVE IInv'
  OBVIOUS
<1>1. ASSUME NEW k \in Keys, NEW x \in NewEntries, Set(k, x) PROVE IInv'
  BY <1>1, SetIInv
<1>2. ASSUME NEW k \in Keys, Remove(k) PROVE IInv'
  BY <1>2, RemoveIInv
<1>3. ASSUME NEW k \in Keys, SoftInvalidate(k) PROVE IInv'
  BY <1>3, SoftInvalidateIInv
<1>4. ASSUME NEW k \in Keys, NEW cascade \in BOOLEAN, HardInvalidate(k, cascade) PROVE IInv'
  BY <1>4, HardInvalidateIInv
<1>5. CASE ApplyConfidenceDecay
  BY <1>5, DecayIInv
<1>6. CASE PurgeExpired
  BY <1>6, PurgeIInv
<1>7. CASE SaveToDisk
  BY <1>7, SaveToDiskIInv
<1>8. CASE SaveToDiskThrows
  BY <1>8, SaveToDiskThrowsIInv
<1>9. CASE SaveRevidx
  BY <1>9, SaveRevidxIInv
<1>10. CASE Init_L2
  BY <1>10, StartIInv
<1>11. CASE Crash
  BY <1>11, CrashIInv
<1>12. CASE Shutdown \/ Tick \/ UNCHANGED vars
  BY <1>12, OtherIInv
<1> QED
  BY <1>1, <1>2, <1>3, <1>4, <1>5, <1>6, <1>7, <1>8, <1>9, <1>10, <1>11, <1>12 DEF Next

\* The inductive invariant holds in every reachable state.
THEOREM Inductive == Spec => []IInv
<1>1. Init => IInv
  BY InitIInv
<1>2. IInv /\ [Next]_vars => IInv'
  BY StepIInv
<1> QED
  BY <1>1, <1>2, PTL DEF Spec

\* Type correctness of the cache, its files and its locks.
THEOREM TypeCorrect == Spec => []TypeOK
<1>1. IInv => TypeOK
  BY DEF IInv
<1> QED
  BY <1>1, Inductive, PTL

\* set, remove, purge_expired and load_from_disk keep the reverse index exact for
\* every key that no crash has touched.
THEOREM IndexCorrect == Spec => []IndexExact
<1>1. IInv => IndexExact
  BY DEF IInv
<1> QED
  BY <1>1, Inductive, PTL

\* Between operations the files hold what memory holds.
THEOREM Durable == Spec => []DiskCurrent
<1>1. IInv => DiskCurrent
  BY DEF IInv
<1> QED
  BY <1>1, Inductive, PTL

\* get never serves a key whose hard_invalidate has returned, until it is written
\* again.
THEOREM InvalidationHolds == Spec => []InvalidatedStaysAMiss
<1>1. IInv => InvalidatedStaysAMiss
  BY DEF IInv, DeadInv, Invalid, InvalidatedStaysAMiss, Servable
<1> QED
  BY <1>1, Inductive, PTL

\* The keys a cascade enters are closed under the index edges to valid entries.
LEMMA VisitedClosed ==
    ASSUME NEW e, NEW rev \in [Keys -> SUBSET Keys], NEW root \in Keys
    PROVE  root \in Visited(e, rev, root)
           /\ ClosedUnderIndex(e, rev, Visited(e, rev, root))
<1>1. root \in Visited(e, rev, root)
  BY DEF Visited
<1>2. ASSUME NEW y \in Visited(e, rev, root), NEW x \in rev[y], Cascadable(e, x)
      PROVE  x \in Visited(e, rev, root)
  <2>1. y \in Keys /\ x \in Keys
    BY DEF Visited
  <2>2. ASSUME NEW S \in SUBSET Keys, root \in S, ClosedUnderIndex(e, rev, S)
        PROVE  x \in S
    <3>1. y \in S
      BY <2>2 DEF Visited
    <3> QED
      BY <3>1, <2>2, <1>2 DEF ClosedUnderIndex
  <2> QED
    BY <2>1, <2>2 DEF Visited
<1> QED
  BY <1>1, <1>2 DEF ClosedUnderIndex

\* One cascade, against the depends_on lists.
LEMMA CascadeStep ==
    ASSUME IInv, NEW k \in Keys, HardInvalidate(k, TRUE),
           NEW x \in Reached(entries, k) \ {k}
    PROVE  entries'[x] # Absent /\ entries'[x].status = "STALE"
<1> DEFINE e == [entries EXCEPT ![k] = [entries[k] EXCEPT !.status = "INVALIDATED", !.conf = 0]]
           V == Visited(e, depRev, k)
           Edges(z) == {y \in V : z \in depRev[y]}
           M == {k} \cup {z \in Keys : Cascadable(e, z) /\ Edges(z) # {}}
<1>1. /\ entries \in [Keys -> Entry \cup {Absent}] /\ depRev \in [Keys -> SUBSET Keys]
      /\ entries' = Cascade(e, depRev, k)
  BY DEF IInv, TypeOK, HardInvalidate
<1>2. \A z \in Keys \ {k} : e[z] = entries[z] /\ (Cascadable(e, z) <=> Cascadable(entries, z))
  BY <1>1 DEF Cascadable
<1> HIDE DEF e
<1>3. k \in V /\ ClosedUnderIndex(e, depRev, V)
  BY <1>1, VisitedClosed
<1>4. V \subseteq Keys
  BY DEF Visited
<1> HIDE DEF V
<1>5. ASSUME NEW y \in M PROVE y \in V
  BY <1>3, <1>5 DEF ClosedUnderIndex
<1>6. ASSUME NEW z \in Keys \ (suspect \cup {k}), Cascadable(entries, z),
             DepsOf(entries, z) \cap M # {}
      PROVE  z \in M
  <2>1. PICK y \in M : y \in DepsOf(entries, z)
    BY <1>6
  <2>2. y \in V /\ y \in Keys
    BY <1>5, <1>4
  <2>3. z \in depRev[y]
    BY <2>1, <2>2 DEF IInv, IndexExact
  <2> QED
    BY <1>2, <1>6, <2>2, <2>3
<1>7. M \in SUBSET Keys /\ k \in M
  OBVIOUS
<1>8. x \in M
  <2> HIDE DEF M
  <2> QED
    BY <1>6, <1>7 DEF Reached
<1>9. x \in Keys /\ Cascadable(e, x) /\ Edges(x) # {}
  BY <1>8
<1>10. entries'[x] = Softened(e[x], Cardinality(Edges(x)))
  BY <1>1, <1>9 DEF Cascade, V
<1>11. e[x] \in Entry
  BY <1>1, <1>2, <1>9 DEF Cascadable
<1>12. Cardinality(Edges(x)) \in 0..Cardinality(Keys)
  <2>1. Edges(x) \in SUBSET Keys
    BY <1>4
  <2> QED
    BY <2>1, CardinalityInTable
<1> HIDE DEF Edges
<1> QED
  BY <1>10, <1>11, <1>12, SoftenedKeeps

\* cascade_invalidate_internal reaches every valid entry that depends on the
\* invalidated key, for any number of keys and any dependency graph.
THEOREM CascadeCorrect == Spec => CascadeMarksDependents
<1> DEFINE A == \A k \in Keys : HardInvalidate(k, TRUE) =>
                    \A x \in Reached(entries, k) \ {k} :
                        entries'[x] # Absent /\ entries'[x].status = "STALE"
<1>1. IInv => A
  BY CascadeStep
<1>2. IInv /\ [Next]_vars => [A]_vars
  BY <1>1
<1>3. Spec => [][A]_vars
  <2> HIDE DEF A
  <2> QED
    BY <1>2, Inductive, PTL DEF Spec
<1> QED
  BY <1>3 DEF CascadeMarksDependents
=============================================================================
