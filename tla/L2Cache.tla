------------------------------ MODULE L2Cache ------------------------------
(***************************************************************************)
(* The persistent layer of the agent cache, class L2PersistentCache        *)
(* (src/agent_cache.cpp, include/agent_cache.h): the entries with their    *)
(* validity and confidence, the reverse dependency index dep_rev_ that a   *)
(* cascade follows, and the two files both are saved to.                   *)
(*                                                                         *)
(* Every mutator holds mu_ exclusively while it changes memory and then    *)
(* rewrites the files one after the other, so an operation is one action   *)
(* on memory followed by the save steps it owes ("saving"); nothing else   *)
(* can run until they are taken, except that the process may die.  The     *)
(* files are truncated and rewritten in place, so a crash can leave one of *)
(* them short.                                                             *)
(***************************************************************************)
EXTENDS Integers, Sequences, FiniteSets

CONSTANTS
    Keys,           \* cache keys
    DepSets,        \* the values of depends_on that callers pass
    WriteConfs,     \* the confidences that callers pass, any numbers, in units of 1/One
    One,            \* confidence 1.0
    TTL,            \* base_ttl_seconds, in clock ticks
    MaxClock,       \* bound: the clock stops here
    Retained,       \* (1 - confidence_decay)^age, in permille, by age in ticks
    CutPower,       \* 0.3^n, in permille
    CrashIn,        \* bound: the phases in which the process may die
    Dumpable,       \* subset of BOOLEAN: may a caller pass text json cannot dump
    Absent,         \* no entry under this key
    Missing, Torn   \* the index file does not exist; is not valid json

Permille == 0..1000

ASSUME KeysAssumption == IsFiniteSet(Keys) /\ DepSets \subseteq SUBSET Keys
ASSUME ConfAssumption == One \in Nat \ {0} /\ WriteConfs \subseteq Int
ASSUME ClockAssumption == TTL \in Nat /\ MaxClock \in Nat
ASSUME PowerAssumption == /\ Retained \in [0..MaxClock -> Permille]
                          /\ CutPower \in [0..Cardinality(Keys) -> Permille]
ASSUME DumpableAssumption == Dumpable \subseteq BOOLEAN

\* What can become of them: nothing checks the number an agent sends along with its result, and
\* what a cascade and the decay do to it takes it towards zero.
Conf == {0} \cup UNION {IF c < 0 THEN c..0 ELSE 0..c : c \in WriteConfs}

Status == {"FRESH", "STALE", "INVALIDATED"}

\* What the rest of the system can tell apart of a CacheEntry.  "dumpable" is
\* FALSE when a text field was cut inside a UTF-8 sequence, on which
\* nlohmann::json::dump throws.
Entry == [deps : SUBSET Keys, status : Status, conf : Conf,
          created : 0..MaxClock, dumpable : BOOLEAN]

ASSUME AbsentAssumption == Absent \notin Entry
ASSUME FileAssumption == /\ {Missing, Torn} \cap [Keys -> SUBSET Keys] = {}
                         /\ Missing # Torn

VARIABLES
    entries,        \* entries_: [Keys -> Entry or Absent]
    depRev,         \* dep_rev_: [Keys -> SUBSET Keys]
    now,            \* system_clock
    phase,          \* the process: see Phases
    saving,         \* the files the operation holding mu_ still has to write
    dataFile,       \* l2_cache.jsonl, as load_from_disk would read it
    revFile,        \* l2_revidx.json, or that it is missing or cut short
    \* history variables, read by no action's guard
    op,             \* the operation that holds mu_
    dirty,          \* keys whose index entries changed since the last save_revidx
    suspect,        \* keys whose index entries a crash may have left wrong
    dead            \* keys whose hard_invalidate returned, not written since

memory == <<entries, depRev>>
disk   == <<dataFile, revFile>>
ghosts == <<op, dirty, suspect, dead>>
vars   == <<memory, now, phase, saving, disk, ghosts>>

Phases == {"down", "up",
           "stopping",      \* in main's call of shutdown()
           "stopped",       \* shutdown() returned, memory cleared
           "exiting"}       \* in the shutdown() of the static destructor

NoEntries == [k \in Keys |-> Absent]
NoIndex   == [k \in Keys |-> {}]

Present(e)    == {k \in Keys : e[k] # Absent}
DepsOf(e, k)  == IF e[k] = Absent THEN {} ELSE e[k].deps
\* The reverse index that belongs to a set of entries.
ReverseIndex(e)    == [d \in Keys |-> {k \in Keys : d \in DepsOf(e, k)}]
Keep(e, S)    == [k \in Keys |-> IF k \in S THEN e[k] ELSE Absent]

Expired(x)    == now > x.created + TTL

\* get: what a lookup may return.  (access_count, which it bumps, decides
\* nothing.)
Servable(k) == /\ entries[k] # Absent
               /\ ~ Expired(entries[k])
               /\ entries[k].status # "INVALIDATED"

-----------------------------------------------------------------------------
(* Entering and leaving an operation.                                      *)

Idle == phase = "up" /\ saving = <<>>

\* Mutant: soft_invalidate forgets its save_to_disk.
FilesOwedWithoutSoft(name) ==
    CASE name = "soft_invalidate"        -> <<>>
      [] name = "apply_confidence_decay" -> <<"data">>
      [] OTHER                           -> <<"data", "rev">>

\* The saves at the end of each operation, in the order they are made.
FilesOwed(name) ==
    IF name \in {"soft_invalidate", "apply_confidence_decay"}
    THEN <<"data">> ELSE <<"data", "rev">>

Holding(name, keys) ==
    /\ saving' = FilesOwed(name)
    /\ op' = [name |-> name, keys |-> keys]

Unlocked == [name |-> "none", keys |-> {}]

\* The obligations that end when mu_ is released.
Acknowledge ==
    /\ op' = Unlocked
    /\ dead' = IF op.name = "hard_invalidate" THEN dead \cup op.keys ELSE dead

-----------------------------------------------------------------------------
(* Operations.                                                             *)

\* Mutant: the links of the old depends_on list are left behind.
UnlinkNothing(e, rev, K) == rev

Unlink(e, rev, K) == [d \in Keys |-> rev[d] \ {k \in K : d \in DepsOf(e, k)}]
Link(rev, k, D)   == [d \in Keys |-> IF d \in D THEN rev[d] \cup {k} ELSE rev[d]]

\* The status is the one the only writer, route_agent_result, derives.
NewEntries ==
    {[deps |-> D, status |-> IF c > (3 * One) \div 10 THEN "FRESH" ELSE "STALE",
      conf |-> c, created |-> now, dumpable |-> b] :
        D \in DepSets, c \in WriteConfs, b \in Dumpable}

Set(k, x) ==
    /\ Idle
    /\ entries' = [entries EXCEPT ![k] = x]
    /\ depRev' = Link(Unlink(entries, depRev, {k}), k, x.deps)
    /\ Holding("set", {k})
    /\ dirty' = dirty \cup {k}
    /\ dead' = dead \ {k}
    /\ UNCHANGED <<now, phase, disk, suspect>>

Remove(k) ==
    /\ Idle
    /\ entries' = [entries EXCEPT ![k] = Absent]
    /\ depRev' = Unlink(entries, depRev, {k})
    /\ Holding("remove", {k})
    /\ dirty' = dirty \cup {k}
    /\ UNCHANGED <<now, phase, disk, suspect, dead>>

\* Mutant: percent taken for permille.
ScaledByPercent(c, permille) == (c * permille) \div 100

Scaled(c, permille) == (c * permille) \div 1000

Softened(x, times) ==
    [x EXCEPT !.status = "STALE", !.conf = Scaled(@, CutPower[times])]

SoftInvalidate(k) ==
    /\ Idle
    /\ entries[k] # Absent
    /\ entries' = [entries EXCEPT ![k] = Softened(@, 1)]
    /\ Holding("soft_invalidate", {k})
    /\ dead' = dead \ {k}
    /\ UNCHANGED <<depRev, now, phase, disk, dirty, suspect>>

\* Mutant: an INVALIDATED entry is treated like any other.
CascadableIfPresent(e, k) == e[k] # Absent

\* The dependents a cascade goes through: there is an entry, and it is not
\* INVALIDATED already.
Cascadable(e, k) == e[k] # Absent /\ e[k].status # "INVALIDATED"

ClosedUnderIndex(e, rev, S) ==
    \A y \in S : \A x \in rev[y] : Cascadable(e, x) => x \in S

\* The keys cascade_invalidate_internal enters: the root and whatever index
\* edges lead to through cascadable entries.  The least set closed under those
\* edges is what the depth-first search with its visited list computes.
Visited(e, rev, root) ==
    {x \in Keys : \A S \in SUBSET Keys :
                     root \in S /\ ClosedUnderIndex(e, rev, S) => x \in S}

\* Every edge out of a visited key lowers its target once, also when the target
\* was visited before.
Cascade(e, rev, root) ==
    LET V == Visited(e, rev, root)
        Edges(x) == {y \in V : x \in rev[y]}
    IN  [x \in Keys |-> IF Cascadable(e, x) /\ Edges(x) # {}
                        THEN Softened(e[x], Cardinality(Edges(x)))
                        ELSE e[x]]

HardInvalidate(k, cascade) ==
    /\ Idle
    /\ entries[k] # Absent
    /\ LET e == [entries EXCEPT ![k] = [@ EXCEPT !.status = "INVALIDATED", !.conf = 0]]
       IN  entries' = IF cascade THEN Cascade(e, depRev, k) ELSE e
    /\ Holding("hard_invalidate", {k})
    /\ UNCHANGED <<depRev, now, phase, disk, dirty, suspect, dead>>

Decayed(x) ==
    LET left == Scaled(x.conf, Retained[now - x.created])
    IN  [x EXCEPT !.conf = left,
                  !.status = IF left < (3 * One) \div 10 THEN "STALE" ELSE @]

ApplyConfidenceDecay ==
    /\ Idle
    /\ entries' = [k \in Keys |-> IF Cascadable(entries, k) THEN Decayed(entries[k])
                                                            ELSE entries[k]]
    /\ Holding("apply_confidence_decay", {})
    /\ UNCHANGED <<depRev, now, phase, disk, dirty, suspect, dead>>

Purgeable == {k \in Keys : /\ entries[k] # Absent
                           /\ entries[k].status = "INVALIDATED"
                           /\ now > entries[k].created + 2 * TTL}

\* With nothing to remove the operation saves nothing either.
PurgeExpired ==
    /\ Idle
    /\ Purgeable # {}
    /\ entries' = Keep(entries, Keys \ Purgeable)
    /\ depRev' = Unlink(entries, depRev, Purgeable)
    /\ Holding("purge_expired", Purgeable)
    /\ dirty' = dirty \cup Purgeable
    /\ UNCHANGED <<now, phase, disk, suspect, dead>>

-----------------------------------------------------------------------------
(* Saving.                                                                 *)

AllDumpable == \A k \in Present(entries) : entries[k].dumpable

\* What reaches the file when writing stops early: entries are written in the
\* map's own order, so any of the dumpable ones may have come first.
Prefixes == {Keep(entries, S) : S \in SUBSET {k \in Present(entries) : entries[k].dumpable}}

SaveToDisk ==
    /\ saving # <<>> /\ Head(saving) = "data"
    /\ AllDumpable
    /\ dataFile' = entries
    /\ saving' = Tail(saving)
    /\ IF Tail(saving) = <<>> THEN Acknowledge ELSE UNCHANGED <<op, dead>>
    /\ UNCHANGED <<memory, now, phase, revFile, dirty, suspect>>

\* dump() throws after the file was truncated: mu_ is released, save_revidx is
\* skipped, and the exception leaves the operation.  In main's shutdown() it
\* ends the process.
SaveToDiskThrows ==
    /\ saving # <<>> /\ Head(saving) = "data"
    /\ ~ AllDumpable
    /\ dataFile' \in Prefixes
    /\ saving' = <<>>
    /\ op' = Unlocked
    /\ IF phase = "up"
       THEN UNCHANGED <<memory, phase, suspect, dirty>>
       ELSE /\ phase' = "down"
            /\ entries' = NoEntries /\ depRev' = NoIndex
            /\ suspect' = suspect \cup dirty \cup
                   {k \in Keys : dataFile'[k] = Absent /\ entries[k] # Absent}
            /\ dirty' = {}
    /\ UNCHANGED <<now, revFile, dead>>

\* save_revidx, the last thing an operation that owes it does.  For shutdown()
\* the maps are then cleared.
SaveRevidx ==
    /\ saving # <<>> /\ Head(saving) = "rev"
    /\ revFile' = depRev
    /\ dirty' = IF phase = "stopping" THEN Present(entries) ELSE {}
    /\ saving' = Tail(saving)
    /\ Acknowledge
    /\ CASE phase = "up"       -> UNCHANGED <<memory, phase>>
         [] phase = "stopping" -> /\ phase' = "stopped"
                                  /\ entries' = NoEntries /\ depRev' = NoIndex
         [] phase = "exiting"  -> /\ phase' = "down"
                                  /\ entries' = NoEntries /\ depRev' = NoIndex
    /\ UNCHANGED <<now, dataFile, suspect>>

-----------------------------------------------------------------------------
(* The process.                                                            *)

\* Mutant: an index file that does not parse is not rebuilt.
LoadedIndexWithoutRebuild == IF revFile \in {Torn, Missing} THEN NoIndex ELSE revFile

\* The index load_from_disk ends up with: one that does not parse is rebuilt, a
\* missing one is not.
LoadedIndex == CASE revFile = Torn    -> ReverseIndex(dataFile)
                 [] revFile = Missing -> NoIndex
                 [] OTHER             -> revFile

\* init and load_from_disk.
Init_L2 ==
    /\ phase = "down"
    /\ phase' = "up"
    /\ entries' = dataFile
    /\ depRev' = LoadedIndex
    /\ suspect' = IF revFile = Torn THEN {} ELSE suspect
    /\ UNCHANGED <<now, saving, disk, op, dirty, dead>>

\* main's call of CacheCoordinator::shutdown, and the one of ~L2PersistentCache.
Shutdown ==
    /\ \/ Idle /\ phase' = "stopping"
       \/ phase = "stopped" /\ phase' = "exiting"
    /\ Holding("shutdown", {})
    /\ UNCHANGED <<memory, now, disk, dirty, suspect, dead>>

Die(data, rev) ==
    /\ phase' = "down"
    /\ entries' = NoEntries /\ depRev' = NoIndex
    /\ saving' = <<>>
    /\ op' = Unlocked
    /\ dataFile' = data /\ revFile' = rev
    /\ dirty' = {}
    /\ UNCHANGED <<now, dead>>

\* The process dies outside the writing of a file, or inside save_to_disk or
\* save_revidx.
Crash ==
    /\ phase # "down" /\ phase \in CrashIn
    /\ \/ Die(dataFile, revFile)
       \/ saving # <<>> /\ Head(saving) = "data" /\ \E data \in Prefixes : Die(data, revFile)
       \/ saving # <<>> /\ Head(saving) = "rev" /\ Die(dataFile, Torn)
    /\ suspect' = suspect \cup dirty \cup
           {k \in Keys : dataFile'[k] = Absent /\ entries[k] # Absent}

Tick ==
    /\ now < MaxClock
    /\ now' = now + 1
    /\ UNCHANGED <<memory, phase, saving, disk, ghosts>>

-----------------------------------------------------------------------------
Init ==
    /\ entries = NoEntries /\ depRev = NoIndex
    /\ now = 0
    /\ phase = "down"
    /\ saving = <<>>
    /\ dataFile = NoEntries /\ revFile = Missing
    /\ op = Unlocked
    /\ dirty = {} /\ suspect = {} /\ dead = {}

Next ==
    \/ \E k \in Keys : \E x \in NewEntries : Set(k, x)
    \/ \E k \in Keys : Remove(k) \/ SoftInvalidate(k)
    \/ \E k \in Keys, cascade \in BOOLEAN : HardInvalidate(k, cascade)
    \/ ApplyConfidenceDecay
    \/ PurgeExpired
    \/ SaveToDisk \/ SaveToDiskThrows \/ SaveRevidx
    \/ Init_L2 \/ Shutdown \/ Crash
    \/ Tick

Spec == Init /\ [][Next]_vars

-----------------------------------------------------------------------------
(* Properties.                                                             *)

\* Every variable stays in its domain: in particular the numbers a cascade and
\* the decay compute stay between zero and what some caller passed.
TypeOK ==
    /\ entries \in [Keys -> Entry \cup {Absent}]
    /\ depRev \in [Keys -> SUBSET Keys]
    /\ now \in 0..MaxClock
    /\ phase \in Phases
    /\ saving \in {<<>>, <<"data">>, <<"rev">>, <<"data", "rev">>}
    /\ dataFile \in [Keys -> Entry \cup {Absent}]
    /\ revFile \in [Keys -> SUBSET Keys] \cup {Torn, Missing}
    /\ op \in [name : {"none", "set", "remove", "soft_invalidate", "hard_invalidate",
                       "apply_confidence_decay", "purge_expired", "shutdown"},
               keys : SUBSET Keys]
    /\ dirty \subseteq Keys /\ suspect \subseteq Keys /\ dead \subseteq Keys

\* dep_rev_ is exactly the inverse of the depends_on lists in memory, for every
\* key no crash has touched: saving two files one after the other, losing part
\* of either, and loading an index that is older than the data can spoil only
\* the index entries of keys that were being written, or were lost, at the time
\* (set, remove, purge_expired, load_from_disk).
IndexExact ==
    \A k \in Keys \ suspect, d \in Keys :
        k \in depRev[d] <=> d \in DepsOf(entries, k)

\* Whenever nobody holds mu_, the data file holds what memory holds, so a crash
\* between operations loses nothing, and the index file is the index or is one
\* that load_from_disk will rebuild -- unless an entry cannot be dumped, which
\* makes every save stop early (every mutator's trailing saves).
DiskCurrent ==
    Idle /\ AllDumpable =>
        /\ dataFile = entries
        /\ revFile \in {depRev, Torn, Missing}

\* A key whose hard_invalidate has returned is a miss until it is written again
\* (or softened), whatever cascades, decay, purges, failed saves, crashes and
\* restarts come in between (hard_invalidate, get, load_from_disk).
InvalidatedStaysAMiss == \A k \in dead : ~ Servable(k)

\* The entries a cascade from root has to reach, by their own depends_on lists:
\* chains of entries that are still valid and whose index a crash has not
\* touched.
Reached(e, root) ==
    {x \in Keys : \A S \in SUBSET Keys :
        /\ root \in S
        /\ \A z \in Keys \ (suspect \cup {root}) :
               Cascadable(e, z) /\ DepsOf(e, z) \cap S # {} => z \in S
        => x \in S}

\* A cascading hard_invalidate marks every valid entry that depends on the key
\* through valid entries, in any depth and also around a cycle of dependencies:
\* none of them can be served as FRESH afterwards (cascade_invalidate_internal).
CascadeMarksDependents ==
    [][\A k \in Keys : HardInvalidate(k, TRUE) =>
           \A x \in Reached(entries, k) \ {k} :
               entries'[x] # Absent /\ entries'[x].status = "STALE"]_vars

-----------------------------------------------------------------------------
(* What the documentation promises and the code does not keep.             *)

\* agent_cache.h:115 says of hard_invalidate that it "marks all dependents" in a
\* cascade: here, every entry below the key in the depends_on relation.
DependsOn(e, root) ==
    {x \in Keys : \A S \in SUBSET Keys :
        /\ root \in S
        /\ \A z \in Keys : DepsOf(e, z) \cap S # {} => z \in S
        => x \in S}
CascadeMarksAllDependents ==
    [][\A k \in Keys : HardInvalidate(k, TRUE) =>
           \A x \in DependsOn(entries, k) \cap Present(entries) :
               entries'[x].status # "FRESH"]_vars

\* agent_types.h:42 says that a confidence is from 0 to 1; what an agent sends is stored as it is.
ConfidenceInRange == \A k \in Present(entries) : entries[k].conf \in 0..One

\* agent_cache.h:125 calls purge_expired "remove expired entries", and get leaves
\* an expired entry in place "for purge_expired" (agent_cache.cpp:217): after a
\* purge no expired entry is left.
PurgeRemovesExpired ==
    [][PurgeExpired =>
           \A k \in Keys : entries'[k] # Absent => ~ Expired(entries'[k])]_vars

\* agent_cache.h:92 calls this layer persistent: once main's shutdown() has saved
\* the cache, the rest of an orderly exit leaves the data file alone.
CleanExitKeepsData == [][phase = "exiting" => dataFile' = dataFile]_vars

-----------------------------------------------------------------------------
(* The inductive invariant behind the theorems of L2CacheProofs.           *)

\* How the lock, the process and memory go together.
LockInv ==
    /\ saving # <<>> => phase \in {"up", "stopping", "exiting"}
    /\ phase \in {"stopping", "exiting"} => saving \in {<<"data", "rev">>, <<"rev">>}
    /\ phase \in {"down", "stopped", "exiting"} => entries = NoEntries /\ depRev = NoIndex
    /\ phase = "down" => dirty = {}
    /\ saving = <<"rev">> => dataFile = entries

\* The index as load_from_disk would read it.
IndexOnDisk(d) == IF revFile = Missing THEN {} ELSE revFile[d]

\* While the process runs, a clean key's index entries on disk are those of the
\* entry in memory, and its data on disk, unless lost, has the same depends_on;
\* once it is down, both files agree.
DiskIndexInv ==
    /\ phase # "down" => \A k \in Keys \ (suspect \cup dirty) :
           /\ revFile # Torn =>
                  \A d \in Keys : k \in IndexOnDisk(d) <=> d \in DepsOf(entries, k)
           /\ dataFile[k] # Absent => DepsOf(dataFile, k) = DepsOf(entries, k)
    /\ phase = "down" /\ revFile # Torn => \A k \in Keys \ suspect :
           \A d \in Keys : k \in IndexOnDisk(d) <=> d \in DepsOf(dataFile, k)

Invalid(e, k) == e[k] = Absent \/ e[k].status = "INVALIDATED"

\* An acknowledged invalidation is in memory and on disk.
DeadInv ==
    /\ \A k \in dead : Invalid(entries, k) /\ Invalid(dataFile, k)
    /\ saving # <<>> /\ op.name = "hard_invalidate" => \A k \in op.keys : Invalid(entries, k)

\* The files are current also in the middle of an operation that owes only the
\* data file.
DataOnlyInv ==
    phase = "up" /\ saving = <<"data">> /\ AllDumpable =>
        revFile \in {depRev, Torn, Missing}

\* No entry is from the future, in memory or on disk.
CreatedInv ==
    \A k \in Keys : /\ entries[k] # Absent => entries[k].created <= now
                    /\ dataFile[k] # Absent => dataFile[k].created <= now

IInv == /\ TypeOK /\ CreatedInv /\ LockInv
        /\ IndexExact /\ DiskIndexInv /\ DeadInv /\ DiskCurrent /\ DataOnlyInv
=============================================================================
