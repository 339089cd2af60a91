--------------------------- MODULE PluginsProofs ---------------------------
(***************************************************************************)
(* Theorems about the list of plugins and its hot reload.                  *)
(*                                                                         *)
(* What load_plugin may append without a lock is safe because unload_plugin *)
(* has taken off all that has the same path (Basic).  Whether the list     *)
(* converges to the directory is a matter of where the news of a change is *)
(* at each moment: queued, being handled, or on the list (Settled).        *)
(***************************************************************************)
EXTENDS Plugins, SequenceLemmas

-----------------------------------------------------------------------------
(* Lists.                                                                  *)

\* A finite set in some order.
LEMMA SetToSeqFacts ==
    ASSUME NEW S, IsFiniteSet(S)
    PROVE  /\ SetToSeq(S) \in Seq(S) /\ ToSet(SetToSeq(S)) = S
           /\ IsInjective(SetToSeq(S))
<1> DEFINE n == Cardinality(S)
<1>1. n \in Nat /\ ExistsBijection(1..n, S)
  BY FS_CardinalityType
<1>2. \E f \in [1..n -> S] : IsInjective(f)
  <2>1. PICK f : f \in Bijection(1..n, S)
    BY <1>1 DEF ExistsBijection
  <2> QED
    BY <2>1 DEF Bijection, Injection
<1>3. SetToSeq(S) \in [1..n -> S] /\ IsInjective(SetToSeq(S))
  BY <1>2 DEF SetToSeq
<1>4. SetToSeq(S) \in Injection(1..n, S)
  BY <1>3 DEF Injection
<1>5. Cardinality(1..n) = n
  BY <1>1, FS_Interval
<1>6. SetToSeq(S) \in Surjection(1..n, S)
  BY <1>4, <1>5, FS_Injection
<1>7. ToSet(SetToSeq(S)) = S
  BY <1>3, <1>6 DEF ToSet, Surjection
<1>8. SetToSeq(S) \in Seq(S)
  BY <1>1, <1>3, SeqDef
<1> QED
  BY <1>3, <1>7, <1>8

\* A list without repetitions has the same elements after the sort, and none twice.
LEMMA SortedFacts ==
    ASSUME NEW S, NEW list \in Seq(S), IsInjective(list), NEW s \in Sorted(list)
    PROVE  s \in Seq(S) /\ ToSet(s) = ToSet(list) /\ IsInjective(s) /\ Ordered(s)
<1> DEFINE n == Len(list)
<1>1. n \in Nat /\ DOMAIN list = 1..n /\ ToSet(list) \subseteq S
  BY LenProperties, ElementOfSeq DEF ToSet
<1>2. s \in [1..n -> ToSet(list)] /\ ToSet(s) = ToSet(list) /\ Ordered(s)
  BY <1>1 DEF Sorted
<1>3. \A y \in ToSet(list) : \E i \in 1..n : s[i] = y
  BY <1>2 DEF ToSet
<1>4. s \in Surjection(1..n, ToSet(list))
  BY <1>2, <1>3 DEF Surjection
<1>5. IsFiniteSet(1..n) /\ Cardinality(1..n) = Cardinality(ToSet(list))
  <2>1. IsFiniteSet(1..n) /\ Cardinality(1..n) = n
    BY <1>1, FS_Interval
  <2>2. Cardinality(ToSet(list)) = n
    BY InjectiveLen
  <2> QED
    BY <2>1, <2>2
<1>6. s \in Injection(1..n, ToSet(list))
  BY <1>4, <1>5, FS_SurjSameCardinalityImpliesInj
<1>7. s \in Seq(S)
  BY <1>1, <1>2, SeqDef
<1> QED
  BY <1>2, <1>6, <1>7 DEF Injection

-----------------------------------------------------------------------------
(* Types, for any spelling of the directory.                               *)

\* The path that the watcher builds.
WatchPath == Path(watch.file, "watch")

\* The list holds each path once, and not that of a file about to be loaded.
ListOnce ==
    /\ plugins \in Seq(Runtime) /\ IsInjective(plugins)
    /\ \A p, q \in ToSet(plugins) : p.path = q.path => p = q
    /\ At("load") => \A p \in ToSet(plugins) : p.path # WatchPath

Basic ==
    /\ disk \in [Files -> Versions \cup {Broken, Absent}]
    /\ writing \in [Files -> Versions \cup {None}]
    /\ events \in Seq(Files)
    /\ watch \in Reloads \cup {None}
    /\ phase \in {"start", "loaded", "watching", "unwatched", "stopped"}
    /\ phase \in {"start", "loaded"} => watch = None
    /\ snap = [t \in Threads |-> snap[t]]
    /\ ListOnce

\* A path is that of its file.
LEMMA PathFacts ==
    ASSUME NEW f \in Files, NEW g \in Files, NEW a \in {"scan", "watch"}, NEW b \in {"scan", "watch"}
    PROVE  /\ Path(f, a) \in Files \X {"scan", "watch"} /\ Path(f, a)[1] = f
           /\ Path(f, a) = Path(g, b) => f = g
           /\ Path(f, a) = Path(f, b) \/ SlashInDir
  BY DEF Path

\* At a step of a reload, watch is its record.
LEMMA AtFacts ==
    ASSUME Basic, NEW step, At(step)
    PROVE  /\ watch \in Reloads /\ watch # None /\ watch.step = step
           /\ watch.file \in Files /\ WatchPath \in Files \X {"scan", "watch"} /\ WatchPath[1] = watch.file
<1>1. watch \in Reloads /\ watch # None /\ watch.step = step /\ watch.file \in Files
  BY DEF Basic, At, Reloads
<1> QED
  BY <1>1, PathFacts DEF WatchPath

\* Taking the next step of a reload.
LEMMA ThenFacts ==
    ASSUME Basic, NEW step \in {"load", "sort"}, watch # None, Then(step)
    PROVE  /\ watch' \in Reloads /\ watch' # None /\ watch'.step = step
           /\ watch'.file = watch.file /\ watch'.had = watch.had
<1>1. watch \in Reloads
  BY DEF Basic
<1>2. watch' = [watch EXCEPT !.step = step]
  BY DEF Then
<1>3. watch' \in Reloads /\ watch'.step = step /\ watch'.file = watch.file /\ watch'.had = watch.had
  BY <1>1, <1>2 DEF Reloads
<1> QED
  BY <1>3, MarkAssumption

LEMMA InitBasic == Init => Basic
<1> SUFFICES ASSUME Init PROVE Basic
  OBVIOUS
<1>1. plugins \in Seq(Runtime) /\ ToSet(plugins) = {} /\ IsInjective(plugins) /\ events \in Seq(Files)
  BY EmptySeq DEF Init, ToSet, IsInjective
<1> QED
  BY <1>1 DEF Init, Basic, ListOnce, At

\* Steps that leave the list and the watcher alone.
LEMMA ListStays ==
    ASSUME Basic, plugins' = plugins, watch' = watch
    PROVE  ListOnce'
  BY DEF Basic, ListOnce, At, WatchPath

LEMMA EditBasic ==
    ASSUME Basic, NEW f \in Files,
           EndWrite(f) \/ Delete(f) \/ \E v \in Versions : BeginWrite(f, v) \/ MoveIn(f, v)
    PROVE  Basic'
<1>1. /\ plugins' = plugins /\ watch' = watch /\ phase' = phase /\ snap' = snap
      /\ events' = events \/ events' = Append(events, f)
  BY DEF EndWrite, Delete, BeginWrite, MoveIn, Change, Noticed
<1>2. events' \in Seq(Files)
  BY <1>1, AppendProperties DEF Basic
<1>3. disk' \in [Files -> Versions \cup {Broken, Absent}]
  BY DEF Basic, EndWrite, Delete, BeginWrite, MoveIn, Change
<1>4. writing' \in [Files -> Versions \cup {None}]
  BY DEF Basic, EndWrite, Delete, BeginWrite, MoveIn, Change
<1> QED
  BY <1>1, <1>2, <1>3, <1>4, ListStays DEF Basic

\* What the scan finds.
Found == {[path |-> Path(f, "scan"), version |-> disk[f]] : f \in {g \in Files : disk[g] \in Versions}}

\* The list after the scan.
LEMMA ScanFacts ==
    ASSUME Basic, Scan
    PROVE  /\ plugins' \in Seq(Runtime) /\ IsInjective(plugins')
           /\ ToSet(plugins') = Found /\ Ordered(plugins')
<1>1. Found \subseteq Runtime
  BY PathFacts DEF Found, Runtime, Basic
<1> DEFINE found == {g \in Files : disk[g] \in Versions}
           F == [f \in found |-> [path |-> Path(f, "scan"), version |-> disk[f]]]
<1>2. IsFiniteSet(Found)
  <2>1. IsFiniteSet(found)
    BY FilesAssumption, FS_Subset
  <2>2. Found = {F[f] : f \in found}
    BY DEF Found
  <2>3. F \in Surjection(found, Found)
    BY <2>2 DEF Surjection
  <2> QED
    BY <2>1, <2>3, FS_Surjection
<1>3. SetToSeq(Found) \in Seq(Found) /\ ToSet(SetToSeq(Found)) = Found /\ IsInjective(SetToSeq(Found))
  BY <1>2, SetToSeqFacts
<1>4. plugins' \in Sorted(SetToSeq(Found))
  BY DEF Scan, Found
<1>5. plugins' \in Seq(Found) /\ ToSet(plugins') = Found /\ IsInjective(plugins') /\ Ordered(plugins')
  BY <1>3, <1>4, SortedFacts
<1>6. plugins' \in Seq(Runtime)
  <2>1. Len(plugins') \in Nat /\ plugins' \in [1..Len(plugins') -> Found]
    BY <1>5, LenProperties
  <2> QED
    BY <2>1, <1>1, SeqDef
<1> QED
  BY <1>5, <1>6

LEMMA ScanBasic ==
    ASSUME Basic, Scan
    PROVE  Basic'
<1>1. \A p, q \in Found : p.path = q.path => p = q
  BY PathFacts DEF Found
<1>2. watch' = None /\ UNCHANGED <<disk, writing, events, snap>> /\ phase' = "loaded"
  BY DEF Scan, Basic, files
<1>3. ListOnce'
  BY <1>1, <1>2, ScanFacts DEF ListOnce, At
<1> QED
  BY <1>2, <1>3 DEF Basic

LEMMA TakeEventBasic ==
    ASSUME Basic, TakeEvent
    PROVE  Basic' /\ watch' \in Reloads
<1>1. /\ watch' = [step |-> "unload", file |-> Head(events), had |-> Loaded] /\ phase = "watching"
      /\ events # <<>> /\ events' = Tail(events) /\ UNCHANGED <<disk, writing, plugins, phase, snap>>
  BY DEF TakeEvent, files
<1>2. Head(events) \in Files /\ events' \in Seq(Files)
  BY <1>1, TailAt DEF Basic
<1>3. Loaded \subseteq Files
  <2>1. \A p \in ToSet(plugins) : p \in Runtime
    BY LenProperties, ElementOfSeq DEF Basic, ListOnce, ToSet
  <2> QED
    BY <2>1 DEF Loaded, File, Runtime
<1>4. watch' \in Reloads /\ watch'.step = "unload"
  BY <1>1, <1>2, <1>3 DEF Reloads
<1>5. ListOnce'
  BY <1>1, <1>4 DEF Basic, ListOnce, At
<1> QED
  BY <1>1, <1>2, <1>4, <1>5 DEF Basic

\* unload_plugin takes off the list what has the path of the watcher, and nothing else.
LEMMA UnloadFacts ==
    ASSUME Basic, Unload
    PROVE  /\ plugins' \in Seq(Runtime) /\ IsInjective(plugins')
           /\ ToSet(plugins') = {p \in ToSet(plugins) : p.path # WatchPath}
           /\ watch' \in Reloads /\ watch' # None /\ watch'.step = "load"
           /\ watch'.file = watch.file /\ watch'.had = watch.had
  BY KeepFacts, AtFacts, ThenFacts DEF Unload, Basic, ListOnce, WatchPath

LEMMA UnloadBasic ==
    ASSUME Basic, Unload
    PROVE  Basic'
<1>1. UNCHANGED <<disk, writing, events, phase, snap>> /\ watch # None
  BY AtFacts DEF Unload, files
<1>2. ListOnce'
  BY UnloadFacts DEF Basic, ListOnce, WatchPath
<1> QED
  BY <1>1, <1>2, UnloadFacts DEF Basic

\* What load_plugin puts on the list if the file can be run.
Fresh == [path |-> WatchPath, version |-> disk[watch.file]]

LEMMA LoadFacts ==
    ASSUME Basic, Load
    PROVE  /\ plugins' \in Seq(Runtime) /\ IsInjective(plugins')
           /\ ToSet(plugins') = ToSet(plugins) \cup (IF disk[watch.file] \in Versions THEN {Fresh} ELSE {})
           /\ \A p \in ToSet(plugins) : p.path # WatchPath
           /\ watch' \in Reloads /\ watch' # None /\ watch'.step = "sort"
           /\ watch'.file = watch.file /\ watch'.had = watch.had
<1>1. /\ watch # None /\ WatchPath \in Files \X {"scan", "watch"} /\ At("load") /\ Then("sort")
      /\ \A p \in ToSet(plugins) : p.path # WatchPath
  BY AtFacts DEF Load, Basic, ListOnce
<1>2. /\ watch' \in Reloads /\ watch' # None /\ watch'.step = "sort"
      /\ watch'.file = watch.file /\ watch'.had = watch.had
  BY <1>1, ThenFacts
<1>3. plugins \in Seq(Runtime) /\ IsInjective(plugins)
  BY DEF Basic, ListOnce
<1>4. CASE disk[watch.file] \in Versions
  <2>1. plugins' = Append(plugins, Fresh) /\ Fresh \in Runtime
    BY <1>1, <1>4 DEF Load, Fresh, WatchPath, Runtime
  <2>2. Fresh \notin ToSet(plugins)
    BY <1>1 DEF Fresh
  <2>3. plugins' \in Seq(Runtime)
    BY <1>3, <2>1, AppendAt
  <2>4. ToSet(plugins') = ToSet(plugins) \cup {Fresh}
    BY <1>3, <2>1, ToSetAppend
  <2>5. IsInjective(plugins')
    BY <1>3, <2>1, <2>2, InjectiveAppend
  <2> QED
    BY <1>1, <1>2, <1>4, <2>3, <2>4, <2>5
<1>5. CASE disk[watch.file] \notin Versions
  BY <1>1, <1>2, <1>3, <1>5 DEF Load
<1> QED
  BY <1>4, <1>5

LEMMA LoadBasic ==
    ASSUME Basic, Load
    PROVE  Basic'
<1>1. UNCHANGED <<disk, writing, events, phase, snap>> /\ watch # None
  BY AtFacts DEF Load, files
<1>2. \A p, q \in ToSet(plugins') : p.path = q.path => p = q
  <2>1. \A p, q \in ToSet(plugins) : p.path = q.path => p = q
    BY DEF Basic, ListOnce
  <2>2. \A p \in ToSet(plugins) : p.path # Fresh.path
    BY LoadFacts DEF Fresh
  <2>3. ToSet(plugins') \subseteq ToSet(plugins) \cup {Fresh}
    BY LoadFacts
  <2> QED
    BY <2>1, <2>2, <2>3
<1>3. ListOnce'
  BY <1>2, LoadFacts DEF ListOnce, At
<1> QED
  BY <1>1, <1>3, LoadFacts DEF Basic

LEMMA SortFacts ==
    ASSUME Basic, Sort
    PROVE  /\ plugins' \in Seq(Runtime) /\ IsInjective(plugins')
           /\ ToSet(plugins') = ToSet(plugins) /\ Ordered(plugins')
  BY SortedFacts DEF Sort, Basic, ListOnce

LEMMA SortBasic ==
    ASSUME Basic, Sort
    PROVE  Basic'
<1>1. UNCHANGED <<disk, writing, events, phase, snap>> /\ watch' = None
  BY DEF Sort, files
<1>2. ListOnce'
  BY <1>1, SortFacts DEF Basic, ListOnce, At
<1> QED
  BY <1>1, <1>2 DEF Basic

LEMMA ShutdownBasic ==
    ASSUME Basic, Shutdown
    PROVE  Basic'
<1>1. /\ plugins' = <<>> /\ phase' = "stopped" /\ watch' = watch /\ watch = None
      /\ UNCHANGED <<disk, writing, events, snap>>
  BY DEF Shutdown, files
<1>2. plugins' \in Seq(Runtime) /\ ToSet(plugins') = {} /\ IsInjective(plugins')
  BY <1>1, EmptySeq DEF ToSet, IsInjective
<1>3. ListOnce'
  BY <1>1, <1>2 DEF ListOnce, At
<1> QED
  BY <1>1, <1>3 DEF Basic

LEMMA StepBasic == Basic /\ [Next]_vars => Basic'
<1> SUFFICES ASSUME Basic, [Next]_vars PROVE Basic'
  OBVIOUS
<1>1. CASE UNCHANGED vars
  BY <1>1, ListStays DEF vars, files, Basic
<1>2. ASSUME NEW f \in Files,
             EndWrite(f) \/ Delete(f) \/ \E v \in Versions : BeginWrite(f, v) \/ MoveIn(f, v)
      PROVE Basic'
  BY <1>2, EditBasic
<1>3. CASE StartHotReload
  BY <1>3, ListStays DEF StartHotReload, files, Basic
<1>4. ASSUME NEW t \in Threads, Snapshot(t) \/ EndPipeline(t) PROVE Basic'
  <2>1. UNCHANGED <<files, plugins, events, watch, phase>>
    BY <1>4 DEF Snapshot, EndPipeline
  <2>2. snap' = [u \in Threads |-> snap'[u]]
    BY <1>4 DEF Snapshot, EndPipeline, Basic
  <2> QED
    BY <2>1, <2>2, ListStays DEF files, Basic
<1> QED
  BY <1>1, <1>2, <1>3, <1>4, ScanBasic, TakeEventBasic, UnloadBasic, LoadBasic, SortBasic,
     ShutdownBasic DEF Next, Watcher

LEMMA AlwaysBasic == Spec => []Basic
  BY InitBasic, StepBasic, PTL DEF Spec

-----------------------------------------------------------------------------
(* With one spelling of the paths, a file is on the list once.             *)

OnePath == \A p \in ToSet(plugins) : p.path[2] = "scan"

\* What is on a list is a plugin.
LEMMA OnList ==
    ASSUME Basic
    PROVE  \A p \in ToSet(plugins) : p \in Runtime /\ File(p) \in Files /\ p.path = <<p.path[1], p.path[2]>>
<1>1. \A p \in ToSet(plugins) : p \in Runtime
  BY LenProperties, ElementOfSeq DEF Basic, ListOnce, ToSet
<1> QED
  BY <1>1 DEF Runtime, File

LEMMA StepOnePath ==
    ASSUME ~SlashInDir, Basic, OnePath, [Next]_vars
    PROVE  OnePath'
<1>1. CASE plugins' = plugins
  BY <1>1 DEF OnePath
<1>2. CASE Scan
  BY <1>2, ScanFacts DEF Found, Path, OnePath
<1>3. CASE Unload
  BY <1>3, UnloadFacts DEF OnePath
<1>4. CASE Load
  <2>1. WatchPath[2] = "scan"
    BY DEF WatchPath, Path
  <2> QED
    BY <1>4, <2>1, LoadFacts DEF OnePath, Fresh
<1>5. CASE Sort
  BY <1>5, SortFacts DEF OnePath
<1>6. CASE Shutdown
  BY <1>6 DEF Shutdown, OnePath, ToSet
<1>7. ASSUME NEW f \in Files,
             EndWrite(f) \/ Delete(f) \/ \E v \in Versions : BeginWrite(f, v) \/ MoveIn(f, v)
      PROVE plugins' = plugins
  BY <1>7 DEF EndWrite, Delete, BeginWrite, MoveIn, Change
<1>8. ASSUME NEW t \in Threads, Snapshot(t) \/ EndPipeline(t) PROVE plugins' = plugins
  BY <1>8 DEF Snapshot, EndPipeline
<1>9. CASE UNCHANGED vars \/ StartHotReload \/ TakeEvent
  BY <1>1, <1>9 DEF vars, StartHotReload, TakeEvent
<1> QED
  BY <1>1, <1>2, <1>3, <1>4, <1>5, <1>6, <1>7, <1>8, <1>9 DEF Next, Watcher

LEMMA AlwaysOnePath == ASSUME ~SlashInDir PROVE Spec => []OnePath
<1>1. Init => OnePath
  BY DEF Init, OnePath, ToSet
<1>2. Basic /\ OnePath /\ [Next]_vars => OnePath'
  BY StepOnePath
<1> QED
  BY <1>1, <1>2, AlwaysBasic, PTL DEF Spec

\* Two plugins of one file are the same.
LEMMA FileOnce ==
    ASSUME Basic, OnePath
    PROVE  \A p, q \in ToSet(plugins) : File(p) = File(q) => p = q
<1>1. \A p, q \in ToSet(plugins) : File(p) = File(q) => p.path = q.path
  BY OnList DEF OnePath, File
<1> QED
  BY <1>1 DEF Basic, ListOnce

\* Every variable stays in its domain and no file is on the list twice, whatever happens to
\* files during a reload, if the directory is configured without a slash at its end
\* (unload_plugin, load_plugin).
THEOREM TypeCorrect == ASSUME ~SlashInDir PROVE Spec => []TypeOK
<1>1. ASSUME Basic, OnePath PROVE TypeOK
  <2>1. DOMAIN plugins = 1..Len(plugins) /\ \A i \in DOMAIN plugins : plugins[i] \in ToSet(plugins)
    BY <1>1, LenProperties DEF Basic, ListOnce, ToSet
  <2>2. \A i, j \in DOMAIN plugins : File(plugins[i]) = File(plugins[j]) => i = j
    BY <1>1, <2>1, FileOnce DEF Basic, ListOnce, IsInjective
  <2> QED
    BY <1>1, <2>2 DEF Basic, ListOnce, TypeOK
<1> QED
  BY <1>1, AlwaysBasic, AlwaysOnePath, PTL

-----------------------------------------------------------------------------
(* The order of the list.                                                  *)

LEMMA StepPriorityOrder ==
    ASSUME Basic, PriorityOrder, [Next]_vars
    PROVE  PriorityOrder'
<1>1. CASE plugins' = plugins /\ watch' = watch
  BY <1>1 DEF PriorityOrder, Ordered
<1>2. CASE Scan
  BY <1>2, ScanFacts DEF PriorityOrder
<1>3. CASE TakeEvent
  BY <1>3, TakeEventBasic, MarkAssumption DEF PriorityOrder
<1>4. CASE Unload
  BY <1>4, UnloadFacts DEF PriorityOrder
<1>5. CASE Load
  BY <1>5, LoadFacts DEF PriorityOrder
<1>6. CASE Sort
  BY <1>6, SortFacts DEF PriorityOrder
<1>7. CASE Shutdown
  BY <1>7 DEF Shutdown, PriorityOrder, Ordered
<1>8. ASSUME NEW f \in Files,
             EndWrite(f) \/ Delete(f) \/ \E v \in Versions : BeginWrite(f, v) \/ MoveIn(f, v)
      PROVE plugins' = plugins /\ watch' = watch
  BY <1>8 DEF EndWrite, Delete, BeginWrite, MoveIn, Change
<1>9. ASSUME NEW t \in Threads, Snapshot(t) \/ EndPipeline(t)
      PROVE plugins' = plugins /\ watch' = watch
  BY <1>9 DEF Snapshot, EndPipeline
<1>10. CASE UNCHANGED vars \/ StartHotReload
  BY <1>1, <1>10 DEF vars, StartHotReload
<1> QED
  BY <1>1, <1>2, <1>3, <1>4, <1>5, <1>6, <1>7, <1>8, <1>9, <1>10 DEF Next, Watcher

\* Between reloads the plugins stand in the order of their priority (sort_plugins).
THEOREM InOrder == Spec => []PriorityOrder
<1>1. Init => PriorityOrder
  BY DEF Init, PriorityOrder, Ordered
<1>2. Basic /\ PriorityOrder /\ [Next]_vars => PriorityOrder'
  BY StepPriorityOrder
<1> QED
  BY <1>1, <1>2, AlwaysBasic, PTL DEF Spec

-----------------------------------------------------------------------------
(* What a pipeline copies.                                                 *)

\* During a reload the list lacks none of the plugins it had but the one that is reloaded.
HadKept == watch # None => \A f \in watch.had : f = watch.file \/ f \in Loaded

Others == HadKept /\ OthersKept

LEMMA UnloadHad ==
    ASSUME Basic, HadKept, Unload
    PROVE  HadKept'
<1>1. watch # None /\ watch \in Reloads /\ WatchPath[1] = watch.file
  BY AtFacts DEF Unload
<1>2. ASSUME NEW f \in watch.had, f # watch.file PROVE \E p \in ToSet(plugins') : File(p) = f
  <2>1. PICK p \in ToSet(plugins) : File(p) = f
    BY <1>1, <1>2 DEF HadKept, Loaded
  <2>2. p.path # WatchPath
    BY <1>1, <1>2, <2>1 DEF File
  <2> QED
    BY <2>1, <2>2, UnloadFacts
<1>3. watch'.had = watch.had /\ watch'.file = watch.file
  BY UnloadFacts
<1> QED
  BY <1>2, <1>3 DEF HadKept, Loaded

LEMMA LoadHad ==
    ASSUME Basic, HadKept, Load
    PROVE  HadKept'
<1>1. watch # None /\ watch'.had = watch.had /\ watch'.file = watch.file
  BY LoadFacts, AtFacts DEF Load
<1>2. Loaded \subseteq Loaded'
  BY LoadFacts DEF Loaded
<1> QED
  BY <1>1, <1>2 DEF HadKept

LEMMA StepHad ==
    ASSUME Basic, HadKept, [Next]_vars
    PROVE  HadKept'
<1>1. CASE plugins' = plugins /\ watch' = watch
  BY <1>1 DEF HadKept, Loaded
<1>2. CASE Scan \/ Shutdown \/ Sort
  <2>1. watch' = None
    BY <1>2, ScanBasic DEF Basic, Scan, Shutdown, Sort
  <2> QED
    BY <2>1 DEF HadKept
<1>3. CASE TakeEvent
  <2>1. watch'.had = Loaded /\ plugins' = plugins
    BY <1>3 DEF TakeEvent
  <2> QED
    BY <2>1 DEF HadKept, Loaded
<1>4. ASSUME NEW f \in Files,
             EndWrite(f) \/ Delete(f) \/ \E v \in Versions : BeginWrite(f, v) \/ MoveIn(f, v)
      PROVE plugins' = plugins /\ watch' = watch
  BY <1>4 DEF EndWrite, Delete, BeginWrite, MoveIn, Change
<1>5. ASSUME NEW t \in Threads, Snapshot(t) \/ EndPipeline(t)
      PROVE plugins' = plugins /\ watch' = watch
  BY <1>5 DEF Snapshot, EndPipeline
<1>6. CASE UNCHANGED vars \/ StartHotReload
  BY <1>1, <1>6 DEF vars, StartHotReload
<1> QED
  BY <1>1, <1>2, <1>3, <1>4, <1>5, <1>6, UnloadHad, LoadHad DEF Next, Watcher

LEMMA SnapshotOthers ==
    ASSUME Basic, Others, NEW t \in Threads, Snapshot(t)
    PROVE  OthersKept'
<1> DEFINE due == IF watch = None THEN Loaded
                  ELSE {f \in watch.had : f = watch.file => disk[f] \in Versions}
           reloaded == IF watch = None THEN None ELSE watch.file
<1>1. PICK list :
        snap' = [snap EXCEPT ![t] = [list |-> list, raced |-> list # plugins,
                                     reloaded |-> reloaded, due |-> due]]
  BY DEF Snapshot
<1>2. snap = [u \in Threads |-> snap[u]]
  BY DEF Basic
<1>3. /\ snap'[t] = [list |-> list, raced |-> list # plugins, reloaded |-> reloaded, due |-> due]
      /\ \A u \in Threads \ {t} : snap'[u] = snap[u]
  BY <1>1, <1>2
<1>4. \A f \in due : f = reloaded \/ f \in Loaded
  BY DEF Others, HadKept
<1> HIDE DEF due, reloaded
<1>5. ASSUME ~snap'[t].raced, NEW f \in snap'[t].due
      PROVE  \/ f = snap'[t].reloaded
             \/ \E p \in ToSet(snap'[t].list) : File(p) = f
  <2>1. snap'[t].list = list /\ snap'[t].reloaded = reloaded /\ f \in due
    BY <1>3, <1>5
  <2>2. snap'[t].raced = (list # plugins)
    BY <1>3
  <2>3. list = plugins
    BY <1>5, <2>2
  <2> QED
    BY <1>4, <2>1, <2>3 DEF Loaded
<1> QED
  BY <1>3, <1>5 DEF Others, OthersKept

LEMMA StepOthers ==
    ASSUME Basic, Others, [Next]_vars
    PROVE  Others'
<1>1. ASSUME snap' = snap PROVE OthersKept'
  BY <1>1 DEF Others, OthersKept
<1>2. ASSUME NEW t \in Threads, EndPipeline(t) PROVE OthersKept'
  <2>1. snap' = [snap EXCEPT ![t] = None]
    BY <1>2 DEF EndPipeline
  <2>2. snap = [u \in Threads |-> snap[u]]
    BY DEF Basic
  <2>3. \A u \in Threads : snap'[u] # None => snap'[u] = snap[u]
    BY <2>1, <2>2
  <2> QED
    BY <2>3 DEF Others, OthersKept
<1>3. ASSUME NEW f \in Files,
             EndWrite(f) \/ Delete(f) \/ \E v \in Versions : BeginWrite(f, v) \/ MoveIn(f, v)
      PROVE snap' = snap
  BY <1>3 DEF EndWrite, Delete, BeginWrite, MoveIn, Change
<1>4. ASSUME UNCHANGED vars \/ Scan \/ StartHotReload \/ Watcher \/ Shutdown PROVE snap' = snap
  BY <1>4 DEF vars, Scan, StartHotReload, Watcher, TakeEvent, Unload, Load, Sort, Shutdown
<1>5. HadKept'
  BY StepHad DEF Others
<1>6. OthersKept'
  BY <1>1, <1>2, <1>3, <1>4, SnapshotOthers DEF Next, Others, OthersKept
<1> QED
  BY <1>5, <1>6 DEF Others

\* The copy a pipeline works on lacks no plugin but the one that is being reloaded, and that
\* only if the copy did not race with the sort; for any directory, slash or not
\* (unload_plugin, load_plugin, the pipelines).
THEOREM OnlyReloadedIsMissing == Spec => []OthersKept
<1>1. Init => Others
  BY DEF Init, Others, HadKept, OthersKept
<1>2. Basic /\ Others /\ [Next]_vars => Others'
  BY StepOthers
<1>3. Others => OthersKept
  BY DEF Others
<1> QED
  BY <1>1, <1>2, <1>3, AlwaysBasic, PTL DEF Spec

-----------------------------------------------------------------------------
(* The list and the directory.                                             *)

\* The list shows the file as it is.
Shown(f) ==
    disk[f] # Absent =>
        IF disk[f] \in Versions
        THEN \E p \in ToSet(plugins) : File(p) = f /\ p.version = disk[f]
        ELSE \A p \in ToSet(plugins) : File(p) # f

\* It does, or the file has an event queued or is about to be loaded.
Settled(f) ==
    \/ Shown(f)
    \/ f \in ToSet(events)
    \/ watch # None /\ watch.file = f /\ watch.step \in {"unload", "load"}

Settling ==
    /\ phase \in {"start", "loaded"} => writing = [f \in Files |-> None]
    /\ phase \in {"loaded", "watching"} => \A f \in Files : Settled(f)

\* Nothing changes a file before the watch is set up.
LEMMA EditSettling ==
    ASSUME ~EarlyEdits, Basic, Settling, NEW f \in Files,
           EndWrite(f) \/ Delete(f) \/ \E v \in Versions : BeginWrite(f, v) \/ MoveIn(f, v)
    PROVE  Settling'
<1>1. /\ plugins' = plugins /\ watch' = watch /\ phase' = phase
      /\ \A g \in Files \ {f} : disk'[g] = disk[g]
  BY DEF EndWrite, Delete, BeginWrite, MoveIn, Change, Basic
<1>2. phase \notin {"start", "loaded"}
  BY DEF EndWrite, Delete, BeginWrite, MoveIn, Change, Settling
<1>3. ASSUME phase = "watching" PROVE f \in ToSet(events') \/ disk'[f] = Absent
  <2>1. CASE Delete(f)
    BY <2>1 DEF Delete, Change, Basic
  <2>2. CASE ~Delete(f)
    <3>1. events' = Append(events, f)
      BY <1>3, <2>2 DEF EndWrite, BeginWrite, MoveIn, Noticed
    <3> QED
      BY <3>1, ToSetAppend DEF Basic
  <2> QED
    BY <2>1, <2>2
<1>4. ToSet(events) \subseteq ToSet(events')
  <2>1. events' = events \/ events' = Append(events, f)
    BY DEF EndWrite, Delete, BeginWrite, MoveIn, Change, Noticed
  <2>2. ToSet(Append(events, f)) = ToSet(events) \cup {f}
    BY ToSetAppend DEF Basic
  <2> QED
    BY <2>1, <2>2
<1>5. ASSUME phase = "watching", NEW g \in Files PROVE Settled(g)'
  <2>1. CASE g = f
    BY <1>3, <1>5, <2>1 DEF Settled, Shown
  <2>2. CASE g # f
    BY <1>1, <1>4, <1>5, <2>2 DEF Settling, Settled, Shown
  <2> QED
    BY <2>1, <2>2
<1> QED
  BY <1>1, <1>2, <1>5 DEF Settling, Basic

LEMMA ScanSettling ==
    ASSUME Basic, Settling, Scan
    PROVE  Settling'
<1>1. UNCHANGED <<disk, writing>> /\ phase = "start"
  BY DEF Scan, files
<1>2. ToSet(plugins') = Found
  BY ScanFacts
<1>3. ASSUME NEW f \in Files PROVE Shown(f)'
  <2>1. CASE disk[f] \in Versions
    <3>1. [path |-> Path(f, "scan"), version |-> disk[f]] \in Found
      BY <2>1 DEF Found
    <3> QED
      BY <1>1, <1>2, <2>1, <3>1, PathFacts DEF Shown, File
  <2>2. CASE disk[f] \notin Versions
    <3>1. \A p \in Found : File(p) # f
      BY <2>2, PathFacts DEF Found, File
    <3> QED
      BY <1>1, <1>2, <2>2, <3>1 DEF Shown
  <2> QED
    BY <2>1, <2>2
<1> QED
  BY <1>1, <1>3 DEF Settling, Settled

LEMMA TakeEventSettling ==
    ASSUME Basic, Settling, TakeEvent
    PROVE  Settling'
<1>1. /\ UNCHANGED <<disk, writing, plugins, phase>> /\ phase = "watching" /\ watch = None
      /\ watch'.step = "unload" /\ watch'.file = Head(events)
      /\ events # <<>> /\ events' = Tail(events)
  BY DEF TakeEvent, files
<1>2. watch' # None
  BY TakeEventBasic, MarkAssumption
<1>3. ToSet(events) = {Head(events)} \cup ToSet(events')
  BY <1>1, ToSetTail DEF Basic
<1>4. ASSUME NEW f \in Files PROVE Settled(f)'
  BY <1>1, <1>2, <1>3 DEF Settling, Settled, Shown
<1> QED
  BY <1>1, <1>4 DEF Settling

\* Taking a plugin off the list changes nothing for the other files.
LEMMA UnloadSettling ==
    ASSUME Basic, Settling, Unload
    PROVE  Settling'
<1>1. UNCHANGED <<disk, writing, events, phase>> /\ watch # None
  BY AtFacts DEF Unload, files
<1>2. /\ ToSet(plugins') = {p \in ToSet(plugins) : p.path # WatchPath}
      /\ watch' # None /\ watch'.step = "load" /\ watch'.file = watch.file
  BY UnloadFacts
<1>3. WatchPath[1] = watch.file
  BY AtFacts DEF Unload
<1>4. ASSUME NEW f \in Files, f # watch.file, Shown(f) PROVE Shown(f)'
  BY <1>1, <1>2, <1>3, <1>4 DEF Shown, File
<1>5. ASSUME NEW f \in Files, Settled(f) PROVE Settled(f)'
  <2>1. CASE f = watch.file
    BY <1>2, <2>1 DEF Settled
  <2>2. CASE f # watch.file
    BY <1>1, <1>4, <1>5, <2>2 DEF Settled
  <2> QED
    BY <2>1, <2>2
<1> QED
  BY <1>1, <1>5 DEF Settling

\* After load_plugin the list shows the file that was loaded.
LEMMA LoadSettling ==
    ASSUME ~SlashInDir, Basic, OnePath, Settling, Load
    PROVE  Settling'
<1>1. UNCHANGED <<disk, writing, events, phase>> /\ watch # None
  BY AtFacts DEF Load, files
<1>2. /\ ToSet(plugins') = ToSet(plugins) \cup (IF disk[watch.file] \in Versions THEN {Fresh} ELSE {})
      /\ \A p \in ToSet(plugins) : p.path # WatchPath
  BY LoadFacts
<1>3. WatchPath = <<watch.file, "scan">> /\ File(Fresh) = watch.file
  BY DEF WatchPath, Path, Fresh, File
<1>4. \A p \in ToSet(plugins) : File(p) # watch.file
  BY <1>2, <1>3, OnList DEF OnePath, File
<1>5. Shown(watch.file)'
  <2>1. CASE disk[watch.file] \in Versions
    <3>1. Fresh \in ToSet(plugins') /\ Fresh.version = disk[watch.file]
      BY <1>2, <2>1 DEF Fresh
    <3> QED
      BY <1>1, <1>3, <2>1, <3>1, LoadFacts DEF Shown
  <2>2. CASE disk[watch.file] \notin Versions
    BY <1>1, <1>2, <1>4, <2>2, LoadFacts DEF Shown
  <2> QED
    BY <2>1, <2>2
<1>6. ASSUME NEW f \in Files, f # watch.file, Shown(f) PROVE Shown(f)'
  BY <1>1, <1>2, <1>3, <1>6 DEF Shown
<1>7. ASSUME NEW f \in Files, Settled(f) PROVE Settled(f)'
  <2>1. CASE f = watch.file
    BY <1>5, <2>1, LoadFacts DEF Settled
  <2>2. CASE f # watch.file
    BY <1>1, <1>6, <1>7, <2>2 DEF Settled
  <2> QED
    BY <2>1, <2>2
<1> QED
  BY <1>1, <1>7 DEF Settling

LEMMA SortSettling ==
    ASSUME Basic, Settling, Sort
    PROVE  Settling'
<1>1. /\ UNCHANGED <<disk, writing, events, phase>>
      /\ watch # None /\ watch.step = "sort"
  BY AtFacts DEF Sort, files
<1>2. ToSet(plugins') = ToSet(plugins)
  BY SortFacts
<1>3. ASSUME NEW f \in Files, Settled(f) PROVE Settled(f)'
  BY <1>1, <1>2, <1>3 DEF Settled, Shown
<1> QED
  BY <1>1, <1>3 DEF Settling

LEMMA StepSettling ==
    ASSUME ~SlashInDir, ~EarlyEdits, Basic, OnePath, Settling, [Next]_vars
    PROVE  Settling'
<1>1. CASE UNCHANGED vars
  BY <1>1 DEF vars, files, Settling, Settled, Shown
<1>2. CASE StartHotReload
  BY <1>2 DEF StartHotReload, files, Settling, Settled, Shown
<1>3. CASE Shutdown
  BY <1>3 DEF Shutdown, Settling
<1>4. ASSUME NEW t \in Threads, Snapshot(t) \/ EndPipeline(t) PROVE Settling'
  BY <1>4 DEF Snapshot, EndPipeline, files, Settling, Settled, Shown
<1>5. ASSUME NEW f \in Files,
             EndWrite(f) \/ Delete(f) \/ \E v \in Versions : BeginWrite(f, v) \/ MoveIn(f, v)
      PROVE Settling'
  BY <1>5, EditSettling
<1> QED
  BY <1>1, <1>2, <1>3, <1>4, <1>5, ScanSettling, TakeEventSettling, UnloadSettling, LoadSettling,
     SortSettling DEF Next, Watcher

\* What is shown is on the list once, with its content.
LEMMA ShownIsCurrent ==
    ASSUME Basic, OnePath, NEW f \in Files, Shown(f)
    PROVE  Current(f)
<1> DEFINE on == {i \in DOMAIN plugins : File(plugins[i]) = f}
<1>1. /\ \A i \in DOMAIN plugins : plugins[i] \in ToSet(plugins)
      /\ \A p \in ToSet(plugins) : \E i \in DOMAIN plugins : plugins[i] = p
  BY DEF ToSet
<1>2. \A i, j \in on : i = j
  BY <1>1, FileOnce DEF Basic, ListOnce, IsInjective
<1>3. CASE disk[f] \in Versions
  <2>1. disk[f] # Absent
    BY <1>3, MarkAssumption
  <2>2. PICK i \in on : plugins[i].version = disk[f]
    BY <1>1, <1>3, <2>1 DEF Shown
  <2>3. on = {i}
    BY <1>2, <2>2
  <2> QED
    BY <1>3, <2>2, <2>3 DEF Current
<1>4. CASE disk[f] \notin Versions
  BY <1>1, <1>4 DEF Shown, Current
<1> QED
  BY <1>3, <1>4

\* When all events have been handled, the list shows each file that is there as it is, however
\* often and whenever files change: no event is lost to a file that was read half written or that changed again
\* during its own reload.  The directory is configured without a slash at its end and not
\* edited between the scan and the start of the watch (hot_reload_loop, reload_plugin).
THEOREM ListConverges == ASSUME ~SlashInDir, ~EarlyEdits PROVE Spec => []Converges
<1>1. Init => Settling
  BY DEF Init, Settling
<1>2. Basic /\ OnePath /\ Settling /\ [Next]_vars => Settling'
  BY StepSettling
<1>3. ASSUME Basic, OnePath, Settling PROVE Converges
  <2>1. ASSUME phase = "watching", watch = None, events = <<>>, NEW f \in Files PROVE Current(f)
    <3>1. f \notin ToSet(events)
      BY <2>1 DEF ToSet
    <3>2. Shown(f)
      BY <1>3, <2>1, <3>1 DEF Settling, Settled
    <3> QED
      BY <1>3, <3>2, ShownIsCurrent
  <2> QED
    BY <2>1 DEF Converges
<1> QED
  BY <1>1, <1>2, <1>3, AlwaysBasic, AlwaysOnePath, PTL DEF Spec
=============================================================================
