------------------------------ MODULE Plugins ------------------------------
(***************************************************************************)
(* The list of plugins and its hot reload (src/plugin_manager.cpp).  init  *)
(* scans the directory; a thread then reads inotify events and reloads the *)
(* file each is about: it takes the plugin off the list, loads the file    *)
(* and sorts the list.  Only the first of the three holds plugins_mu_.     *)
(* Threads that handle requests copy the list under that lock before they  *)
(* run its hooks.  The directory is edited from outside.                   *)
(***************************************************************************)
EXTENDS Integers, Sequences, FiniteSets, SequencesExt, Filter

CONSTANTS
    Files,          \* names of .lua files in plugins_dir
    Versions,       \* scripts that load
    Priority,       \* Priority[v]: the priority a script sets
    Threads,        \* threads that handle requests
    SlashInDir,     \* does plugins_dir end in a slash?
    EarlyEdits,     \* may files change before the watch is set up?
    MaxEdits,       \* bound: changes of files
    Broken,         \* content that is empty, half written or has an error
    Absent,         \* no file
    None

\* A reload: its next step, its file, and the files of the plugins listed when it began.
Reloads == [step : {"unload", "load", "sort"}, file : Files, had : SUBSET Files]

ASSUME PriorityAssumption == Priority \in [Versions -> Int]
ASSUME FilesAssumption    == IsFiniteSet(Files)
ASSUME FlagAssumption     == {SlashInDir, EarlyEdits} \subseteq BOOLEAN /\ MaxEdits \in Nat
ASSUME MarkAssumption     == /\ Broken \notin Versions /\ Absent \notin Versions \cup {Broken}
                             /\ None \notin Versions \cup Reloads

VARIABLES
    disk,           \* disk[f]: the content of a file
    writing,        \* writing[f]: what a file is being overwritten with, or None
    plugins,        \* plugins_: path and script
    events,         \* the inotify queue: files something happened to
    watch,          \* where the thread of hot_reload_loop is, or None
    phase,          \* of the PluginManager
    edits,          \* changes of files so far (bound)
    snap            \* snap[t]: the list the pipeline of a thread works on, or None

files == <<disk, writing, edits>>
vars  == <<files, plugins, events, watch, phase, snap>>

-----------------------------------------------------------------------------
(* The directory, changed from outside.                                    *)

\* An event is queued once the watch is set up.
Noticed(f) == events' = IF phase = "watching" THEN Append(events, f) ELSE events

Change(f, content) ==
    /\ edits < MaxEdits /\ writing[f] = None
    /\ phase \in {"loaded", "watching"} /\ (phase = "watching" \/ EarlyEdits)
    /\ edits' = edits + 1
    /\ disk' = [disk EXCEPT ![f] = content]
    /\ UNCHANGED <<plugins, watch, phase, snap>>

\* IN_CREATE or IN_MODIFY: a file is opened for writing in place.
BeginWrite(f, v) ==
    /\ Change(f, Broken) /\ Noticed(f)
    /\ writing' = [writing EXCEPT ![f] = v]

\* Mutant: IN_CLOSE_WRITE is not watched.
EndWriteUnnoticed(f) ==
    /\ writing[f] # None
    /\ disk' = [disk EXCEPT ![f] = writing[f]]
    /\ writing' = [writing EXCEPT ![f] = None]
    /\ UNCHANGED <<edits, plugins, events, watch, phase, snap>>

\* IN_CLOSE_WRITE
EndWrite(f) ==
    /\ writing[f] # None
    /\ disk' = [disk EXCEPT ![f] = writing[f]]
    /\ writing' = [writing EXCEPT ![f] = None]
    /\ Noticed(f)
    /\ UNCHANGED <<edits, plugins, watch, phase, snap>>

\* IN_MOVED_TO
MoveIn(f, v) == Change(f, v) /\ Noticed(f) /\ UNCHANGED writing

\* No event is watched for a file that goes away.
Delete(f) == disk[f] # Absent /\ Change(f, Absent) /\ UNCHANGED <<writing, events>>

-----------------------------------------------------------------------------
\* The scan spells a path the way directory_iterator does, the watcher puts a slash in.
Path(f, by) == IF SlashInDir THEN <<f, by>> ELSE <<f, "scan">>
File(p) == p.path[1]

Ordered(list) ==
    \A i, j \in DOMAIN list : i < j => Priority[list[i].version] >= Priority[list[j].version]

\* Mutant: the lowest priority first.
SortedAscending(list) ==
    {s \in [DOMAIN list -> ToSet(list)] : ToSet(s) = ToSet(list) /\ Ordered(Reverse(s))}

\* What std::sort may make of a list: plugins of the same priority stand in any order.
Sorted(list) == {s \in [DOMAIN list -> ToSet(list)] : ToSet(s) = ToSet(list) /\ Ordered(s)}

\* init: scan_and_load
Scan ==
    /\ phase = "start"
    /\ phase' = "loaded"
    /\ LET found == {f \in Files : disk[f] \in Versions}
       IN  plugins' \in Sorted(SetToSeq({[path |-> Path(f, "scan"), version |-> disk[f]] : f \in found}))
    /\ UNCHANGED <<files, events, watch, snap>>

\* start_hot_reload, which leaves the list as it is if inotify fails
StartHotReload ==
    /\ phase = "loaded"
    /\ phase' \in {"watching", "unwatched"}
    /\ UNCHANGED <<files, plugins, events, watch, snap>>

Loaded == {File(p) : p \in ToSet(plugins)}

\* hot_reload_loop takes the next event ...
TakeEvent ==
    /\ phase = "watching" /\ watch = None /\ events # <<>>
    /\ watch' = [step |-> "unload", file |-> Head(events), had |-> Loaded]
    /\ events' = Tail(events)
    /\ UNCHANGED <<files, plugins, phase, snap>>

At(step) == watch # None /\ watch.step = step
Then(step) == watch' = [watch EXCEPT !.step = step]

\* Mutant: the whole list goes.
UnloadAll ==
    /\ At("unload")
    /\ plugins' = <<>>
    /\ Then("load")
    /\ UNCHANGED <<files, events, phase, snap>>

\* Mutant: only the plugin of a file that is gone is taken off the list.
UnloadIfGone ==
    /\ At("unload")
    /\ plugins' = Keep(plugins, {p \in ToSet(plugins) : disk[File(p)] # Absent})
    /\ Then("load")
    /\ UNCHANGED <<files, events, phase, snap>>

\* ... reload_plugin: unload_plugin, with the lock ...
Unload ==
    /\ At("unload")
    /\ plugins' = Keep(plugins, {p \in ToSet(plugins) : p.path # Path(watch.file, "watch")})
    /\ Then("load")
    /\ UNCHANGED <<files, events, phase, snap>>

\* ... load_plugin, without: a file that cannot be read or run is not put back ...
Load ==
    /\ At("load")
    /\ plugins' = IF disk[watch.file] \in Versions
                  THEN Append(plugins, [path |-> Path(watch.file, "watch"),
                                        version |-> disk[watch.file]])
                  ELSE plugins
    /\ Then("sort")
    /\ UNCHANGED <<files, events, phase, snap>>

\* ... and sort_plugins, without.
Sort ==
    /\ At("sort")
    /\ plugins' \in Sorted(plugins)
    /\ watch' = None
    /\ UNCHANGED <<files, events, phase, snap>>

\* A pipeline copies the list.  If that overlaps with the sort, a data race, it may find
\* elements twice and others not at all.  (A copy that overlaps with the reallocation in
\* push_back may also end the process.)
Snapshot(t) ==
    /\ phase \notin {"start", "stopped"} /\ snap[t] = None
    /\ \E list \in {plugins} \cup IF At("sort") THEN [DOMAIN plugins -> ToSet(plugins)] ELSE {} :
        snap' = [snap EXCEPT ![t] =
            [list |-> list,
             raced |-> list # plugins,
             reloaded |-> IF watch = None THEN None ELSE watch.file,
             due |-> IF watch = None THEN Loaded
                     ELSE {f \in watch.had : f = watch.file => disk[f] \in Versions}]]
    /\ UNCHANGED <<files, plugins, events, watch, phase>>

EndPipeline(t) ==
    /\ snap[t] # None
    /\ snap' = [snap EXCEPT ![t] = None]
    /\ UNCHANGED <<files, plugins, events, watch, phase>>

\* shutdown, after the last request: stop_hot_reload joins the thread, the list is cleared.
Shutdown ==
    /\ phase \in {"watching", "unwatched"} /\ watch = None
    /\ \A t \in Threads : snap[t] = None
    /\ phase' = "stopped" /\ plugins' = <<>>
    /\ UNCHANGED <<files, events, watch, snap>>

-----------------------------------------------------------------------------
Init ==
    /\ disk \in [Files -> Versions \cup {Broken, Absent}]
    /\ writing = [f \in Files |-> None]
    /\ plugins = <<>> /\ events = <<>> /\ watch = None /\ phase = "start" /\ edits = 0
    /\ snap = [t \in Threads |-> None]

Watcher == TakeEvent \/ Unload \/ Load \/ Sort

Next ==
    \/ \E f \in Files : \/ EndWrite(f) \/ Delete(f)
                        \/ \E v \in Versions : BeginWrite(f, v) \/ MoveIn(f, v)
    \/ Scan \/ StartHotReload \/ Watcher \/ Shutdown
    \/ \E t \in Threads : Snapshot(t) \/ EndPipeline(t)

Spec == Init /\ [][Next]_vars

\* The thread of hot_reload_loop goes on until it is stopped.
FairSpec == Spec /\ WF_vars(Watcher)

-----------------------------------------------------------------------------
(* Properties.                                                             *)

Runtime == [path : Files \X {"scan", "watch"}, version : Versions]

\* Every variable stays in its domain, and no file is on the list twice.
TypeOK ==
    /\ disk \in [Files -> Versions \cup {Broken, Absent}]
    /\ writing \in [Files -> Versions \cup {None}]
    /\ plugins \in Seq(Runtime)
    /\ \A i, j \in DOMAIN plugins : File(plugins[i]) = File(plugins[j]) => i = j
    /\ events \in Seq(Files)
    /\ watch \in Reloads \cup {None}
    /\ phase \in {"start", "loaded", "watching", "unwatched", "stopped"}

\* A file that is there is on the list with its content, once if that loads and not at all
\* if it does not.
Current(f) ==
    disk[f] # Absent =>
        LET on == {i \in DOMAIN plugins : File(plugins[i]) = f}
        IN  IF disk[f] \in Versions THEN \E i \in on : on = {i} /\ plugins[i].version = disk[f]
            ELSE on = {}

\* When all events have been handled, the list shows the directory: no event was lost to a
\* file that was read half written or changed again during its reload
\* (hot_reload_loop, reload_plugin).
Converges ==
    phase = "watching" /\ watch = None /\ events = <<>> => \A f \in Files : Current(f)

\* Between reloads the plugins stand in the order of their priority (sort_plugins).
PriorityOrder == watch = None => Ordered(plugins)

\* The watcher catches up: from some time on the list shows the directory, until the
\* PluginManager is shut down (hot_reload_loop).
HotReload ==
    (phase = "watching") ~> \/ phase = "stopped"
                            \/ events = <<>> /\ watch = None /\ \A f \in Files : Current(f)

\* The copy a pipeline works on lacks no plugin but the one that is being reloaded, and
\* that only if the copy did not race with the sort (unload_plugin, the pipelines).
OthersKept ==
    \A t \in Threads :
        snap[t] # None /\ ~snap[t].raced =>
            \A f \in snap[t].due : \/ f = snap[t].reloaded
                                   \/ \E p \in ToSet(snap[t].list) : File(p) = f

-----------------------------------------------------------------------------
(* What the documentation promises and the code does not keep.             *)

\* plugin_manager.h:74 says that all plugins run: a pipeline runs every plugin that was
\* loaded before and still loads.
RunsAll ==
    \A t \in Threads : snap[t] # None =>
        \A f \in snap[t].due : \E p \in ToSet(snap[t].list) : File(p) = f

\* The same line says "by priority": a pipeline runs the plugins in the order of theirs.
RunsByPriority == \A t \in Threads : snap[t] # None => Ordered(snap[t].list)
=============================================================================
