---------------------------- MODULE LuaPipeline ----------------------------
(***************************************************************************)
(* The pipelines that run the plugins' hooks (src/plugin_manager.cpp) in a *)
(* Lua VM of the thread's pool (src/lua_vm_pool.cpp, src/lua_sandbox.cpp). *)
(* Each thread has a pool of its own and runs one pipeline at a time: what *)
(* follows is one thread with its pool.                                    *)
(*                                                                         *)
(* A VM outlives the pipelines it is borrowed for.  Its instruction hook   *)
(* fires at every max_instruction-th instruction it executes, whoever's it *)
(* is, and stops the script that runs then; globals() and table::create of *)
(* third_party/sol/sol.hpp leave values on its stack.                      *)
(***************************************************************************)
EXTENDS Integers, FiniteSets, SequencesExt, Filter

CONSTANTS           \* what is assumed of them: see Standalone
    Plugins,        \* the snapshot of the list: name and hooks of each plugin
    PoolSize,       \* pool_size_
    Limit,          \* max_instruction
    Costs,          \* instructions a script with its hook may take, below Limit
    StackSize,      \* what the stack of a VM can hold
    MaxRuns,        \* bound: pipelines
    None

Hooks == {"on_request", "on_token", "on_done"}
VMs == 1..PoolSize
Names == {Plugins[i].name : i \in DOMAIN Plugins}

VARIABLES
    available,      \* available_
    vm,             \* the VM that is borrowed, or None
    executed,       \* executed[v]: instructions since the hook of v fired last
    stack,          \* stack[v]: values left on the stack of v
    globals,        \* globals[v]: what scripts have defined or changed in v and is still there
    pipe,           \* the pipeline that runs, or the result of the last one
    runs,           \* pipelines so far (bound)
    \* history variables, read by no action's guard
    ran,            \* what each hook of the pipeline did
    alien           \* the kinds of globals of another pipeline that a script has found

vms  == <<executed, stack, globals>>
vars == <<available, vm, vms, pipe, runs, ran, alien>>

-----------------------------------------------------------------------------
\* Something that a script of a pipeline did among the globals: "kept" if it is where reset does
\* not clean up, at one of the whitelisted names (print = f, gateway.x = 1, string.y = 2).
Globals == [run : 1..MaxRuns, kept : BOOLEAN]

Due(hook) == Keep(Plugins, {p \in ToSet(Plugins) : hook \in p.hooks})

\* Mutant: globals survive.
ResetNothing(v) == globals[v]

\* LuaSandbox::reset removes the names that are not on its whitelist, and leaves those that
\* are, and the tables among them, as scripts left them.
Reset(v) == {g \in globals[v] : g.kept}

\* The pipelines copy the list, and borrow_vm takes a VM from the pool.
Begin(hook) ==
    /\ vm = None /\ runs < MaxRuns
    /\ runs' = runs + 1
    /\ vm' = Head(available) /\ available' = Tail(available)
    /\ globals' = [globals EXCEPT ![vm'] = Reset(vm')]
    /\ stack' = [stack EXCEPT ![vm'] = @ + 1]
    /\ pipe' = [hook |-> hook, next |-> 1, done |-> Due(hook) = <<>>,
                passed |-> TRUE, answer |-> None, data |-> <<>>]
    /\ ran' = <<>>
    /\ UNCHANGED <<executed, alien>>

Running(hook) == vm # None /\ ~pipe.done /\ pipe.hook = hook
Current == Due(pipe.hook)[pipe.next]

\* The hook fires in the middle, or there is no room on the stack.
Stopped(c) == executed[vm] + c >= Limit \/ stack[vm] >= StackSize

\* safe_script of the plugin's script and the call of its hook, together c instructions, with
\* values left on the stack; new is what comes of it.  The hook is a global of the script, and
\* the script may change what a whitelisted name stands for.
Run(c, result, left, new) ==
    /\ c \in Costs /\ (Stopped(c) => result = "fail")
    /\ executed' = [executed EXCEPT ![vm] = IF @ + c >= Limit THEN 0 ELSE @ + c]
    /\ stack' = [stack EXCEPT ![vm] = @ + left]
    /\ \E edits \in BOOLEAN :
        globals' = [globals EXCEPT ![vm] = @ \cup [run : {runs}, kept : {FALSE, edits}]]
    /\ alien' = alien \cup {g.kept : g \in {h \in globals[vm] : h.run # runs}}
    /\ ran' = Append(ran, [name |-> Current.name, result |-> result, stopped |-> Stopped(c),
                           changed |-> new.data # pipe.data, answered |-> new.answer = Current.name])
    /\ pipe' = [new EXCEPT !.next = @ + 1, !.done = @ \/ pipe.next = Len(Due(pipe.hook))]
    /\ UNCHANGED <<available, vm, runs>>

\* Mutant: the context is taken back before it is known whether the hook failed.
SyncedAnyway(result, changed) == IF changed THEN Append(pipe.data, Current.name) ELSE pipe.data

\* The changes to the context, which count if the hook returns
Synced(result, changed) ==
    IF changed /\ result # "fail" THEN Append(pipe.data, Current.name) ELSE pipe.data

\* Mutant: the plugins after one that aborts are run as well.
EndsNever(result) == FALSE

\* ABORT_EARLY is the only result that ends the pipeline.
Ends(result) == result = "abort"

\* run_request_pipeline, one plugin; set_response takes effect whatever comes after it.
RequestHook(c, result, changed, answered) ==
    /\ Running("on_request")
    /\ \E left \in {2} \cup (IF result = "fail" THEN {1} ELSE {}) :
        Run(c, result, left,
            [pipe EXCEPT !.data = Synced(result, changed),
                         !.answer = IF answered THEN Current.name ELSE @,
                         !.passed = @ /\ ~answered /\ result # "abort",
                         !.done = Ends(result)])

\* run_token_pipeline, one plugin: a string replaces the token, nil suppresses it, and
\* whatever else the hook returns is left where it is.
TokenHook(c, result) ==
    /\ Running("on_token")
    /\ \/ result = "fail" /\ Run(c, result, 1, pipe)
       \/ result = "text" /\ Run(c, result, 1, [pipe EXCEPT !.data = Synced(result, TRUE)])
       \/ result = "nil" /\ Run(c, result, 2, [pipe EXCEPT !.passed = FALSE, !.done = TRUE])
       \/ result = "other" /\ Run(c, result, 2, pipe)

\* run_done_pipeline, one plugin
DoneHook(c, result) ==
    /\ Running("on_done")
    /\ \/ result = "fail" /\ Run(c, result, 1, pipe)
       \/ result = "other" /\ Run(c, result, 2, pipe)

\* Mutant: the VMRent that was moved from gives the VM back as well.
FinishTwice ==
    /\ vm # None /\ pipe.done
    /\ vm' = None /\ available' = available \o <<vm, vm>>
    /\ UNCHANGED <<vms, pipe, runs, ran, alien>>

\* The pipeline returns and the VM goes back to the pool.
Finish ==
    /\ vm # None /\ pipe.done
    /\ vm' = None /\ available' = Append(available, vm)
    /\ UNCHANGED <<vms, pipe, runs, ran, alien>>

-----------------------------------------------------------------------------
Init ==
    /\ available = [i \in VMs |-> i] /\ vm = None
    /\ executed = [v \in VMs |-> 0] /\ stack = [v \in VMs |-> 0] /\ globals = [v \in VMs |-> {}]
    /\ pipe = None /\ runs = 0 /\ ran = <<>> /\ alien = {}

Next ==
    \/ \E hook \in Hooks : Begin(hook)
    \/ \E c \in Costs :
        \/ \E result \in {"continue", "abort", "fail"}, changed, answered \in BOOLEAN :
            RequestHook(c, result, changed, answered)
        \/ \E result \in {"text", "nil", "other", "fail"} : TokenHook(c, result) \/ DoneHook(c, result)
    \/ Finish

Spec == Init /\ [][Next]_vars

-----------------------------------------------------------------------------
(* Properties.                                                             *)

\* Every variable stays in its domain, and every VM is either in the pool, once, or
\* borrowed.
TypeOK ==
    /\ IsInjective(available) /\ ToSet(available) \subseteq VMs
    /\ vm \in VMs \cup {None} /\ ToSet(available) = VMs \ {vm}
    /\ executed \in [VMs -> 0..(Limit - 1)] /\ stack \in [VMs -> Nat]
    /\ globals \in [VMs -> SUBSET Globals] /\ alien \subseteq BOOLEAN
    /\ vm # None => /\ pipe.passed \in BOOLEAN /\ pipe.done \in BOOLEAN
                    /\ pipe.answer \in Names \cup {None} /\ pipe.data \in Seq(Names)

\* What a pipeline hands on, the request or the token, is what the hooks that returned made
\* of it, in their order, and nothing of a hook that failed (run_request_pipeline,
\* run_token_pipeline).
ChainOfHooks ==
    pipe # None =>
        LET made == Keep(ran, {r \in ToSet(ran) : r.changed /\ r.result # "fail"})
        IN  pipe.data = [i \in DOMAIN made |-> made[i].name]

\* A request that some plugin aborts is rejected, no plugin sees it after that, and a request
\* that is rejected was aborted or answered by a plugin; the answer is the last one set
\* (run_request_pipeline, set_response).
Verdict ==
    pipe # None /\ pipe.hook = "on_request" =>
        /\ \A i \in DOMAIN ran : ran[i].result = "abort" => (i = Len(ran) /\ ~pipe.passed)
        /\ ~pipe.passed => (\E i \in DOMAIN ran : ran[i].result = "abort" \/ ran[i].answered)
        /\ \A i \in DOMAIN ran :
            ran[i].answered /\ (\A j \in (i + 1)..Len(ran) : ~ran[j].answered)
                => (pipe.answer = ran[i].name)

\* A script never finds a global that another pipeline defined in its VM, unless under a name of
\* the whitelist (LuaVMPool::borrow, LuaSandbox::reset).
NoAlienGlobals == FALSE \notin alien

-----------------------------------------------------------------------------
(* What the documentation promises and the code does not keep.             *)

\* lua_sandbox.h:53 says that reset brings the VM to a clean state, clears the globals and keeps
\* sandbox and API: a script finds nothing that another pipeline did among them.
ResetCleans == alien = {}

\* plugin_manager.h:77 says that the request passes if all plugins return CONTINUE or MODIFY.
ContinuePasses ==
    pipe # None /\ pipe.done /\ pipe.hook = "on_request" =>
        ((\A i \in DOMAIN ran : ran[i].result = "continue") => pipe.passed)

\* lua_sandbox.h:19 says that the limit stops scripts that run away: one that takes less is not stopped.
LimitIsForOne == \A i \in DOMAIN ran : ~ran[i].stopped
=============================================================================
