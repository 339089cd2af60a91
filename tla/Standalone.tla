----------------------------- MODULE Standalone -----------------------------
(***************************************************************************)
(* The parts that call no other and share nothing, side by side: the       *)
(* AuthManager, the Router, the Logger, the CacheStore of the plugins and  *)
(* the pipelines of one thread in its Lua VMs.  Each keeps its own         *)
(* constants, variables and actions; here are the assumptions on their     *)
(* constants and the names of their properties.                            *)
(***************************************************************************)
EXTENDS Auth, Sequences, FiniteSets

CONSTANTS
    Models, Star, Local, Configs, Fallback, MaxPicks, MaxMarks,     \* of Router
    Threads, BufSize, MaxLines, Empty, Garbled,             \* of Logger
    StoreKeys, MaxSize, TTLs, LastTime, Nothing,            \* of CacheStore
    Plugins, PoolSize, Limit, Costs, StackSize, MaxRuns,    \* of LuaPipeline
    None

VARIABLES
    config, serving, nodes, cw, picks, marks, taken, waited, failed, last,
    ring, writePos, readPos, count, writing, running, flusher, joined, file, calm, owed,
    lru, time, recent, written,
    available, vm, executed, stack, globals, pipe, runs, ran, alien

Rt    == INSTANCE Router
Log   == INSTANCE Logger WITH buf <- ring
Store == INSTANCE CacheStore
Lua   == INSTANCE LuaPipeline

-----------------------------------------------------------------------------
\* Backends have a group, a name and a weight, which is no negative number, and the model
\* main() asks for is one.
ASSUME RouterAssumption ==
    /\ Configs \subseteq Seq([group : Rt!Groups, name : Rt!Names, weight : Nat])
    /\ Fallback \in [group : Rt!Groups, name : Rt!Names, weight : Nat]
    /\ Local \in Models /\ MaxPicks \in Nat /\ MaxMarks \in Nat

\* kBufSize is 4096, finitely many threads log, and neither the empty string nor a spoiled
\* one is the text of a line.
ASSUME LoggerAssumption ==
    /\ IsFiniteSet(Threads) /\ BufSize \in Nat \ {0} /\ MaxLines \in Nat
    /\ {Empty, Garbled} \cap Int = {} /\ Empty # Garbled
    /\ Empty \notin [line : 0..(MaxLines - 1), step : {"begin", "end", "raise"}]

\* max_size_ is 10000, ttl_seconds an int.
ASSUME StoreAssumption == MaxSize \in Nat \ {0} /\ TTLs \subseteq Int

\* The whole list of plugins has names and hooks, and no script reaches the limit by itself.
ASSUME PipelineAssumption ==
    /\ Plugins \in Seq([name : Lua!Names, hooks : SUBSET Lua!Hooks])
    /\ None \notin Lua!Names \cup Nat
    /\ PoolSize \in Nat \ {0} /\ StackSize \in Nat /\ MaxRuns \in Nat
    /\ Limit \in Nat \ {0} /\ Costs \subseteq 0..(Limit - 1)

-----------------------------------------------------------------------------
\* Current weights sum to zero and stay within bounds (LoadBalancer::pick).
WeightsBounded == Rt!TypeOK

\* Each node is picked in proportion to its weight (LoadBalancer::pick).
WeightedShare == Rt!WeightedShare

\* No node is passed over for long (LoadBalancer::pick).
NoStarvation == Rt!NoStarvation

\* Every variable of the logger and of the pipelines stays in its domain; what that says of
\* count_ and of the pool is at their TypeOK (Logger, LuaPipeline).
TypesOK == Log!TypeOK /\ Lua!TypeOK

\* The file has every line once, whole and in order (Logger::log, flush_all, shutdown).
LoggedInOrder == Log!LoggedInOrder

\* The store holds the keys used last (CacheStore::get, CacheStore::set).
RecentAreKept == Store!RecentAreKept

\* What a pipeline hands on is what the hooks that returned made of it (run_request_pipeline,
\* run_token_pipeline).
ChainOfHooks == Lua!ChainOfHooks

\* Who aborts or answers a request has it rejected, and nobody else (run_request_pipeline).
Verdict == Lua!Verdict

\* No script finds a global that another pipeline defined, except under the whitelisted names
\* (LuaVMPool::borrow, LuaSandbox::reset).
NoAlienGlobals == Lua!NoAlienGlobals

\* lua_sandbox.h:53: a VM that was reset is clean.
ResetCleans == Lua!ResetCleans
=============================================================================
