# LLM Gateway in TLA+

Specifications of the C++ LLM gateway in `src/day01/llm_gateway`, with the TLC
instances that check them and the theorems that TLAPS proves about them. Paths
below are relative to `src/day01/llm_gateway` unless they begin with `src/README.md`.

## The system

Clients speak WebSocket (`/ws/chat`) or HTTP (`/v1/chat/completions`) to the gateway.
A chat is authenticated, routed to a backend, run through the plugins' hooks and sent
upstream with libcurl; the backend's SSE stream comes back token by token. Other
connections register as executors of tools or as agents, and the gateway carries calls
and results between them and caches results. Drogon runs several event loops; each
connection belongs to one of them. One more thread does all upstream I/O, one reloads
plugins, one flushes the log. Components are singletons with a
mutex each, and there are no transactions across them: this is where most of the hard
behaviour comes from.

| component | code | state | operations | what makes it correct |
|---|---|---|---|---|
| L2PersistentCache | `src/agent_cache.cpp` 187-450 | `entries_`, `dep_rev_`, two files | get, set, remove, soft/hard invalidate with cascade, decay, purge, load, save, shutdown | index = inverse of `depends_on`; files = memory when the lock is free; invalidated stays a miss; a cascade reaches all dependents |
| L1CacheStore, CacheCoordinator, SessionBuffer | `src/agent_cache.cpp` | LRU list, turns per session | query, write, invalidate, archive_session | the layers agree; an invalidated key is not served |
| L3ArchiveStore | `src/agent_cache.cpp` | files by hash | put, get, audit | an archive exists before an entry refers to it |
| RemoteUpstream, SSEParser | `src/remote_upstream.cpp` | submit queue, transfers, parser | submit, add_transfer, feed, reap_finished | the callbacks of a request come in order, and one of them ends it |
| WsChatController | `src/ws_chat_controller.cpp` | `active_requests`, pending maps, sessions, pool | chat, cancel, register, tool_call/result, agent_call/result, close | answers in order, once, to whoever asked; nothing left of who is gone |
| AgentRegistry | `src/agent_cache.cpp` 718-809 | records, capability index | register, unregister, route | the index is exact |
| ToolRegistry | `include/common.h` | entries by source | add, remove_source, tools_json | offers what executors have |
| AuthManager, TokenBucket | `include/auth.h` | keys, buckets | add_key, verify | the rate limit, in every window |
| Router, LoadBalancer | `include/router.h` | nodes and current weights by group | register_node, route, mark_* | shares by weight, no starvation, current weights within bounds |
| PluginManager | `src/plugin_manager.cpp` | the list of plugins, inotify | init, hot reload, pipelines | the list follows the directory; pipelines see every plugin |
| LuaVMPool, LuaSandbox | `src/lua_*.cpp` | VMs, their globals, stacks and instruction counts | borrow, return, reset | pipelines do not see one another; limits are per script |
| Metrics | `include/metrics.h` | counters | inc, dec | the gauge returns to zero |
| Logger | `include/logger.h` | a ring without locks | log, flush | lines written once, in order |
| CacheStore | `include/common.h` | LRU list with expiry | get, set | bound and expiry |
| HTTP handlers, main | `src/main.cpp` | a response stream per request | handle_chat, start, shutdown | answers like the WebSocket's; order of start and shutdown |

How they interact: the controller *calls* Auth, Router, the pipelines and the upstream
in `process_chat`; the upstream *calls back* on its I/O thread, and those callbacks
*queue* functors into the connection's event loop; controller, registry and cache
*share* connections and session ids by name only; plugins reach requests through a
*copy* of the list; cache and plugins communicate with later runs of the process, and
with editors, through *files*. The hard behaviours are interleavings between the loops,
the I/O thread and the watcher (between any two critical sections), crashes during the
truncating rewrite of the cache files, repeated and late results, and state that is kept
under a name two parties can share (`call_id`, `request_id`, backend names, paths).

## Modules

Every module states in its head what one step stands for. Critical sections are single
actions; a handler that takes several locks is a program counter (`at`, `call`, `io`,
`watch`, `saving`) with one action per section, so that other threads run in between.
Names of operations are the code's. Variables listed as *history variables* are read by
no guard and exist for properties only. Definitions whose comment begins with "Mutant"
are wrong on purpose: each is a plausible bug, used in place of the definition below it
to see that a property notices.

| module | models | state ↔ code |
|---|---|---|
| `L2Cache` | L2PersistentCache with its files, crashes and restarts | `entries` ↔ `entries_`, `depRev` ↔ `dep_rev_`, `dataFile`/`revFile` ↔ the two files, `saving` ↔ what the holder of `mu_` has yet to write, `phase` ↔ the process up to the static destructor |
| `CacheCoordinator` | query, write, invalidate, session buffers over L1, L2, L3, lock by lock | `lru` ↔ L1's list, `l2` ↔ L2's entries, `archived` ↔ L3, `turns` ↔ `sessions_`, `call[t]` ↔ where thread t is |
| `ChatStream` | chat requests through process_chat or handle_chat, the I/O thread, callbacks, loop queues, cancel, close, metrics | `active` ↔ `active_requests`, `pending`/`local`/`transfers` ↔ the upstream's queue and transfers, `io` ↔ the callback in progress, `queue[c]` ↔ the loop's functors, `out[c]` ↔ what the client got |
| `Reply` | what a client is promised, without threads, queues or callbacks; `ChatStream` implements it | `answer` ↔ what server and plugins make the answer to be, `heard` ↔ what the client has of it, `stopped` ↔ cancelled or gone |
| `SseParser` | SSEParser: lines out of chunks, tool calls out of parts | `buf` ↔ `buf_`, `tc` ↔ `tc_id_`, `tc_name_`, `tc_args_`, `calls` ↔ the callbacks |
| `AgentRouting` | registry, agent_call, agent_result, close | `agents`, `index` ↔ AgentRegistry, `pending` ↔ `pending_agents_`, `sessions` ↔ the session map, `buffers` ↔ the coordinator's `sessions_` |
| `ToolRouting` | register, tool_call, tool_result, close; ToolRegistry | `executors`, `rr` ↔ the pool and `exec_rr_idx_`, `pending` ↔ `pending_tools_`, `entries` ↔ ToolRegistry |
| `Auth` | AuthManager and TokenBucket; time in ticks, tokens in fractions of a tick's gain, so that the code's doubles are exact | `keys` ↔ `keys_`, `buckets` ↔ `buckets_` |
| `Router` | registration from the configuration and by main, route, pick, marks | `nodes` ↔ the groups, `cw` ↔ `cw_` |
| `Logger` | log, flush_loop, flush_all and shutdown over the ring that no lock protects | `buf`, `writePos`, `readPos`, `count` ↔ the members of that name, `writing` ↔ the threads in log(), `flusher` ↔ where the flushing thread is |
| `CacheStore` | the LRU store meant for the plugins' cache_get and cache_set, as a class: the built program binds `cache_set` to nothing (below) | `lru` ↔ `lru_`, with `map_` as its set of keys |
| `Plugins` | scan, inotify events, reload in its steps, snapshots, the unlocked sort | `plugins` ↔ `plugins_`, `events` ↔ the inotify queue, `watch` ↔ the watcher's place |
| `LuaPipeline` | the three pipelines of a thread in its pool of VMs | `available`, `vm` ↔ the pool, `executed`, `stack`, `globals` ↔ what a VM carries from one use to the next; of what scripts do to the globals only the pipeline that did it is kept, and whether the name is on the whitelist of reset |

`Standalone` puts five parts that call no other (`Auth`, `Router`, `Logger`, `CacheStore`,
`LuaPipeline`) side by side, with the assumptions on their constants and the names of their
properties, for one proof module to be about all of them. `MC…` modules give the constants finite
values; `MCStandalone` adds one more part of this kind, `SseParser`.

| module of theorems | about |
|---|---|
| `L2CacheProofs` | `L2Cache` |
| `CacheCoordinatorProofs` | `CacheCoordinator` |
| `ChatStreamProofs` | `ChatStream`, and that it implements `Reply` |
| `AgentRoutingProofs` | `AgentRouting` |
| `ToolRoutingProofs` | `ToolRouting` |
| `PluginsProofs` | `Plugins` |
| `StandaloneProofs` | `Auth`; `Router`, `Logger`, `CacheStore` and `LuaPipeline` as the instances `Rt`, `Log`, `Store` and `Lua` |
| `SequenceLemmas` | what the proofs need to know of `Append`, `Tail`, concatenation, prefixes, rising sequences, `ToSet` and `Keep`; nothing of this system |

`Filter` defines `Keep(s, T)`, the elements of `s` that are in `T`, in their order: what
`std::remove_if` with `erase` leaves, the messages among the functors of a loop, the pieces of one
request among the messages of a connection. `SelectSeq` takes an operator as its parameter, and no
fact about such a definition can be stated for the provers; a set in its place can be.

Two modules meet in the SSE parser. `SseParser` begins at bytes and ends at callbacks;
`ChatStream` begins at lines, each of a kind (`token`, `fragment`, `finish`, `done`), and at what
the callbacks do with them. `CutsDoNotMatter` is what allows `ChatStream` to begin there.

HTTP requests are connections of `ChatStream` in the set `Http`. What `handle_chat` does
differently from `process_chat` is in four places: one request per connection and no cancel
(`MayUse`, `Cancel`), callbacks that write to the response instead of queueing (`Sent`), no
message for a tool call (`Finish`), no entry in `active_requests` and so no erasure (`Chat`,
`NextStep`). Closing such a connection sets no cancel flag.

Data is abstract throughout: keys, names and payloads are model values; of a cache entry
its dependencies, status, confidence and age are kept, of a stream the kinds of its lines,
of a plugin its name, priority and what its hook returns.

## What TLC checks

The bounds are small because the cases are few; that most of the properties hold beyond them is
proved (below). Constants named `Max…` are bounds on how often something happens; no code corresponds to
them. Nor to `scope` in `AgentRouting` and `ToolRouting`, which never changes: a result is taken from
whatever connection sends it, and TLC lets all of them send any only where one call is made. Deadlock is checked for the cache coordinator and the persistent cache; elsewhere
`CHECK_DEADLOCK FALSE`, because a system whose clients have used up their bounds stops.

| run | shows | bounds and why they are enough |
|---|---|---|
| `L2Cache_life` | `IndexExact`, `DiskCurrent`, `InvalidatedStaysAMiss`, `CascadeMarksDependents` through writes, invalidations, decay, expiry, purge, failed saves, crashes and restarts | two keys that depend on nothing or on both of them: self-dependency, a cycle and a dependent; a tick with TTL 0 gives expiry and purge; a confidence above 1.0, which nothing refuses |
| `CacheCoordinator_calls` | `LayersAgree` (with the archive that a summary refers to), `InvalidatedNotServed` with two threads between any two critical sections | two calls in flight are enough for each race of two sections; L1 of size one makes every promotion evict; one key bypasses L1, the other depends on it |
| `ChatStream_stream` | `CancelQuiets`, `InFlightCancellable` | two requests of one client share its queue and may be cancelled at any point of a stream of two tokens that does not end, of a bare [DONE], or of a tool call whose connection breaks in the next one |
| `ChatStream_answer` | `ImplementsReply`, `GaugeSettles`, with request_ids used again | a WebSocket and an HTTP client; streams of a token and [DONE], of a token and a tool call, refused at once: a piece can be lost, sent twice or overtaken by the end, two requests of the WebSocket can be mixed up |
| `ChatStream_ended` | `EndedIsAnswered`, under fairness | the same two clients; the shortest stream of each kind of end |
| `AgentRouting_calls` | `RegistryExact`, `AnswerToCaller`, `NoCallForgotten` | two connections that are caller, agent or both, two calls with ids of their own, each answered up to twice by who received it, or one call, answered by any connection at any time, up to twice; changes of role and disconnects anywhere |
| `ToolRouting_calls` | `OfferedByExecutor`, `ResultToSender`, `EvenShare` | two connections that execute the tool or not (pools of no, one and two members), two registrations; two calls and results by who received them, or one call and results from anyone, up to two each |
| `Standalone_classes`: Auth | `RateBound` over every window, `SpacedIsAdmitted` | limits of no call, of a token in two ticks and of several per tick; three seconds |
| … Router | `WeightedShare`, `NoStarvation`, current weights that sum to zero and keep within bounds (`WeightsBounded`) | weights 0, 1 and 3 of two nodes, and a group of 1, 2 and 6, in whose round of nine the node of weight 2 waits for more than half a round; ten picks are more than that round; a mark takes a node out |
| … Logger | `LoggedInOrder`, counters in range (`TypesOK`) | a ring of three strings, two threads and four lines: the ring goes round, overruns, and shutdown() comes at any step of a log() |
| … SseParser | `CutsDoNotMatter` | three streams (text with comments, empty lines, garbled payloads and a last line that is not ended; two tool calls with text between; a finish without a call), each cut in every way |
| … CacheStore | `RecentAreKept` | three keys in a store for two: hit, replacement, expiry and eviction in every order |
| … LuaPipeline | `ChainOfHooks`, `Verdict`, `NoAlienGlobals`, the pool of VMs (`TypesOK`) | three plugins, two VMs, three pipelines, so that a VM is used again; the limit on instructions lets the scripts of one pipeline through and not those of a second one in the VM, and the stack is full in the second; each script may define a global, and may do something to a whitelisted one |
| `Plugins_reload` | `Converges`, `PriorityOrder`, `OthersKept` and, under fairness, `HotReload` | two files, three changes, so that a file changes again during its own reload and another's; a pipeline at any moment |
| `L2Cache_exit` | a **violation** of `CleanExitKeepsData` | |
| `ChatStream_silent` | a **violation** of `EndedIsAnswered` | |
| `ChatStream_twice` | a **violation** of `AnsweredOnce` | |

`Standalone_classes` explores one part at a time (`part` says which), so that its states are the
sum of theirs and not the product: the parts share nothing.

Two things are not steps of the running program. `Window` in `Auth` lets the window that
`RateBound` counts begin at any time. Decay and purge in `L2Cache` are operations that any
caller may make; in the program only `background_maintenance` (`src/agent_cache.cpp:705`)
calls them, and no thread is started on it.

### The refinement

`Reply` says what a client of a chat request is promised, in three variables: an answer grows at
its end until it has ended (`Grow`), and the client hears more of it, its pieces in order, none
twice, none after the end, and the end only after all of them and as it was (`Hear`); a client
that cancelled or went away may miss pieces. `ChatStream` implements it under a refinement
mapping (`R` and the definitions before it): the answer is what has been parsed of the stream and
what the plugins left of it, and `heard` is read off what was sent to the connection, so that a
token that waits in a loop's queue is part of the answer and not yet heard. The hard part
is that the callbacks send tokens through the queue and cancel, refusals and HTTP go past it.
The mapping takes the first `done`, `finish` or failure as the end: it holds for servers that
send nothing after it, which `ChatStream_answer` has and `Tidy` says in general; what becomes of the
others is the subject of `ChatStream_twice`. TLC checks it on that run, and
`ChatStreamProofs!ChatImplementsReply` proves it for any connections, requests and tidy streams. `Reply` is a safety specification; that an end is heard at all is
`EndedIsAnswered`.

### Fairness

Only two specifications assume any. `ChatStream`: weak fairness of the I/O thread's own
steps (`RemoteUpstream::io_loop` polls with a timeout and drains, reads and reaps in each
round) and of each event loop's queue (Drogon's loops run queued functors). Servers and
clients are not fair: a server may never send another byte. `Plugins!FairSpec`: weak
fairness of the watcher's thread, which loops until it is stopped. The other properties
are safety properties and need none.

## Where code and documentation part

Three violation runs record the gravest. `main` calls `shutdown()`, which saves and then
clears the maps, and `~L2PersistentCache` (`include/agent_cache.h:133`) calls it once more,
which saves the empty maps: after an orderly exit the persistent cache is empty. And a
stream that ends with status 200 but no `[DONE]` (`src/remote_upstream.cpp:231`) leaves its
client without `done` or `error`. And a tool call answers twice: `finish_reason` (`:70`) and the
`[DONE]` after it (`:39`) both call `done_cb_`, so the client gets `done` two times and the gauge
of active requests, an unsigned number, ends below zero.

Others are stated as properties under the heading "What the documentation promises and the
code does not keep" in their modules. TLC refutes each within two minutes if it takes the place
of the properties in the named configuration, with the constants given here. A name
with `!` has to be given one of its own in `MCStandalone` first.

| property | configuration | changes | what the code does |
|---|---|---|---|
| `CascadeMarksAllDependents` | `L2Cache_life` | `Keys <- MCKeys3`, `DepSets <- MCFewDeps`, `MaxClock = 0`, `CrashIn = {}` | `src/agent_cache.cpp:321` does not go through entries that are INVALIDATED already; `include/agent_cache.h:115` "级联标记所有依赖方" |
| `PurgeRemovesExpired` | `L2Cache_life` | | `src/agent_cache.cpp:368` purges an expired entry only if it is INVALIDATED too; `include/agent_cache.h:125` "清理过期条目" |
| `ConfidenceInRange` | `L2Cache_life` | | `src/ws_chat_controller.cpp:289,696` pass on the number an agent sends; `include/agent_types.h:42` "Agent 自评，0~1" |
| `WriteReachesL1` | `CacheCoordinator_calls` | | `src/agent_cache.cpp:627` leaves an older entry in L1; `include/agent_cache.h:214` "三层同时写" |
| `L1HonoursTTL` | `CacheCoordinator_calls` | | `src/agent_cache.cpp:29` subtracts a `system_clock` stamp (line 621) from `steady_clock`; line 31 "TTL 检查" |
| `FreshMeansConfident` | `CacheCoordinator_calls` | | `src/agent_cache.cpp:570,592` do not look at the confidence; `include/agent_cache.h:207` "confidence 衰减到阈值以下" |
| `CascadeReachesL1` | `CacheCoordinator_calls` | | `src/agent_cache.cpp:681` cascades in L2 only; `include/agent_types.h:103` "级联传播到依赖方" |
| `ErrorRate` | `ChatStream_silent` | `Streams <- FailingStreams` | an error is counted at `src/ws_chat_controller.cpp:434` and `src/remote_upstream.cpp:226`; `src/README.md:65` |
| `InFlightCancellable` | `ChatStream_answer` | | `src/ws_chat_controller.cpp:424` erases by id, after the client may have used it again; `src/README.md:79` |
| `ResultToItsCaller` | `AgentRouting_calls` | three connections, `CallIds = {d1}`, `UniqueIds = FALSE` | `src/ws_chat_controller.cpp:631` overwrites another caller's entry; `include/ws_chat_controller.h:114` |
| `LowestLoad` | `AgentRouting_calls` | | nothing updates `active_calls`; `src/agent_cache.cpp:771` "选负载最低的" |
| `BufferReleased` | `AgentRouting_calls` | | `src/ws_chat_controller.cpp:802` archives for agents only; `include/agent_cache.h:220` |
| `AppendToLive` | `AgentRouting_calls` | | `src/ws_chat_controller.cpp:714` uses a reference whose buffer another loop may have erased |
| `WeightedShare` | `Standalone_classes` | `Configs <- MCUnnamed` | `include/router.h:33` keys current weights by name, which defaults to "" |
| `Rt!FailedIsAvoided` | `Standalone_classes` | | nothing calls `mark_unhealthy`; `src/README.md:7` "健康检查" |
| `Log!EveryLineKept` | `Standalone_classes` | | `include/logger.h:34-36` counts lines, not slots: a line that another thread has reserved and not stored is taken for an empty one, skipped and never written, and a full ring is written over; `include/logger.h:3` |
| `RunsAll`, `RunsByPriority` | `Plugins_reload` | | `src/plugin_manager.cpp:350-352` reloads in three steps; `include/plugin_manager.h:74,122` |
| `Converges` | `Plugins_reload` | `SlashInDir = TRUE` | `src/plugin_manager.cpp:425` builds another path than the scan |
| `Converges` | `Plugins_reload` | `EarlyEdits = TRUE` | the scan is at `src/main.cpp:150`, the watch at `:180` |
| `ResetCleans` | `Standalone_classes` | | `src/lua_sandbox.cpp:33-48` spares 20 names and the tables among them, and `inject_api` and the standard library are loaded only when the VM is made: a plugin that sets `print`, `gateway.x` or `string.y` has set it for every later pipeline that borrows the VM; `include/lua_sandbox.h:53` "重置 VM 到干净状态" |
| `Lua!ContinuePasses` | `Standalone_classes` | | `src/plugin_manager.cpp:233` rejects on `set_response`; `include/plugin_manager.h:77` |
| `Lua!LimitIsForOne` | `Standalone_classes` | | `src/lua_sandbox.cpp:58` counts over a VM's life; `include/lua_sandbox.h:19` |

(`SYMMETRY` lines go as well where a property names particular connections or keys.)

## What is proved

Every theorem is about the module's `Spec` and all values of its constants: any number of
connections, threads, keys, calls, requests and results, any dependency graph, streams, sizes
and limits. What is assumed of the constants are the `ASSUME`s in the modules and, where a
theorem has a hypothesis of its own, what the table says.

| theorems | property | hypothesis |
|---|---|---|
| `L2CacheProofs`: `TypeCorrect`, `IndexCorrect`, `Durable`, `InvalidationHolds`, `CascadeCorrect` | `TypeOK`, `IndexExact`, `DiskCurrent`, `InvalidatedStaysAMiss`, `CascadeMarksDependents` | |
| `CacheCoordinatorProofs`: `TypeCorrect`, `LayersDoAgree`, `DeadStayDead` | `TypeOK`, `LayersAgree`, `InvalidatedNotServed` | |
| `ChatStreamProofs`: `TypeCorrect`, `CancelledFallSilent` | `TypeOK`, `CancelQuiets` | |
| … `CancelReaches` | `InFlightCancellable` | `~ReuseIds`: no client uses a request_id again |
| … `GaugeBalances` | `GaugeSettles` | every stream is `Clean`: one line that ends the answer if it ends well, none if it fails |
| … `ChatImplementsReply` | `ImplementsReply`, that is `R!Spec` | every stream is `Tidy`: clean, and no token after the line that ends the answer |
| `AgentRoutingProofs`: `TypeCorrect`, `AnswersReachCallers`, `IndexIsExact` | `TypeOK`, `AnswerToCaller`, `RegistryExact` | |
| … `CallsKept`, `OwnResult` | `NoCallForgotten`, `ResultToItsCaller` | `UniqueIds`: callers choose distinct call_ids |
| `ToolRoutingProofs`: `TypeCorrect`, `OfferedAreThere`, `AnswersReachSenders`, `SharesAreEven` | `TypeOK`, `OfferedByExecutor`, `ResultToSender`, `EvenShare` | |
| … `OwnResult` | `OwnResultStep`, an action property | `UniqueKeys`: distinct pairs of request_id and call_id |
| `PluginsProofs`: `InOrder`, `OnlyReloadedIsMissing` | `PriorityOrder`, `OthersKept` | |
| … `TypeCorrect` | `TypeOK` | `~SlashInDir`: `plugins_dir` does not end in a slash |
| … `ListConverges` | `Converges` | `~SlashInDir`, and `~EarlyEdits`: no edits between the scan and the watch |
| `StandaloneProofs`: `TypeCorrect`, `RateLimited`, `Spaced` | `TypeOK` of `Auth`, `RateBound`, `SpacedIsAdmitted` | |
| … `TypesCorrect`, `LinesInOrder` | `TypesOK`, `LoggedInOrder` | the former of runs of `Logger` and `LuaPipeline` together |
| … `StoreKeepsRecent` | `RecentAreKept` | |
| … `PipelineChains`, `PipelineVerdict`, `NoGlobalsLeft` | `ChainOfHooks`, `Verdict`, `NoAlienGlobals` | |
| … `WeightsStayBounded`, `SharesByWeight`, `NobodyStarves` | `WeightsBounded`, `WeightedShare`, `NoStarvation` | `DistinctNames`: the configuration names no backend of a group twice |

The hypotheses are where the code depends on its environment; each is needed, except that
`ImplementsReply` could do with less than `Tidy` (below). The web page
numbers its requests (`static/index.html:155`), and its tool calls have a key of their own; other
clients may do as they like, and then `src/ws_chat_controller.cpp:424` and `:631` take another's
entry. `plugins_dir` defaults to `plugins` (`src/main.cpp:150`). Nothing in `load_config` keeps two
backends of a group from having one name, the default one among them. The table of refuted
properties above has the counterexamples of `InFlightCancellable`, `ResultToItsCaller`,
`Converges` and `WeightedShare`; `ChatStream_twice` has a stream that is not clean. A token behind the end of an answer
is passed on by `process_line` like any other, and the client of a WebSocket hears of it after
`done`; that much of `Tidy` is needed. That a stream is clean is what `Whereabouts` rests on: a second
end, as of a tool call followed by [DONE], would be sent once more and break neither `Grow` nor
`Hear`, which look at the first one, but the theorem does not cover it. That an answer goes to whoever
asked, once (`AnswerToCaller`, `ResultToSender`), needs *no* distinct ids: an entry that was
overwritten loses its answer to nobody, and what is then wrong is only which result is sent. The
proof showed that; the comments in the modules had said otherwise.

### The arguments

None of these properties is inductive. Each proof module begins with the strengthening, in named
parts; it has one lemma per action (and part), a lemma that puts them together, and the
theorems follow with PTL.

**`L2CacheProofs`.** `IndexExact` survives a restart only if the files belong together, so the
invariant `IInv` adds what the files are worth at each moment: `DiskIndexInv` relates the index
on disk to the entries in memory (while the process lives) and to the entries on disk (while it
is down) for every key that is neither being written (`dirty`) nor was hit by a crash
(`suspect`). `DeadInv` says where an invalidation stands, in memory and on disk. `LockInv`,
`CreatedInv` and `DataOnlyInv` tie the save in progress to the operation that owes it and keep
the ages in the domain of the decay table. `CascadeCorrect` needs, beyond `IInv`, that the visited
set of the cascade is closed under the index.

**`CacheCoordinatorProofs`.** The layers have a lock each and no call holds two, so agreement is a
matter of which calls are between two of them. `Overlaps`: where a call that changes a key has
another beside it, the key is marked, and a call that believes to be alone is. `Writing`,
`Invalidating` and `Promoting` say what each kind of call has established by the time it reaches
its next lock; the last is the one that matters, for the copy a query carries from L2 to L1 must
still be of the write that L2 holds. `Agreeing` and `Buried` are the two properties in terms of
the nodes of L1's list.

**`ChatStreamProofs`.** `Hands` and `Kinds` (`Basic`): a request is in the submit queue, in the I/O
thread's local copy of it or in transfer, in one place and once. `LateOnce`: the one token that is
queued after a cancel was in the callback that had read the flag already. `ErasedAfterEnd`: an
erase functor is queued only after the request's end, so with distinct ids it takes no
running request's flag. `Whereabouts` and `Counted`: a request that was made is waiting, in
transfer, in a callback or has ended, and the gauge is, modulo its width, the number of the
requests that have not ended plus the number of transfers, because `process_chat` and
`add_transfer` both count a request up and `on_done` and `reap_finished` both down. The proof found
one error of the model: `ReapOk` and `Reaped` left a request in `fragment` whose parser is
destroyed with its `TransferCtx` (`src/remote_upstream.cpp`, `reap_finished`); they now drop it.

*That it implements `Reply`.* `Parsing` is what the I/O thread has read when a callback runs: the line
that began it was the last one parsed, a parser holds a tool call exactly from a fragment to the line
that finishes it, and `done` is in hand only after a line that ends the answer, `error` only before any.
`Answering` says, of every request, where the pieces are that were handed out: what its client has
heard (`HeardPieces`), followed by what waits in the queue of its loop (`Coming`), is the answer as far
as it is there (`Delivering`), all of it unless the client has stopped the request, and in rising order
always; an end is handed out after the answer has ended, as it did, and who has heard of it has nothing
coming (`Ending`). Each action has a lemma that says what it does to one request in these
terms (`Step`): nothing (`StepSame`), one more piece (`StepPiece`), the end (`StepEnd`), or a loop that
runs its queue (`StepLoop`). The last two steps read `Grow` and `Hear` of `Reply` off `Step` (`OldMaps`,
`NewMaps`), for every request at once, for a loop moves all of its connection's. The initial state maps
to `R!Init`. Nothing here depends on how often ids are used.

**`AgentRoutingProofs`, `ToolRoutingProofs`.** Both are for any connections that answer calls they
were not given (`scope.strangers`), so also for all. `HeldOnce`: a call is held by the handler of one
connection, or pending, or answered, never two of these, and all of its answers are with its
caller. It is what makes a second result for a call harmless. `NotForgotten` follows a call
through forwarding, the agent's queue and its tasks, and says that the entry is there meanwhile or
the answer under way. `Listed` and `RegistryExact` carry the capability index through a
registration that interleaves with a close. `Offered` orders the two steps by which a closing
executor leaves: registry first, pool second. `Round`: the members of the pool that have had one
call more than the others are those on the way from where the round began to the index, going
round; `EvenShare` alone says nothing of where the index is.

**`PluginsProofs`.** `ListOnce`: `load_plugin` may append without looking because `unload_plugin` has
taken off what had the same path, and nobody else appends in between. `HadKept`: during a reload
the list lacks none of the plugins it had but the one reloaded. `Settled`: for every file the list
shows what the directory has, or the news of its change is queued, or it is the file being handled
and not yet read. The last alternative ends when the file is read, not when the event is taken; so a
change during the file's own reload is not lost, for its event is queued behind.

**`StandaloneProofs`, rate limit.** `RateBound` alone says nothing of what is left in the bucket, so
`Budget` bounds the calls admitted in the window *plus* what the bucket could still give at once
by a full bucket plus the gain of the window; refilling never raises that sum beyond what time
adds, and consuming moves it from one part to the other. Since a window may begin at any moment,
the result is a bound for every window. Non-linear facts are lemmas of their own.

**`StandaloneProofs`, logger.** `Counting`: `count_` is the number of lines that threads have
finished less the number of slots the flusher has taken, however they interleave, so the flusher
never passes a reservation. `Orderly`: while no two threads have been in `log()` at once and the ring had
room, the lines the flusher has not taken stand in their slots, but for the last, which one thread
may be storing, and the file has all the others. `SlotsDiffer`, that numbers less than
`kBufSize` apart differ modulo it, is where the ring's size comes in.

**`StandaloneProofs`, CacheStore.** `StoreInv` adds to `RecentAreKept` that `recent` names no key twice
and is at least as long as the list. Without it an entry taken out of the middle, by a hit or an
expiry, could leave the rest in an order that is not that of `recent`. The two sequences lose an
element at the same place (`WithoutFacts`, from `KeepAllBut`), or the longer one behind the end of
the shorter: the key of an entry that was evicted before.

**`StandaloneProofs`, pipelines.** `Begun` says of the pipeline in hand, or the one that ended last, what the
properties say, and that a pipeline which is not done has a plugin to go to; `Judged` adds that an
abort ends it, which is what keeps other plugins from following. A hook is anything that `Does`
allows, and `RunStep` is the one lemma about it that the three pipelines share. `ChainOfHooks`
compares what the code did step by step with `Keep` over all that ran: `KeepAppend` and
`KeepSame` take one hook off. `OwnGlobals`, that the VM in use has of
other pipelines only what reset spares, is what `NoAlienGlobals` needs: that looks back, and says
nothing of the next script. What is at the whitelisted names, `ResetCleans` asks for too, and it is refuted.

**`StandaloneProofs`, router.** `pick()` adds every node's weight `x` to its current weight `c`, takes the first
of the highest and takes the weight `W` of all from it. `Balanced`: what a pick adds it takes off, so the
current weights of a group sum to zero, whatever is marked. `Owed`: after `k` picks of a round, of which
a node had `t`, its current weight is `k * x - W * t`, which is not below `-W`, and `t <= x`. The node
that is picked has the most, after all have been raised, of numbers whose sum is `W`; so it has something,
which makes `t + 1 <= x` (`MostIsPositive`, `OwedLess`). When the round is full nobody lacks anything,
for the picks add up to what the weights add up to (`SumLacks`), all current weights are zero and the next
round begins like the first (`OwedEnd`, `RoundStep`). The last conjunct of `Owed` adds what the node waited in
the round before, from which `NoStarvation` follows. The loop of `pick()` and the sums over a group are
recursive functions. What is needed of them (`SumDef`, `RaisedDef`) is proved from their definitions: a
function that satisfies the recursion exists (`LoopExists`), so the one that CHOOSE takes satisfies it too.

The proof showed that two bounds stated before hold of small groups only. A current weight can be above
the weight of its group (26 in a group of 1, 1, 1, 11 and 11, which weighs 25), and the picks between two of
a node of weight `x` can be more than `W / x` (five beside a node of weight 2, in a group of 1, 2 and 6).
`WeightsBounded` and `NoStarvation` now state bounds that hold for all weights.

### What is only model-checked

- Liveness (`EndedIsAnswered`, `HotReload`): it needs `ENABLED`, which the provers here do not handle.
- `CutsDoNotMatter` of `SseParser`: the parser is a recursion over the bytes, and what it does with every
  cut is an induction over data.
- The violations and the refuted properties, of course: a counterexample is a behaviour TLC shows.

Induction over data is avoided elsewhere by an invariant over a set: `SequenceLemmas!SetInduction` is
stated for a set of numbers and not for a predicate, which is enough for what `Keep` and the sums of
`Router` return. The parser goes through bytes of several kinds in a loop that is not of this form.

## What is not modelled

- *The read-only HTTP endpoints*: `/health`, `/metrics`, `/tools`, `/plugins`.
- *Several tool calls in one answer*: `src/remote_upstream.cpp:50` reads only the first of
  `tool_calls` and no `index`, so the parts of parallel calls are put together as one. The
  streams of `MCStandalone` have one call at a time; the same for a last line that no line feed
  ends, which the parser drops.
- *L3 get, audit and expand_context*: they change no cache state.
- *Keys of cached results*: `CacheCoordinator` takes keys as given. In the code, results are
  written under `agent:{name}:agent_call:{sha256(output)}` (`src/ws_chat_controller.cpp:689`)
  and looked up under `agent:{id|any}:{capability}:{sha256(input)}`, which never meet.
- *The DAG orchestrator* (`plugins/orchestrator_dag.lua`): no code calls its functions.
  `load_plugin` looks for hooks among the globals of the VM (`src/plugin_manager.cpp:138-145`), and
  the script keeps them in a local table that it returns.
- *Stopping the upstream*: `main` does not stop it (`src/main.cpp:197-199`); its thread runs on
  while plugins, cache and logger shut down, and is joined by the destructor of the global
  `g_upstream`. Its callbacks do not reach the persistent cache, and they do reach the logger: in
  `Logger` threads may log during and after `shutdown()`.
- *Uncaught exceptions*. `json::parse` ends the process on malformed JSON: in `add_transfer`
  (`src/remote_upstream.cpp:162,168`), in the functor of a tool call (`src/ws_chat_controller.cpp:389`), in `route_agent_call` after the
  pending entry was made (`:640`), and in `route_agent_result` after the entry was taken out and the
  result cached (`:723`). So does `dump()` of a summary that was cut inside a character, when the write
  at `:700` saves L2 (`L2Cache` has this one, `SaveToDiskThrows`, with a crash after it or without), and
  `msg.value` on a member of another type. The steps that follow in a handler do not take place then, but neither does anything
  else, except that a new process reads the files of L2.
- *The plugins' `gateway.cache_set`*: its lambda takes two strings and an int, which is none of the
  signatures of `third_party/sol/sol.hpp:339-396`, so it is bound to the function at `:398` that does
  nothing. No other code that is built calls `CacheStore::set`: the store of the running program
  stays empty, and `RecentAreKept` is about the class.
- *Globals under keys that are not strings*: `for_each` of the sol shim converts a numeric key
  in place, on which `lua_next` raises an error outside any protected call at the next borrow; what is
  under keys that are neither strings nor numbers, reset does not see.
- *Expired entries of `CacheStore`* take room until they are looked up, so a live entry may be
  evicted while an expired one stays; `RecentAreKept` speaks of use, not of expiry.
- *Timeouts*: the code has none beyond curl's connect timeout.
- *Undefined behaviour* of vectors that one thread extends while another reads: the copy
  that races with the sort in `Plugins` may be any sequence of the elements; the
  reallocation of `push_back`, and `ctx->tools` in `ToolRouting`, are taken as atomic.
- `gateway.cpp`, `chat_controller.cpp`, `upstream.cpp`, `local_llama_upstream.cpp`: not
  built by `CMakeLists.txt` (75-83). Vendored Lua and sol, except what `LuaPipeline` needs
  of `third_party/sol/sol.hpp`. Web page, tests and benchmarks.

## Plan

In order of weight:

1. `AgentCalls`, composing `AgentRouting` and `CacheCoordinator` with the real keys.
2. `ChatImplementsReply` for streams that end twice but send no piece after the first end. `Whereabouts`
   would have to say which of the two callbacks a request is in, or has been in.

## Running

`tlc -config X.cfg M` with the module of each run as listed in `PROJECT.json`; `tlapm M.tla` with
each module of theorems above (from a few seconds to a few minutes each).
