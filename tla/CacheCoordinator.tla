-------------------------- MODULE CacheCoordinator --------------------------
(***************************************************************************)
(* The three cache layers behind CacheCoordinator (src/agent_cache.cpp) as *)
(* the event-loop threads of the WebSocket controller use them.  Each      *)
(* layer has a lock of its own, and query, write and invalidate take them  *)
(* one after the other, so every critical section is a step and the steps  *)
(* of several calls interleave.                                            *)
(*                                                                         *)
(* L2 is reduced to what its get, set and hard_invalidate do; its files,   *)
(* index and maintenance are the subject of module L2Cache.                *)
(***************************************************************************)
EXTENDS Integers, Sequences, FiniteSets, Filter

CONSTANTS
    Threads,        \* threads that call the coordinator
    Keys,           \* cache keys
    Capability,     \* Capability[k]: the capability in the key
    DependsOn,      \* DependsOn[k]: the depends_on list of the entries of k
    Mid, Large,     \* keys whose output is over 2048 bytes; is 4096 bytes or more
    Sessions,       \* session ids
    MaxSize,        \* max_size_ of L1
    MaxTurns,       \* kMaxTurns of a SessionBuffer
    TTL,            \* base_ttl_seconds, in ticks
    Epoch,          \* how far system_clock is ahead of steady_clock
    MaxClock,       \* bound: the clock stops here
    MaxWrites,      \* bound: number of writes
    None            \* no entry, no call

ASSUME SizeAssumption  == MaxSize \in Nat \ {0} /\ MaxTurns \in Nat \ {0}
ASSUME ClockAssumption == {TTL, Epoch, MaxClock, MaxWrites} \subseteq Nat
ASSUME KeyAssumption   == /\ DependsOn \in [Keys -> SUBSET Keys]
                          /\ DOMAIN Capability = Keys
                          /\ Large \subseteq Mid /\ Mid \subseteq Keys

Versions == 1..MaxWrites
Status   == {"FRESH", "STALE", "INVALIDATED"}

\* A CacheEntry.  "version" tells the writes of a key apart, "low" is a
\* confidence below kConfidenceFresh.
Entry == [version : Versions, status : Status, low : BOOLEAN, created : Nat]

\* A node of L1's list, a turn of a SessionBuffer.
Node == [key : Keys, entry : Entry]
Turn == [capability : {Capability[k] : k \in Keys} \cup {"agent_call"}, key : Keys]

\* The calls, with the step each comes to next; what a query is answered with.
Results == [layer : {"L1", "L2"}, key : Keys, entry : Entry, stale : BOOLEAN]
Calls == [op : {"query"}, step : {"l1", "session", "l2", "promote", "reply"}, key : Keys,
          session : Sessions, result : Results \cup {None}, alone : BOOLEAN]
         \cup
         [op : {"write"}, step : {"l1", "l3", "l2"}, key : Keys, entry : Entry,
          session : Sessions, alone : BOOLEAN]
         \cup
         [op : {"append"}, step : {"turn"}, key : Keys, session : Sessions, alone : BOOLEAN]
         \cup
         [op : {"invalidate"}, step : {"l1", "l2"}, key : Keys, cascade : BOOLEAN, alone : BOOLEAN]

ASSUME NoneAssumption == None \notin Entry \cup Results \cup Calls

VARIABLES
    lru,            \* L1: lru_ and map_, most recently used first
    l2,             \* L2: entries_
    archived,       \* L3: keys with an object
    turns,          \* sessions_: the turns of each SessionBuffer, oldest first
    call,           \* the call each thread is in, or None
    now,            \* steady_clock
    writes,         \* number of writes so far
    \* history variables, read by no action's guard
    overlapped,     \* keys a write or invalidate of which overlapped another call
    dead            \* keys whose invalidate returned, not written since

vars == <<lru, l2, archived, turns, call, now, writes, overlapped, dead>>
-----------------------------------------------------------------------------
(* The layers.                                                             *)

Cached      == {lru[i].key : i \in 1..Len(lru)}
L1Entry(k)  == lru[CHOOSE i \in 1..Len(lru) : lru[i].key = k].entry
L1Without(k) == Keep(lru, [key : Keys \ {k}, entry : Entry])

\* Mutant: one entry too many before the oldest is dropped.
L1SetLate(k, e) ==
    LET rest == L1Without(k)
    IN  <<[key |-> k, entry |-> e]>> \o
            SubSeq(rest, 1, IF k \in Cached \/ Len(rest) <= MaxSize THEN Len(rest) ELSE MaxSize)

\* L1CacheStore::set: replace and move to the front, or drop the least recently
\* used ones and insert at the front.
L1Set(k, e) ==
    LET rest == L1Without(k)
    IN  <<[key |-> k, entry |-> e]>> \o
            SubSeq(rest, 1, IF k \in Cached \/ Len(rest) < MaxSize THEN Len(rest) ELSE MaxSize - 1)

SystemNow  == now + Epoch

\* Entries are stamped by system_clock; L1 compares with steady_clock, L2 with
\* system_clock.
L1Expired(e) == now > e.created + TTL
L2Expired(e) == SystemNow > e.created + TTL

L2Servable(k) == l2[k] # None /\ ~ L2Expired(l2[k]) /\ l2[k].status # "INVALIDATED"

\* Entries a cascade reaches from k: dependents through entries that exist and
\* are not INVALIDATED (module L2Cache has the search itself).
Reachable(e, k) ==
    {x \in Keys : \A S \in SUBSET Keys :
        /\ k \in S
        /\ \A z \in Keys : /\ e[z] # None /\ e[z].status # "INVALIDATED"
                           /\ DependsOn[z] \cap S # {}
                           => z \in S
        => x \in S}

HardInvalidated(k, cascade) ==
    LET e == [l2 EXCEPT ![k].status = "INVALIDATED", ![k].low = TRUE]
    IN  IF ~ cascade THEN e
        ELSE [x \in Keys |-> IF x \in Reachable(e, k) \ {k}
                             THEN [e[x] EXCEPT !.status = "STALE", !.low = TRUE]
                             ELSE e[x]]

-----------------------------------------------------------------------------
(* Calls.                                                                  *)

InCall(t, op, step) == call[t] # None /\ call[t].op = op /\ call[t].step = step

\* Other threads inside a call on k.
Others(t, k) == {u \in Threads \ {t} : call[u] # None /\ call[u].key = k}

Mutators == {"write", "invalidate"}

\* Entering a call.  History: it overlaps the calls on the same key in flight, if
\* it or they change the cache.
Enter(t, c) ==
    LET rivals == {u \in Others(t, c.key) : {call[u].op, c.op} \cap Mutators # {}}
    IN  /\ call[t] = None
        /\ call' = [u \in Threads |->
                       IF u = t THEN [c EXCEPT !.alone = rivals = {}]
                       ELSE IF u \in rivals THEN [call[u] EXCEPT !.alone = FALSE]
                       ELSE call[u]]
        /\ overlapped' = IF rivals = {} THEN overlapped ELSE overlapped \cup {c.key}

Goto(t, step) == call' = [call EXCEPT ![t].step = step]

\* A write or invalidate that ran alone has settled its key.
Settle(t) == overlapped' = IF call[t].alone /\ call[t].op \in Mutators
                           THEN overlapped \ {call[t].key} ELSE overlapped

Leave(t) == call' = [call EXCEPT ![t] = None] /\ Settle(t)

\* query, as route_agent_call uses it
StartQuery(t, k, s) ==
    /\ Enter(t, [op |-> "query", step |-> "l1", key |-> k, session |-> s, result |-> None,
                 alone |-> TRUE])
    /\ UNCHANGED <<lru, l2, archived, turns, now, writes, dead>>

Answer(t, step, layer, k, e, stale) ==
    call' = [call EXCEPT ![t].step = step,
                         ![t].result = [layer |-> layer, key |-> k, entry |-> e, stale |-> stale]]

\* L1CacheStore::get: an expired entry is dropped, a hit moves to the front.
\* A hit is never reported stale.
QueryL1(t) ==
    /\ InCall(t, "query", "l1")
    /\ LET k == call[t].key
       IN  IF k \in Cached /\ ~ L1Expired(L1Entry(k))
           THEN /\ lru' = L1Set(k, L1Entry(k))
                /\ Answer(t, "reply", "L1", k, L1Entry(k), FALSE)
           ELSE /\ lru' = L1Without(k)
                /\ Goto(t, "session")
    /\ UNCHANGED <<l2, archived, turns, now, writes, overlapped, dead>>

\* The session's turns with this capability, oldest first.
Recent(s, cap) == Keep(turns[s], [capability : {cap}, key : Keys])

\* The newest turn with the same capability answers with what L2 has for it.
QuerySession(t) ==
    /\ InCall(t, "query", "session")
    /\ LET recent == Recent(call[t].session, Capability[call[t].key])
           last   == recent[Len(recent)].key
       IN  IF recent # <<>> /\ L2Servable(last)
           THEN Answer(t, "reply", "L2", last, l2[last], l2[last].status = "STALE")
           ELSE Goto(t, "l2")
    /\ UNCHANGED <<lru, l2, archived, turns, now, writes, overlapped, dead>>

QueryL2Hit(t) ==
    /\ InCall(t, "query", "l2")
    /\ L2Servable(call[t].key)
    /\ LET e == l2[call[t].key]
       IN  Answer(t, "promote", "L2", call[t].key, e, e.status = "STALE" \/ e.low)
    /\ UNCHANGED <<lru, l2, archived, turns, now, writes, overlapped, dead>>

\* A miss: the call goes on to an agent.
QueryL2Miss(t) ==
    /\ InCall(t, "query", "l2")
    /\ ~ L2Servable(call[t].key)
    /\ Leave(t)
    /\ UNCHANGED <<lru, l2, archived, turns, now, writes, dead>>

\* The copy read from L2 goes to L1.
Promote(t) ==
    /\ InCall(t, "query", "promote")
    /\ lru' = L1Set(call[t].key, call[t].result.entry)
    /\ Goto(t, "reply")
    /\ UNCHANGED <<l2, archived, turns, now, writes, overlapped, dead>>

Appended(s, turn) ==
    LET grown == Append(turns[s], turn)
    IN  IF Len(grown) > MaxTurns THEN Tail(grown) ELSE grown

AppendTurn(s, cap, k) ==
    turns' = [turns EXCEPT ![s] = Appended(s, [capability |-> cap, key |-> k])]

\* The hit is sent and becomes a turn of the session.
Reply(t) ==
    /\ InCall(t, "query", "reply")
    /\ AppendTurn(call[t].session, Capability[call[t].key], call[t].result.key)
    /\ Leave(t)
    /\ UNCHANGED <<lru, l2, archived, now, writes, dead>>

\* The ratings route_agent_result gives an entry: a confidence of 0.7 or more, one
\* in between, and one of 0.3 or less, which makes the entry STALE from the start.
Ratings == {[status |-> "FRESH", low |-> FALSE],
            [status |-> "FRESH", low |-> TRUE],
            [status |-> "STALE", low |-> TRUE]}

\* write, as route_agent_result uses it
StartWrite(t, k, s, r) ==
    /\ writes < MaxWrites
    /\ writes' = writes + 1
    /\ Enter(t, [op |-> "write", step |-> IF k \in Large THEN "l3" ELSE "l1", key |-> k,
                 entry |-> [version |-> writes + 1, status |-> r.status, low |-> r.low,
                            created |-> SystemNow],
                 session |-> s, alone |-> TRUE])
    /\ dead' = dead \ {k}
    /\ UNCHANGED <<lru, l2, archived, turns, now>>

\* An output of more than 2048 bytes goes to L3 before L2 is written.
AfterL1(k) == IF k \in Mid THEN "l3" ELSE "l2"

\* Mutant: an entry that is there already is kept.
WriteL1IfNew(t) ==
    /\ InCall(t, "write", "l1")
    /\ lru' = IF call[t].key \in Cached THEN lru ELSE L1Set(call[t].key, call[t].entry)
    /\ Goto(t, AfterL1(call[t].key))
    /\ UNCHANGED <<l2, archived, turns, now, writes, overlapped, dead>>

WriteL1(t) ==
    /\ InCall(t, "write", "l1")
    /\ lru' = L1Set(call[t].key, call[t].entry)
    /\ Goto(t, AfterL1(call[t].key))
    /\ UNCHANGED <<l2, archived, turns, now, writes, overlapped, dead>>

WriteL3(t) ==
    /\ InCall(t, "write", "l3")
    /\ archived' = archived \cup {call[t].key}
    /\ Goto(t, "l2")
    /\ UNCHANGED <<lru, l2, turns, now, writes, overlapped, dead>>

WriteL2(t) ==
    /\ InCall(t, "write", "l2")
    /\ l2' = [l2 EXCEPT ![call[t].key] = call[t].entry]
    /\ Settle(t)
    /\ call' = [call EXCEPT ![t] = [op |-> "append", step |-> "turn", key |-> call[t].key,
                                    session |-> call[t].session, alone |-> TRUE]]
    /\ UNCHANGED <<lru, archived, turns, now, writes, dead>>

\* The result becomes a turn of the caller's session, always as "agent_call".
ResultTurn(t) ==
    /\ InCall(t, "append", "turn")
    /\ AppendTurn(call[t].session, "agent_call", call[t].key)
    /\ Leave(t)
    /\ UNCHANGED <<lru, l2, archived, now, writes, dead>>

\* invalidate
StartInvalidate(t, k, cascade) ==
    /\ Enter(t, [op |-> "invalidate", step |-> "l1", key |-> k, cascade |-> cascade,
                 alone |-> TRUE])
    /\ UNCHANGED <<lru, l2, archived, turns, now, writes, dead>>

\* Mutant: L1 keeps its copy.
InvalidateL1Nothing(t) ==
    /\ InCall(t, "invalidate", "l1")
    /\ Goto(t, "l2")
    /\ UNCHANGED <<lru, l2, archived, turns, now, writes, overlapped, dead>>

InvalidateL1(t) ==
    /\ InCall(t, "invalidate", "l1")
    /\ lru' = L1Without(call[t].key)
    /\ Goto(t, "l2")
    /\ UNCHANGED <<l2, archived, turns, now, writes, overlapped, dead>>

\* hard_invalidate does nothing for a key it does not have.
InvalidateL2(t) ==
    /\ InCall(t, "invalidate", "l2")
    /\ l2' = IF l2[call[t].key] = None THEN l2
             ELSE HardInvalidated(call[t].key, call[t].cascade)
    /\ dead' = dead \cup {call[t].key}
    /\ Leave(t)
    /\ UNCHANGED <<lru, archived, turns, now, writes>>

Tick ==
    /\ now < MaxClock
    /\ now' = now + 1
    /\ UNCHANGED <<lru, l2, archived, turns, call, writes, overlapped, dead>>

-----------------------------------------------------------------------------
Init ==
    /\ lru = <<>>
    /\ l2 = [k \in Keys |-> None]
    /\ archived = {}
    /\ turns = [s \in Sessions |-> <<>>]
    /\ call = [t \in Threads |-> None]
    /\ now = 0 /\ writes = 0
    /\ overlapped = {} /\ dead = {}

Step(t) ==
    \/ QueryL1(t) \/ QuerySession(t) \/ QueryL2Hit(t) \/ QueryL2Miss(t)
    \/ Promote(t) \/ Reply(t)
    \/ WriteL1(t) \/ WriteL3(t) \/ WriteL2(t) \/ ResultTurn(t)
    \/ InvalidateL1(t) \/ InvalidateL2(t)

Next ==
    \/ \E t \in Threads : Step(t)
    \/ \E t \in Threads, k \in Keys, s \in Sessions : StartQuery(t, k, s)
    \/ \E t \in Threads, k \in Keys, s \in Sessions, r \in Ratings : StartWrite(t, k, s, r)
    \/ \E t \in Threads, k \in Keys, cascade \in BOOLEAN : StartInvalidate(t, k, cascade)
    \/ Tick

Spec == Init /\ [][Next]_vars

-----------------------------------------------------------------------------
(* Properties.                                                             *)

\* Every variable stays in its domain; L1 never holds two nodes for a key nor
\* more than max_size_ nodes (set, get, invalidate).
TypeOK ==
    /\ lru \in Seq(Node)
    /\ Len(lru) <= MaxSize
    /\ \A i, j \in 1..Len(lru) : lru[i].key = lru[j].key => i = j
    /\ l2 \in [Keys -> Entry \cup {None}]
    /\ archived \subseteq Keys
    /\ turns \in [Sessions -> Seq(Turn)]
    /\ \A s \in Sessions : Len(turns[s]) <= MaxTurns
    /\ call \in [Threads -> Calls \cup {None}]
    /\ now \in 0..MaxClock /\ writes \in 0..MaxWrites
    /\ overlapped \subseteq Keys /\ dead \subseteq Keys

Changing(k) == \E t \in Threads : call[t] # None /\ call[t].key = k /\ call[t].op \in Mutators

\* L1 and L2 hold the same write of a key, except for keys whose writes bypass L1
\* (4096 bytes and more), while a write or invalidate of the key is on its way, or
\* after one overlapped another call on the key -- and then only until a write or
\* invalidate runs alone: promotion, eviction, sessions and calls on other keys
\* never make the layers disagree (write, query's promotion, invalidate).  The full
\* output that an L2 entry gave up is in L3 before the entry can be found (write).
LayersAgree ==
    /\ \A k \in Cached \ (overlapped \cup Large) :
           ~ Changing(k) /\ l2[k] # None => L1Entry(k).version = l2[k].version
    /\ \A k \in Mid : l2[k] # None => k \in archived

\* Once invalidate(key) has returned without overlapping another call on the key,
\* neither layer serves the key until it is written again, whatever is promoted
\* or answered from a session meanwhile (invalidate, query).
InvalidatedNotServed ==
    \A k \in dead \ overlapped : k \notin Cached /\ ~ L2Servable(k)

-----------------------------------------------------------------------------
(* What the documentation promises and the code does not keep.             *)

\* agent_cache.h:214 says of write that the layers are "written at the same time":
\* with no call in flight, L1 holds no older write of a key than L2.
WriteReachesL1 ==
    \A k \in Cached : (\A t \in Threads : call[t] = None) /\ l2[k] # None
                          => L1Entry(k).version = l2[k].version

\* agent_cache.cpp:31 and agent_cache.h:4 give L1 a (short) TTL: L1 answers only
\* with entries that are not older than that.
L1HonoursTTL ==
    [][\A t \in Threads : QueryL1(t) /\ call'[t].step = "reply"
            => SystemNow <= call'[t].result.entry.created + TTL]_vars

\* agent_cache.h:207 says the stale flag is for a confidence below the threshold:
\* an answer reported fresh has its confidence, and is FRESH.
FreshMeansConfident ==
    \A t \in Threads : InCall(t, "query", "reply") /\ ~ call[t].result.stale
        => call[t].result.entry.status = "FRESH" /\ ~ call[t].result.entry.low

\* agent_types.h:103 says a cascading invalidation spreads to the dependents: with
\* no call in flight, no entry that the cascade made STALE is FRESH in L1.
CascadeReachesL1 ==
    \A k \in Cached : (\A t \in Threads : call[t] = None) /\ l2[k] # None /\ l2[k].status = "STALE"
                          => L1Entry(k).status # "FRESH"
=============================================================================
