----------------------------- MODULE CacheStore -----------------------------
(***************************************************************************)
(* CacheStore (include/common.h): the cache behind the plugins' cache_get  *)
(* and cache_set, with a time to live for each entry and room for          *)
(* max_size_ of them.  Every call holds its lock, so a call is a step.     *)
(* map_ holds the keys of lru_ and is not kept apart.                      *)
(***************************************************************************)
EXTENDS Integers, FiniteSets, SequencesExt, Filter

CONSTANTS           \* what is assumed of them: see Standalone
    StoreKeys,      \* keys
    MaxSize,        \* max_size_
    TTLs,           \* values of ttl_seconds
    LastTime,       \* bound: the clock stops here
    Nothing         \* no answer, no entry

VARIABLES
    lru,            \* lru_
    time,           \* steady_clock
    \* history variables, read by no action's guard
    recent,         \* keys that were set and neither expired nor cleared since, last used first
    written         \* written[k]: when k was last set and for how long

storeVars == <<lru, time, recent, written>>

-----------------------------------------------------------------------------
KeysIn(s) == [i \in DOMAIN s |-> s[i].key]
Has(s, k) == k \in ToSet(KeysIn(s))
Without(s, k) == Keep(s, {e \in ToSet(s) : e.key # k})
Find(k) == lru[CHOOSE i \in DOMAIN lru : lru[i].key = k]

\* History: k was used, or is no longer there.
Unused(k) == Keep(recent, StoreKeys \ {k})
Used(k) == <<k>> \o Unused(k)

\* get, and the key is not there.
Miss(k) ==
    /\ ~Has(lru, k)
    /\ UNCHANGED storeVars

\* get, and the entry has expired: it is erased.
Expire(k) ==
    /\ Has(lru, k) /\ time > Find(k).expires
    /\ lru' = Without(lru, k)
    /\ recent' = Unused(k)
    /\ UNCHANGED <<time, written>>

\* Mutant: a hit does not count as a use.
HitInPlace(k) ==
    /\ Has(lru, k) /\ time <= Find(k).expires
    /\ recent' = Used(k)
    /\ UNCHANGED <<lru, time, written>>

\* get, and the entry is moved to the front.
Hit(k) ==
    /\ Has(lru, k) /\ time <= Find(k).expires
    /\ lru' = <<Find(k)>> \o Without(lru, k)
    /\ recent' = Used(k)
    /\ UNCHANGED <<time, written>>

\* set: an entry of the key is replaced, else the last one makes room in a full store.
SetEntry(k, ttl) ==
    /\ LET rest == IF Has(lru, k) \/ Len(lru) < MaxSize THEN Without(lru, k) ELSE Front(lru)
       IN  lru' = <<[key |-> k, since |-> time, expires |-> time + ttl]>> \o rest
    /\ recent' = Used(k)
    /\ written' = [written EXCEPT ![k] = [since |-> time, ttl |-> ttl]]
    /\ UNCHANGED time

Clear ==
    /\ lru # <<>> /\ lru' = <<>>
    /\ recent' = <<>>
    /\ UNCHANGED <<time, written>>

TickStore ==
    /\ time < LastTime
    /\ time' = time + 1
    /\ UNCHANGED <<lru, recent, written>>

Init ==
    /\ lru = <<>> /\ time = 0
    /\ recent = <<>> /\ written = [k \in StoreKeys |-> Nothing]

Next ==
    \/ \E k \in StoreKeys : Miss(k) \/ Expire(k) \/ Hit(k)
    \/ \E k \in StoreKeys, ttl \in TTLs : SetEntry(k, ttl)
    \/ Clear \/ TickStore

Spec == Init /\ [][Next]_storeVars

-----------------------------------------------------------------------------
(* Properties.                                                             *)

\* The store holds the keys used last, in the order of their use, as many as fit, each once
\* and as it was set last: one that was evicted was used before all that are held, whatever
\* expired or was set again in between (CacheStore::get, CacheStore::set).
RecentAreKept ==
    /\ Len(lru) <= MaxSize
    /\ KeysIn(lru) = SubSeq(recent, 1, Len(lru))
    /\ \A i \in DOMAIN lru : LET w == written[lru[i].key]
                             IN  lru[i].since = w.since /\ lru[i].expires = w.since + w.ttl

=============================================================================
