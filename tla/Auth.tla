-------------------------------- MODULE Auth --------------------------------
(***************************************************************************)
(* API keys and their rate limits (include/auth.h): AuthManager keeps, for *)
(* each key, its KeyInfo and a TokenBucket that is filled at the key's     *)
(* qps_limit.  Every call holds the manager's lock, so a call is a step.   *)
(*                                                                         *)
(* Time is counted in ticks of 1/Second s, and the contents of a bucket in *)
(* 1/Second tokens, which keeps the code's doubles exact: a token costs    *)
(* Second units, and a bucket of limit q holds q * Second units and gains  *)
(* q of them per tick.                                                     *)
(***************************************************************************)
EXTENDS Integers

CONSTANTS
    Keys,       \* API keys
    Limits,     \* values of qps_limit
    Second,     \* ticks per second
    MaxClock,   \* bound: last tick
    Absent      \* marks a key that is in neither map

ASSUME KeyAssumption   == Absent \notin [limit : Limits, enabled : BOOLEAN]
                       /\ Absent \notin [limit : Limits, tokens : Nat, last : Nat]
ASSUME LimitAssumption == Limits \subseteq Nat
ASSUME ClockAssumption == Second \in Nat \ {0} /\ MaxClock \in Nat

VARIABLES
    keys,       \* keys_
    buckets,    \* buckets_
    clock,      \* steady_clock
    \* history variables, read by no action's guard: a window of time for each key
    since,      \* since[k]: when the window began
    admitted    \* admitted[k]: calls for k that verify has passed in the window

vars == <<keys, buckets, clock, since, admitted>>

-----------------------------------------------------------------------------
Capacity(b) == b.limit * Second
NewBucket(q) == [limit |-> q, tokens |-> q * Second, last |-> clock]

\* A key that is added again gets the new KeyInfo and keeps its bucket.
AddKey(k, q, on) ==
    /\ keys' = [keys EXCEPT ![k] = [limit |-> q, enabled |-> on]]
    /\ buckets' = IF buckets[k] = Absent THEN [buckets EXCEPT ![k] = NewBucket(q)] ELSE buckets
    /\ UNCHANGED <<clock, since, admitted>>

\* Mutant: the bucket fills without limit.
RefilledPastCapacity(b) == b.tokens + (clock - b.last) * b.limit

Refilled(b) ==
    LET filled == b.tokens + (clock - b.last) * b.limit
    IN  IF filled < Capacity(b) THEN filled ELSE Capacity(b)

\* Mutant: the token is taken before the bucket is looked at.
ConsumedFirst(b) == [b EXCEPT !.tokens = Refilled(b) - Second, !.last = clock]

\* What consume() leaves; a call that is refused brings the bucket up to date too.
Consumed(b) ==
    [b EXCEPT !.tokens = IF Refilled(b) < Second THEN Refilled(b) ELSE Refilled(b) - Second,
              !.last = clock]

\* verify with a key that is known and enabled; every other call returns without effect.
Verify(k) ==
    /\ keys[k] # Absent /\ keys[k].enabled
    /\ buckets' = [buckets EXCEPT ![k] = Consumed(@)]
    /\ admitted' = [admitted EXCEPT ![k] = @ + IF Refilled(buckets[k]) < Second THEN 0 ELSE 1]
    /\ UNCHANGED <<keys, clock, since>>

Tick ==
    /\ clock < MaxClock
    /\ clock' = clock + 1
    /\ UNCHANGED <<keys, buckets, since, admitted>>

\* History: another window begins, at any time.
Window(k) ==
    /\ since' = [since EXCEPT ![k] = clock]
    /\ admitted' = [admitted EXCEPT ![k] = 0]
    /\ UNCHANGED <<keys, buckets, clock>>

-----------------------------------------------------------------------------
Init ==
    /\ keys = [k \in Keys |-> Absent]
    /\ buckets = [k \in Keys |-> Absent]
    /\ clock = 0
    /\ since = [k \in Keys |-> 0]
    /\ admitted = [k \in Keys |-> 0]

Next ==
    \/ \E k \in Keys, q \in Limits, on \in BOOLEAN : AddKey(k, q, on)
    \/ \E k \in Keys : Verify(k) \/ Window(k)
    \/ Tick

Spec == Init /\ [][Next]_vars

-----------------------------------------------------------------------------
(* Properties.                                                             *)

\* Every variable stays in its domain, and a bucket holds neither less than nothing nor
\* more than its capacity.
TypeOK ==
    /\ keys \in [Keys -> [limit : Limits, enabled : BOOLEAN] \cup {Absent}]
    /\ buckets \in [Keys -> [limit : Limits, tokens : Nat, last : Nat] \cup {Absent}]
    /\ clock \in Nat
    /\ since \in [Keys -> Nat] /\ admitted \in [Keys -> Nat]
    /\ \A k \in Keys :
        /\ keys[k] # Absent => buckets[k] # Absent
        /\ since[k] <= clock
        /\ buckets[k] # Absent => /\ buckets[k].last <= clock
                                  /\ buckets[k].tokens <= Capacity(buckets[k])

\* In any window of time, however calls and refusals are spread over it and however often
\* the key is added again, no more calls pass than a full bucket and the tokens that were
\* added in the window pay for (TokenBucket::consume, AuthManager::verify).
RateBound ==
    \A k \in Keys :
        IF buckets[k] = Absent THEN admitted[k] = 0
        ELSE admitted[k] * Second <= buckets[k].limit * (Second + clock - since[k])

\* Refused calls do not push a key back: once 1/limit of a second has passed since the
\* last call, refused or not, the next one finds a token (TokenBucket::consume).
SpacedIsAdmitted ==
    \A k \in Keys :
        LET b == buckets[k]
        IN  b # Absent /\ b.limit > 0 /\ (clock - b.last) * b.limit >= Second
                => Refilled(b) >= Second
=============================================================================
