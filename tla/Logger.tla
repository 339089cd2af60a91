------------------------------- MODULE Logger -------------------------------
(***************************************************************************)
(* The asynchronous logger (include/logger.h): a ring of kBufSize strings  *)
(* that any thread writes and one thread flushes to the file.  There is no *)
(* lock: three atomic counters are all that keeps the threads apart, and   *)
(* the strings in the ring are plain ones.                                 *)
(*                                                                         *)
(* A line is named by its reservation: line n took the n-th value of       *)
(* write_pos_.  A string that is read while it is written, or written by   *)
(* two threads, may come out as anything: the slot then holds Garbled.     *)
(***************************************************************************)
EXTENDS Integers, Sequences, FiniteSets, SequencesExt

CONSTANTS           \* what is assumed of them: see Standalone
    Threads,        \* threads that log
    BufSize,        \* kBufSize
    MaxLines,       \* bound: lines logged
    Empty, Garbled  \* an empty slot; a string that two threads have spoiled

VARIABLES
    buf,            \* buf_
    writePos, readPos, count,   \* write_pos_, read_pos_, count_
    writing,        \* writing[t]: the line t is in log() with, and its next step, or Empty
    running,        \* running_
    flusher,        \* what flush_loop and flush_all do next: see Steps
    joined,         \* is it shutdown() that flushes, writer_ having ended?
    file,           \* what file_ has been given
    \* history variables, read by no action's guard
    calm,           \* has no line been logged while another was, or with the ring nearly full?
    owed            \* lines whose log() had returned when shutdown() began

ring       == <<buf, writePos, readPos, count, writing>>
loggerVars == <<ring, running, flusher, joined, file, calm, owed>>

Steps == {"sleep", "check", "read", "clear", "lower", "gone", "closed"}
Slot(n) == n % BufSize
Idle(t) == writing[t] = Empty

-----------------------------------------------------------------------------
(* log(), in any thread.                                                   *)

\* write_pos_.fetch_add
Reserve(t) ==
    /\ Idle(t) /\ writePos < MaxLines
    /\ writePos' = writePos + 1
    /\ writing' = [writing EXCEPT ![t] = [line |-> writePos, step |-> "begin"]]
    /\ calm' = (calm /\ \A u \in Threads : Idle(u) /\ writePos - readPos < BufSize - 1)
    /\ UNCHANGED <<buf, readPos, count, running, flusher, joined, file, owed>>

At(t, step) == ~Idle(t) /\ writing[t].step = step

\* The assignment to the slot begins ...
StoreBegins(t) ==
    /\ At(t, "begin")
    /\ buf' = [buf EXCEPT ![Slot(writing[t].line)] = Garbled]
    /\ writing' = [writing EXCEPT ![t].step = "end"]
    /\ UNCHANGED <<writePos, readPos, count, running, flusher, joined, file, calm, owed>>

\* ... and ends; if another thread was at the same string, it comes out as anything.
StoreEnds(t) ==
    /\ At(t, "end")
    /\ LET n == writing[t].line
           shared == \/ \E u \in Threads \ {t} : At(u, "end") /\ Slot(writing[u].line) = Slot(n)
                     \/ buf[Slot(n)] # Garbled
       IN  \E value \in IF shared THEN {n, Empty, Garbled} ELSE {n} :
               buf' = [buf EXCEPT ![Slot(n)] = value]
    /\ writing' = [writing EXCEPT ![t].step = "raise"]
    /\ UNCHANGED <<writePos, readPos, count, running, flusher, joined, file, calm, owed>>

\* count_.fetch_add
Raise(t) ==
    /\ At(t, "raise")
    /\ count' = count + 1
    /\ writing' = [writing EXCEPT ![t] = Empty]
    /\ UNCHANGED <<buf, writePos, readPos, running, flusher, joined, file, calm, owed>>

-----------------------------------------------------------------------------
(* flush_all(), in writer_ and then in shutdown().                         *)

Flusher(step, next) == flusher = step /\ flusher' = next

\* flush_loop wakes up, or returns.
Wake ==
    /\ \/ running /\ Flusher("sleep", "check")
       \/ ~running /\ Flusher("sleep", "gone")
    /\ UNCHANGED <<ring, running, joined, file, calm, owed>>

\* While something is counted, read_pos_.fetch_add comes next.
Check ==
    /\ \/ count > 0 /\ Flusher("check", "read") /\ readPos' = readPos + 1
       \/ count = 0 /\ Flusher("check", IF joined THEN "closed" ELSE "sleep") /\ UNCHANGED readPos
    /\ UNCHANGED <<buf, writePos, count, writing, running, joined, file, calm, owed>>

Reading == Slot(readPos - 1)

\* The string goes to the file unless it is empty ...
Read ==
    /\ IF buf[Reading] = Empty THEN Flusher("read", "lower") /\ UNCHANGED file
       ELSE Flusher("read", "clear") /\ file' = Append(file, buf[Reading])
    /\ UNCHANGED <<ring, running, joined, calm, owed>>

\* ... and is cleared, along with what a thread may be writing there.
Clear ==
    /\ Flusher("clear", "lower")
    /\ buf' = [buf EXCEPT ![Reading] = Empty]
    /\ UNCHANGED <<writePos, readPos, count, writing, running, joined, file, calm, owed>>

\* count_.fetch_sub
Lower ==
    /\ Flusher("lower", "check")
    /\ count' = count - 1
    /\ UNCHANGED <<buf, writePos, readPos, writing, running, joined, file, calm, owed>>

-----------------------------------------------------------------------------
(* shutdown(), at the end of main(): the upstream's thread still runs.     *)

\* running_.store(false)
Stop ==
    /\ running /\ running' = FALSE
    /\ owed' = writePos - Cardinality({t \in Threads : ~Idle(t)})
    /\ UNCHANGED <<ring, flusher, joined, file, calm>>

\* Mutant: what is left is not flushed.
JoinOnly ==
    /\ Flusher("gone", "closed") /\ joined' = TRUE
    /\ UNCHANGED <<ring, running, file, calm, owed>>

\* writer_.join(), and the last flush_all
Join ==
    /\ Flusher("gone", "check") /\ joined' = TRUE
    /\ UNCHANGED <<ring, running, file, calm, owed>>

-----------------------------------------------------------------------------
Init ==
    /\ buf = [i \in 0..(BufSize - 1) |-> Empty]
    /\ writePos = 0 /\ readPos = 0 /\ count = 0
    /\ writing = [t \in Threads |-> Empty]
    /\ running = TRUE /\ flusher = "sleep" /\ joined = FALSE
    /\ file = <<>>
    /\ calm = TRUE /\ owed = 0

Next ==
    \/ \E t \in Threads : Reserve(t) \/ StoreBegins(t) \/ StoreEnds(t) \/ Raise(t)
    \/ Wake \/ Check \/ Read \/ Clear \/ Lower
    \/ Stop \/ Join

Spec == Init /\ [][Next]_loggerVars

-----------------------------------------------------------------------------
(* Properties.                                                             *)

Contents == 0..(MaxLines - 1) \cup {Empty, Garbled}

\* Every variable stays in its domain: the flusher never passes a reservation, nor count_
\* zero, however the threads interleave.
TypeOK ==
    /\ buf \in [0..(BufSize - 1) -> Contents]
    /\ writePos \in 0..MaxLines /\ readPos \in 0..writePos /\ count \in 0..writePos
    /\ writing \in [Threads -> [line : 0..(MaxLines - 1), step : {"begin", "end", "raise"}]
                                \cup {Empty}]
    /\ running \in BOOLEAN /\ joined \in BOOLEAN /\ calm \in BOOLEAN
    /\ flusher \in Steps
    /\ file \in Seq(Contents \ {Empty})
    /\ owed \in 0..MaxLines

\* As long as no two threads log at once and the ring has two free slots whenever one does,
\* the file has every line once, whole and in order, and after shutdown() all that were
\* logged before it (log, flush_all, shutdown; the slot being read is no longer counted).
LoggedInOrder ==
    calm => /\ file = [i \in 1..Len(file) |-> i - 1]
            /\ flusher = "closed" => Len(file) >= owed

-----------------------------------------------------------------------------
(* What the documentation promises and the code does not keep.             *)

\* logger.h:3 offers the ring, "lock-free", to every thread: a line that was logged is in
\* the file when the logger has shut down, whichever threads log.
EveryLineKept ==
    flusher = "closed" /\ (\A t \in Threads : Idle(t)) /\ owed = writePos =>
        ToSet(file) = 0..(writePos - 1)
=============================================================================
