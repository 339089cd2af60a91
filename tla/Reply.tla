-------------------------------- MODULE Reply --------------------------------
(***************************************************************************)
(* What the gateway promises to the clients of chat requests, whatever     *)
(* threads, queues and callbacks it uses: ChatStream implements it.        *)
(***************************************************************************)
EXTENDS Integers, Sequences, SequencesExt

CONSTANTS
    Requests,       \* chat requests; the pieces of an answer are numbered
    None

VARIABLES
    answer,         \* answer[r]: the pieces of the answer so far and how it ended, or None
    heard,          \* heard[r]: the part of it that the client has received, or None
    stopped         \* requests that the client has cancelled or gone away from

vars == <<answer, heard, stopped>>

Ends == {"open", "done", "failed"}

\* Is s what is left of t when some of its elements are dropped?
IsPart(s, t) == ToSet(s) \subseteq ToSet(t) /\ \A i \in 2..Len(s) : s[i - 1] < s[i]

\* An answer grows at its end until it has ended.
Grow(r) ==
    LET a == answer[r]
        b == answer'[r]
    IN  \/ b = a
        \/ a = None /\ b \in [pieces : {<<>>}, end : {"open", "failed"}]
        \/ /\ a # None /\ a.end = "open"
           /\ b.end \in Ends
           /\ \/ b.pieces = a.pieces
              \/ /\ IsStrictPrefix(a.pieces, b.pieces)
                 /\ \A i \in 2..Len(b.pieces) : b.pieces[i - 1] < b.pieces[i]

\* The client hears more of it, its end last; one that stopped the request may miss pieces.
Hear(r) ==
    LET h == heard[r]
        k == heard'[r]
        b == answer'[r]
    IN  \/ k = h /\ (h = None => b = None)
        \/ h = None /\ b # None /\ (k = [pieces |-> <<>>, end |-> "open"] \/ k = b)
        \/ /\ h # None /\ h.end = "open"
           /\ IsPrefix(h.pieces, k.pieces)
           /\ k.end \in {"open", b.end}
           /\ IF r \in stopped THEN IsPart(k.pieces, b.pieces)
              ELSE IF k.end = "open" THEN IsPrefix(k.pieces, b.pieces)
              ELSE k = b

Init ==
    /\ answer = [r \in Requests |-> None] /\ heard = [r \in Requests |-> None]
    /\ stopped = {}

\* One step may move several requests: a loop runs all that is queued for its connection.
Next ==
    /\ stopped \subseteq stopped'
    /\ \A r \in Requests : Grow(r) /\ Hear(r)

Spec == Init /\ [][Next]_vars
=============================================================================
