---------------------------- MODULE MCChatStream ----------------------------
(* Small instances of ChatStream. *)
EXTENDS ChatStream, TLC

CONSTANTS i1, i2

SameIds == Permutations({i1, i2})

S(events, end) == [events |-> events, end |-> end]

\* Streams that end as the parser expects: with one [DONE], with one tool call after a token,
\* or with a failure.
CleanStreams == {S(<<"token", "done">>, "ok"), S(<<"token", "fragment", "finish">>, "ok"),
                 S(<<>>, "http")}

\* The shortest of each kind
ShortStreams == {S(<<"token", "done">>, "ok"), S(<<"fragment", "finish">>, "ok"), S(<<>>, "http")}

\* Also without an end, and a tool call whose connection breaks within the next
AnyStreams == {S(<<"token", "token">>, "ok"), S(<<"done">>, "ok"),
               S(<<"fragment", "finish", "fragment">>, "curl")}

ToolStreams == {S(<<"fragment", "finish", "done">>, "ok")}
SilentStreams == {S(<<"token">>, "ok")}
FailingStreams == {S(<<>>, "http")}
=============================================================================
