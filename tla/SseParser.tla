------------------------------ MODULE SseParser ------------------------------
(***************************************************************************)
(* SSEParser (src/remote_upstream.cpp): libcurl hands it the bytes of a    *)
(* server's stream in pieces of any size; it cuts them into lines, and     *)
(* makes callbacks of the lines.                                           *)
(*                                                                         *)
(* A byte stream is a sequence of symbols: "data: ", the halves of a       *)
(* payload (what it says, and Close), a text that is neither, CR and LF.   *)
(* Pieces are cut between any two symbols, so also inside a payload and    *)
(* between CR and LF.                                                      *)
(***************************************************************************)
EXTENDS Integers, Sequences, FiniteSets, SequencesExt

CONSTANTS
    Wires,          \* what servers send
    Data, CR, LF, Close, DoneMark,
    NoName          \* a field that is missing, or an empty string

\* What the rest of the system can tell apart of a payload: the first of its tool_calls,
\* whether finish_reason is "tool_calls", its content.
Says(id, name, args, finish, content) ==
    [id |-> id, name |-> name, args |-> args, finish |-> finish, content |-> content]

VARIABLES
    wire,           \* what the server has not sent yet
    got,            \* what feed has been given
    buf,            \* buf_
    tc,             \* tc_id_, tc_name_, tc_args_
    calls           \* the callbacks made so far

sseVars == <<wire, got, buf, tc, calls>>

NoCall == [id |-> NoName, name |-> NoName, args |-> <<>>]
Token(text) == [call |-> "token", arg |-> text]
ToolCall(t) == [call |-> "tool_call", arg |-> t]
OnDone      == [call |-> "done", arg |-> NoName]

-----------------------------------------------------------------------------
(* flush_lines and process_line.                                           *)

Given(new, old) == IF new = NoName THEN old ELSE new

Accumulated(t, p) ==
    [id |-> Given(p.id, t.id), name |-> Given(p.name, t.name),
     args |-> IF p.args = NoName THEN t.args ELSE Append(t.args, p.args)]

\* A payload that parses: what it adds to the tool call, and the callbacks.
Parsed(st, p) ==
    LET t == Accumulated(st.tc, p)
    IN  IF p.finish
        THEN [tc |-> NoCall,
              calls |-> st.calls \o (IF t.id # NoName THEN <<ToolCall(t), OnDone>> ELSE <<OnDone>>)]
        ELSE [tc |-> t,
              calls |-> st.calls \o (IF p.content # NoName THEN <<Token(p.content)>> ELSE <<>>)]

\* process_line: one that is no data is ignored, and a payload that does not parse is passed
\* on as a token.
Processed(st, line) ==
    LET payload == Tail(line)
    IN  IF line = <<>> \/ Head(line) # Data THEN st
        ELSE IF payload = <<DoneMark>> THEN [st EXCEPT !.calls = Append(@, OnDone)]
        ELSE IF Len(payload) = 2 /\ payload[2] = Close THEN Parsed(st, payload[1])
        ELSE IF payload # <<>> THEN [st EXCEPT !.calls = Append(@, Token("raw"))] ELSE st

Chomped(line) == IF line # <<>> /\ Last(line) = CR THEN Front(line) ELSE line

\* The loop of flush_lines over what is in the buffer: the lines that are complete are
\* processed in turn, the rest is left.
Flushed(st, bytes) ==
    FoldLeft(LAMBDA acc, b :
                 IF b = LF THEN [rest |-> <<>>, st |-> Processed(acc.st, Chomped(acc.rest))]
                 ELSE [acc EXCEPT !.rest = Append(@, b)],
             [rest |-> <<>>, st |-> st], bytes)

\* Mutant: what follows the last line feed is dropped.
FeedDropsRest(n) ==
    LET r == Flushed([tc |-> tc, calls |-> calls], buf \o SubSeq(wire, 1, n))
    IN  /\ n <= Len(wire)
        /\ got' = got \o SubSeq(wire, 1, n)
        /\ wire' = SubSeq(wire, n + 1, Len(wire))
        /\ buf' = <<>> /\ tc' = r.st.tc /\ calls' = r.st.calls

\* feed: the next n bytes arrive.
Feed(n) ==
    LET r == Flushed([tc |-> tc, calls |-> calls], buf \o SubSeq(wire, 1, n))
    IN  /\ n <= Len(wire)
        /\ got' = got \o SubSeq(wire, 1, n)
        /\ wire' = SubSeq(wire, n + 1, Len(wire))
        /\ buf' = r.rest /\ tc' = r.st.tc /\ calls' = r.st.calls

Init ==
    /\ wire \in Wires
    /\ got = <<>> /\ buf = <<>> /\ tc = NoCall /\ calls = <<>>

Next == \E n \in 1..Len(wire) : Feed(n)

Spec == Init /\ [][Next]_sseVars

-----------------------------------------------------------------------------
(* Properties.                                                             *)

\* The parser in terms of the whole stream.  Its lines end at the line feeds.
Ends(s) == {i \in DOMAIN s : s[i] = LF}
LineTo(s, e) ==
    LET begin == CHOOSE b \in {0} \cup Ends(s) : b < e /\ ~\E i \in Ends(s) : b < i /\ i < e
    IN  SelectSeq(SubSeq(s, begin + 1, e - 1), LAMBDA x : x # CR)

\* What the line that ends at e says, or NoName.
Payload(s, e) == LET l == LineTo(s, e)
                 IN  IF Len(l) = 3 /\ l[1] = Data /\ l[3] = Close THEN l[2] ELSE NoName
Finishes(s) == {e \in Ends(s) : Payload(s, e) # NoName /\ Payload(s, e).finish}

\* The tool call that the finish at e completes: its id and name are those that the parts
\* since the finish before give, its arguments all of theirs together.
CallAt(s, e) ==
    LET parts  == {i \in Ends(s) : /\ Payload(s, i) # NoName /\ i <= e
                                   /\ ~\E f \in Finishes(s) : i <= f /\ f < e}
        given(F(_)) == {F(Payload(s, i)) : i \in parts} \ {NoName}
        args  == SelectSeq([i \in 1..e |-> IF i \in parts THEN Payload(s, i).args ELSE NoName],
                           LAMBDA a : a # NoName)
        id(p) == p.id
        name(p) == p.name
        one(S) == IF S = {} THEN NoName ELSE CHOOSE x \in S : TRUE
    IN  [id |-> one(given(id)), name |-> one(given(name)), args |-> args]

CallsAt(s, e) ==
    LET l == LineTo(s, e)
        p == Payload(s, e)
    IN  CASE l = <<Data, DoneMark>> -> <<OnDone>>
          [] p # NoName /\ p.finish -> IF CallAt(s, e).id = NoName THEN <<OnDone>>
                                       ELSE <<ToolCall(CallAt(s, e)), OnDone>>
          [] p # NoName /\ ~p.finish -> IF p.content = NoName THEN <<>> ELSE <<Token(p.content)>>
          [] p = NoName /\ Len(l) > 1 /\ l[1] = Data /\ l # <<Data, DoneMark>> -> <<Token("raw")>>
          [] OTHER -> <<>>

\* However the stream is cut, the callbacks made are those of the complete lines received, in
\* their order, and every tool call has the id, the name and all the arguments its parts
\* give, and nothing of the tool call before it (feed, flush_lines, process_line).
CutsDoNotMatter ==
    calls = FlattenSeq([i \in 1..Len(got) |-> IF got[i] = LF THEN CallsAt(got, i) ELSE <<>>])
=============================================================================
