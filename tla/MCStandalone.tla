---------------------------- MODULE MCStandalone ----------------------------
(***************************************************************************)
(* The parts that call no other, for the model checker: those of           *)
(* Standalone and SseParser.  Having nothing in common they are explored   *)
(* one at a time: "part" says which of them moves.                         *)
(***************************************************************************)
EXTENDS Standalone

CONSTANTS NoName, Data, CR, LF, Close, DoneMark

VARIABLES
    part,
    wire, got, buf, tc, calls

rtVars    == <<config, serving, nodes, cw, picks, marks, taken, waited, failed, last>>
logVars   == <<ring, writePos, readPos, count, writing, running, flusher, joined, file, calm, owed>>
sseVars   == <<wire, got, buf, tc, calls>>
storeVars == <<lru, time, recent, written>>
luaVars   == <<available, vm, executed, stack, globals, pipe, runs, ran, alien>>

-----------------------------------------------------------------------------
\* No calls at all, a token in more than a tick, and several in one.
MCLimits == {0, 1, 2 * Second}

Backend(g, name, weight) == [group |-> g, name |-> name, weight |-> weight]

\* Two nodes of "*" with no weight, the least and another, and a third in a group of its own
MCWeights ==
    {<<Backend(Star, "a", v), Backend(Star, "b", w), Backend(Local, "c", 1)>> : v, w \in {0, 1, 3}}

\* No backend, one without a group for Local, and three of different weight
MCGroups ==
    {<<>>, <<Backend("other", "a", 1)>>,
     <<Backend(Star, "a", 1), Backend(Star, "b", 2), Backend(Star, "c", 6), Backend("other", "d", 1)>>}

\* Two backends without a name
MCUnnamed == {<<Backend(Star, "", 1), Backend(Star, "", 1)>>}

MCConfigs == MCWeights \cup MCGroups
MCFallback == Backend(Star, "local", 1)

Says(id, name, args, finish, content) ==
    [id |-> id, name |-> name, args |-> args, finish |-> finish, content |-> content]
Line(p) == <<Data, p, Close, CR, LF>>
Text(t) == Says(NoName, NoName, NoName, FALSE, t)
Part(id, name, args) == Says(id, name, args, FALSE, NoName)
Finish(content) == Says(NoName, NoName, NoName, TRUE, content)
Done == <<Data, DoneMark, LF>>

\* Text with a comment, an empty line, a payload that is cut short and a last line without a
\* line feed; two tool calls one after the other, text between them and in the line of the
\* finish, parts that say nothing new; a finish and a part that belong to no call.
MCWires ==
    {Line(Text("a")) \o <<"comment", LF, LF>> \o Line(Text("b")) \o <<Data, Text("c"), LF>>
        \o Done \o <<Data, Text("d"), Close>>,
     Line(Part("id1", "f", "x")) \o Line(Part(NoName, NoName, "y")) \o Line(Text("a"))
        \o Line(Finish("b")) \o Line(Part("id2", "g", NoName)) \o Line(Part(NoName, NoName, "z"))
        \o Line(Finish(NoName)) \o Done,
     Line(Part(NoName, NoName, "x")) \o Line(Finish(NoName)) \o Done \o Line(Text("a"))}

Sse == INSTANCE SseParser WITH Wires <- MCWires

\* Plugins with different hooks
MCPlugins ==
    <<[name |-> "moderation", hooks |-> {"on_request"}],
      [name |-> "translate",  hooks |-> {"on_request", "on_token"}],
      [name |-> "logging",    hooks |-> {"on_token", "on_done"}]>>

-----------------------------------------------------------------------------
Parts == {"auth", "router", "logger", "parser", "store", "pipeline"}

InitAll ==
    /\ part \in Parts
    /\ Init /\ Rt!Init /\ Log!Init /\ Sse!Init /\ Store!Init /\ Lua!Init
    /\ part # "router" => config = <<>>
    /\ part # "parser" => wire = CHOOSE w \in MCWires : TRUE

NextAll ==
    /\ UNCHANGED part
    /\ \/ part = "auth" /\ Next /\ UNCHANGED <<rtVars, logVars, sseVars, storeVars, luaVars>>
       \/ part = "router" /\ Rt!Next /\ UNCHANGED <<vars, logVars, sseVars, storeVars, luaVars>>
       \/ part = "logger" /\ Log!Next /\ UNCHANGED <<vars, rtVars, sseVars, storeVars, luaVars>>
       \/ part = "parser" /\ Sse!Next /\ UNCHANGED <<vars, rtVars, logVars, storeVars, luaVars>>
       \/ part = "store" /\ Store!Next /\ UNCHANGED <<vars, rtVars, logVars, sseVars, luaVars>>
       \/ part = "pipeline" /\ Lua!Next /\ UNCHANGED <<vars, rtVars, logVars, sseVars, storeVars>>

SpecAll == InitAll /\ [][NextAll]_<<part, vars, rtVars, logVars, sseVars, storeVars, luaVars>>

-----------------------------------------------------------------------------
\* The callbacks do not depend on how the stream is cut (SSEParser::feed).
CutsDoNotMatter == Sse!CutsDoNotMatter
=============================================================================
