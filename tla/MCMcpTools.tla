---------------------------- MODULE MCMcpTools ----------------------------
(***************************************************************************)
(* A small instance of McpTools: a batch beside another call.              *)
(***************************************************************************)
EXTENDS McpTools

CONSTANTS a, b, c1, c2

Ask(name, sel, kind, wait) == Tool(name, sel, wait, Absent, Absent,
                                   <<Step(kind, Absent, Absent, Absent)>>)
Look(name, sel) == Tool(name, sel, "no", Absent, Absent, <<>>)
Batch(mode, steps) == Tool("batch", Omitted, "yes", mode, Absent, steps)

\* Batches: paint waits; a shared ack that a step overrides; a step that does
\* not wait, so its bad mode is ignored; a bad space; a kind only a tool has.
Batches == {
    Batch(Absent, <<Step("touch", Absent, Absent, "panel"), Step("key", Absent, Absent, Bad)>>),
    Batch("ack",  <<Step("home", Absent, "paint", Absent), Step("swipe", Absent, Absent, Absent)>>),
    Batch("ack",  <<Step("key", "no", Bad, Absent), Step("snapshot", Absent, Absent, Absent)>>),
    Batch(Absent, <<Step("home", Absent, "ack", Absent), Step("swipe", Absent, Absent, Bad)>>),
    Batch(Bad,    <<Step("key", Absent, Absent, Absent)>>)}

Others == {Ask("inject", b, "touch", "yes"), Ask("inject", NoInstance, "home", "yes"),
           Ask("enable", a, "enable", "no"), Ask("snapshot", Omitted, "snapshot", "yes"),
           Look("get", Omitted), Look("list", NoInstance),
           Look("resources", NoInstance), Look("read", b), Look("read", Omitted)}

Pairs == {[c \in Calls |-> IF c = c1 THEN x ELSE y] : x \in Batches, y \in Others}
=============================================================================
