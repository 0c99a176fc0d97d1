---------------------------- MODULE InboundQueue ----------------------------
(***************************************************************************)
(* The per-instance inbound queue (instances.rs, InboundQueue): a bounded  *)
(* deque the session reader pushes to and `observe` pops from.  Every      *)
(* operation holds the deque's mutex, so each is one step.  Envelopes are  *)
(* numbered in the order they are pushed; the numbers are history.         *)
(***************************************************************************)
EXTENDS Envelopes, FiniteSets

CONSTANTS
    Payloads,   \* the payloads a simulator may send
    Cap,        \* the queue's capacity, QUEUE_CAPACITY in the code
    MaxPush     \* bound on the number of pushes

ASSUME CapAssumption == Cap \in Nat \ {0} /\ MaxPush \in Nat
ASSUME PayloadsAssumption ==
    Payloads \subseteq [name : STRING, component : STRING, accepted : BOOLEAN]

VARIABLES
    items,      \* the deque
    pushed,     \* how many envelopes were offered so far
    received    \* the number of the last envelope popped, 0 before the first

vars == <<items, pushed, received>>

\* The envelope offered by the n-th push.
Envelope(p, n) ==
    [name |-> p.name, component |-> p.component, accepted |-> p.accepted, seq |-> n]

NumberedEnvelopes ==
    [name : STRING, component : STRING, accepted : BOOLEAN, seq : Nat]

\* The queue never outgrows its capacity, although push tests for equality
\* with it and not for being at least as long.
Bounded == Len(items) <= Cap

TypeOK ==
    /\ items \in Seq(NumberedEnvelopes)
    /\ Bounded
    /\ pushed \in Nat
    /\ received \in Nat

----------------------------------------------------------------------------
Init ==
    /\ items = <<>>
    /\ pushed = 0
    /\ received = 0

Push(p) ==
    /\ pushed < MaxPush
    /\ pushed' = pushed + 1
    /\ items' = push(items, Envelope(p, pushed + 1), Cap)
    /\ UNCHANGED received

try_recv ==
    /\ items # <<>>
    /\ received' = Head(items).seq
    /\ items' = Tail(items)
    /\ UNCHANGED pushed

Next == (\E p \in Payloads : Push(p)) \/ try_recv

Spec == Init /\ [][Next]_vars

----------------------------------------------------------------------------
\* The deque holds envelopes in the order they were pushed, each once, and
\* none that precedes what the observer already has: an eviction from the
\* middle and a pop at the front never let a later envelope overtake.
InOrder ==
    /\ \A i, j \in DOMAIN items : i < j => items[i].seq < items[j].seq
    /\ \A i \in DOMAIN items : received < items[i].seq /\ items[i].seq <= pushed

\* Telemetry of the simulator: the logs that go right after the heartbeats.
Telemetry(msg) == msg.name = Log /\ msg.component \in {"MEM", "SCT"}

\* The order in which a full queue gives things up, as the agent guide has it:
\* heartbeats, then MEM and SCT logs, then other logs, then the rest, and an
\* ack, a reply or an ACT or ERS log never.  What goes first is gone before
\* anything that goes later is lost, and at most one envelope goes per push.  Of
\* several heartbeats the guide has the newest go, the code lets the oldest go
\* (usize::MAX - index): which of equals goes is left out here.
EvictsLeastValuable ==
    [][ pushed' # pushed =>
          \A lost \in ToSet(items) \ ToSet(items') :
            /\ ~is_never_drop(lost)
            /\ ToSet(items) \ ToSet(items') = {lost}
            /\ \A kept \in ToSet(items) \cap ToSet(items') :
                 /\ is_heartbeat(kept) => is_heartbeat(lost)
                 /\ Telemetry(kept) => is_heartbeat(lost) \/ Telemetry(lost)
                 /\ kept.name = Log /\ ~is_never_drop(kept) => lost.name \in {Heartbeat, Log} ]_vars

\* What the observer is promised: order, no duplicates, a bounded backlog,
\* and no InputAck, UiResult, snapshot reply or ACT/ERS log lost once queued.
AsEventLog == INSTANCE EventLog WITH
    Durable <- is_never_drop, Bound <- Cap, Size <- Cardinality,
    held <- ToSet(items), arrived <- pushed, seen <- received
ImplementsEventLog == AsEventLog!Spec

=============================================================================
