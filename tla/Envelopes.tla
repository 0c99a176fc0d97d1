----------------------------- MODULE Envelopes -----------------------------
(***************************************************************************)
(* What the proxy tells apart in the `SimToServer` envelopes a simulator   *)
(* streams to it (crates/csm-proxy/src/instances.rs): the name of the      *)
(* payload, the component of a log line and the verdict of an InputAck.    *)
(* An envelope is any record with at least these three fields.             *)
(***************************************************************************)
EXTENDS Naturals, Sequences, SequencesExt

Heartbeat     == "heartbeat"
Log           == "log"
InputAck      == "input_ack"
UiResult      == "ui_result"
Snapshot      == "snapshot"
SnapshotError == "snapshot_error"
Goodbye       == "goodbye"

\* An envelope whose payload oneof is unset: it has no payload name.
NoPayload == ""

\* What a reply waiter may be waiting for.
WaitKind == {"Any", InputAck, UiResult, Snapshot}

\* The payload part of an envelope; the fields a payload has not are fixed.
Payload(name, component, accepted) ==
    [name |-> name, component |-> component, accepted |-> accepted]

----------------------------------------------------------------------------
\* The oneof name a session view's mask speaks of, NoPayload for none.
inbound_payload_name(msg) == msg.name

\* A mask shows the payloads it names; the empty mask shows everything.
inbound_visible(mask, msg) ==
    \/ mask = {}
    \/ inbound_payload_name(msg) \in mask \ {NoPayload}

is_heartbeat(msg) == msg.name = Heartbeat

is_never_drop(msg) ==
    \/ msg.name \in {InputAck, UiResult, Snapshot, SnapshotError}
    \/ msg.name = Log /\ msg.component \in {"ACT", "ERS"}

\* How readily a queued envelope is evicted; 0 is never.
eviction_rank(msg) ==
    CASE is_heartbeat(msg)                                   -> 4
      [] msg.name = Log /\ msg.component \in {"MEM", "SCT"} -> 3
      [] msg.name = Log /\ msg.component \in {"ACT", "ERS"} -> 0
      [] msg.name = Log /\ msg.component \notin {"MEM", "SCT", "ACT", "ERS"} -> 2
      [] msg.name \notin {Heartbeat, Log} /\ is_never_drop(msg)  -> 0
      [] msg.name \notin {Heartbeat, Log} /\ ~is_never_drop(msg) -> 1

\* Mutant of Evictable: envelopes that are never dropped may go, too.
AllEvictable(q) == DOMAIN q

\* The positions the queue may give up.
Evictable(q) == {i \in DOMAIN q : eviction_rank(q[i]) > 0}

\* Mutant of eviction_index: the oldest that may go at all, whatever its rank.
oldest_eviction_index(q) ==
    CHOOSE i \in Evictable(q) : \A j \in Evictable(q) : i <= j

\* The worst-ranked envelope, the oldest of equals.
eviction_index(q) ==
    CHOOSE i \in Evictable(q) :
        \A j \in Evictable(q) :
            \/ eviction_rank(q[j]) < eviction_rank(q[i])
            \/ eviction_rank(q[j]) = eviction_rank(q[i]) /\ i <= j

\* Mutant of push: the queue counts as full one envelope too late.
push_late(q, msg, cap) ==
    IF Len(q) <= cap THEN Append(q, msg)
    ELSE IF is_heartbeat(msg) \/ Evictable(q) = {} THEN q
    ELSE Append(RemoveAt(q, eviction_index(q)), msg)

\* InboundQueue::push: a full queue refuses a heartbeat, otherwise evicts one
\* envelope for the new one, and refuses the new one when none can go.
push(q, msg, cap) ==
    IF Len(q) # cap THEN Append(q, msg)
    ELSE IF is_heartbeat(msg) \/ Evictable(q) = {} THEN q
    ELSE Append(RemoveAt(q, eviction_index(q)), msg)

\* The reply a waiter of this kind accepts: a paint wait also ends on a
\* rejected InputAck.
waiter_matches(kind, msg) ==
    \/ kind = "Any"
    \/ kind = InputAck /\ msg.name = InputAck
    \/ kind = UiResult /\ (msg.name = UiResult \/ (msg.name = InputAck /\ ~msg.accepted))
    \/ kind = Snapshot /\ msg.name \in {Snapshot, SnapshotError}
============================================================================
