------------------------------ MODULE EventLog ------------------------------
(***************************************************************************)
(* What an observer of one simulator may rely on, whatever the queue that  *)
(* holds the events does: events are numbered as they arrive, the observer *)
(* sees them in that order and at most once, the backlog is bounded, an    *)
(* event may be refused on arrival, and once it is held only an event that *)
(* is not Durable may be given up.                                         *)
(***************************************************************************)
EXTENDS Naturals

CONSTANTS
    Durable(_),   \* the events that are never given up once held
    Bound,        \* the largest backlog
    Size(_)       \* how many events a set holds

VARIABLES
    held,         \* the set of numbered events waiting for the observer
    arrived,      \* how many events have arrived
    seen          \* the number of the last event the observer was given

logVars == <<held, arrived, seen>>

Init == held = {} /\ arrived = 0 /\ seen = 0

\* An event arrives and is refused, or is held while some others are given up.
Arrive ==
    /\ arrived' = arrived + 1
    /\ UNCHANGED seen
    /\ \/ UNCHANGED held
       \/ \E lost \in SUBSET held, new \in held' :
            /\ \A e \in lost : ~Durable(e)
            /\ new.seq = arrived + 1
            /\ held' = (held \ lost) \cup {new}
            /\ Size(held') <= Bound

\* The observer is given the earliest event held.
Observe ==
    \E e \in held :
        /\ \A f \in held : e.seq <= f.seq
        /\ held' = held \ {e}
        /\ seen' = e.seq
        /\ seen' > seen
        /\ UNCHANGED arrived

Next == Arrive \/ Observe

Spec == Init /\ [][Next]_logVars
=============================================================================
