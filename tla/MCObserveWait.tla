--------------------------- MODULE MCObserveWait ---------------------------
(***************************************************************************)
(* Small instances of ObserveWait.                                         *)
(***************************************************************************)
EXTENDS ObserveWait, TLC

ObserverSymmetry == Permutations(Observers)

Until(l, g, a, p) == [log |-> l, generation |-> g, activity |-> a, page |-> p]
Event(l, a, p)    == [log |-> l, activity |-> a, page |-> p]

NoNames    == {}
Activities == {"Home"}

\* Two clients: one drains once, one waits for a log line.
DrainUntils == {Until(FALSE, None, NoName, None), Until(TRUE, None, NoName, None)}
DrainEvents == {Event(TRUE, NoName, None), Event(FALSE, NoName, None)}

\* Every condition on its own, and a generation beside a page.
AllUntils == {Until(FALSE, 0, NoName, None), Until(FALSE, 1, NoName, None),
              Until(FALSE, None, "Home", None), Until(FALSE, None, NoName, 1),
              Until(TRUE, 0, NoName, 1)}
AllEvents == {Event(TRUE, NoName, None), Event(FALSE, "Home", None), Event(FALSE, NoName, 1)}

=============================================================================
