---------------------------- MODULE ObserveWait ----------------------------
(***************************************************************************)
(* The observe tool (mcp.rs, observe_wait_json): drain the inbound queue,  *)
(* and when an until-condition was given drain again every 25 ms until one *)
(* of the conditions matches or wait_ms is over.  Several clients may      *)
(* observe one instance.  Between any two locks the simulator's session    *)
(* may push, beat, be replaced or end.                                     *)
(***************************************************************************)
EXTENDS Integers, Sequences, SequencesExt

CONSTANTS
    Observers,   \* observe calls, each made once
    Untils,      \* the until-conditions a call may give
    Events,      \* what the text of a log event may match
    Names,       \* activities
    MaxPage,     \* reader pages are 0..MaxPage
    MaxGen,      \* bound on framebuffer generations
    MaxPushes,   \* bound on the log events pushed
    MaxNoise,    \* bound on the other envelopes queued at a time
    MaxSessions  \* bound on the sessions that register

None   == -1     \* an omitted number
NoName == ""     \* no activity, or an omitted text

Pages == 0..MaxPage

\* An until: a log text was given, a generation, an activity, a page.
UntilTypes == [log : BOOLEAN, generation : {None} \cup 0..MaxGen,
               activity : Names \cup {NoName}, page : {None} \cup Pages]
\* A log event: it contains the log text, enters an activity, saves a page.
EventTypes == [log : BOOLEAN, activity : Names \cup {NoName}, page : {None} \cup Pages]

ASSUME ObserveAssumption ==
    /\ NoName \notin Names
    /\ MaxPage \in Nat /\ MaxGen \in Nat /\ MaxPushes \in Nat /\ MaxNoise \in Nat
    /\ MaxSessions \in Nat
    /\ Untils \subseteq UntilTypes
    /\ Events \subseteq EventTypes

VARIABLES
    session,     \* the session registered under the id, or 0
    sessions,    \* how many sessions have registered
    beat,        \* the instance's last_heartbeat
    queue,       \* the inbound queue: log events, numbered as they were pushed
    pushes,      \* how many log events were pushed
    noise,       \* how many envelopes no condition reads are queued among them
    shown,       \* the session view shows log events
    pc,          \* where a call is
    until,       \* its until-conditions
    mask,        \* the view it drains with
    events,      \* what it has drained
    drained,     \* its first drain is over
    floor,       \* generation_floor
    late,        \* its deadline has passed
    matched,     \* some condition matched
    since,       \* history: the session its match was found in
    echo,        \* the generation it reports
    result       \* how it ended

instanceVars == <<session, sessions, beat, queue, pushes, noise, shown>>
callVars     == <<pc, until, mask, events, drained, floor, late, matched, since, echo, result>>
vars         == <<instanceVars, callVars>>

\* What heartbeat_ui makes of an instance that has sent no heartbeat.
DefaultUi == [generation |-> None, activity |-> NoName, page |-> 0]
Beats     == [generation : {None} \cup 0..MaxGen, activity : Names \cup {NoName}, page : Pages]
Numbered  == [log : BOOLEAN, activity : Names \cup {NoName}, page : {None} \cup Pages,
              seq : 1..MaxPushes]

TypeOK ==
    /\ session \in 0..MaxSessions /\ sessions \in 0..MaxSessions
    /\ beat \in Beats
    /\ queue \in Seq(Numbered)
    /\ pushes \in 0..MaxPushes
    /\ noise \in 0..MaxNoise
    /\ shown \in BOOLEAN
    /\ pc \in [Observers -> {"idle", "resolve", "read_mask", "drain", "floor", "check",
                             "report", "done"}]
    /\ until \in [Observers -> UntilTypes]
    /\ mask \in [Observers -> BOOLEAN]
    /\ events \in [Observers -> Seq(Numbered)]
    /\ drained \in [Observers -> BOOLEAN]
    /\ floor \in [Observers -> {None} \cup 0..MaxGen]
    /\ late \in [Observers -> BOOLEAN]
    /\ matched \in [Observers -> BOOLEAN]
    /\ since \in [Observers -> 0..MaxSessions]
    /\ echo \in [Observers -> {None} \cup 0..MaxGen]
    /\ result \in [Observers -> {"none", "error", "matched", "timedOut", "events"}]

Init ==
    /\ session = 0 /\ sessions = 0
    /\ beat = DefaultUi
    /\ queue = <<>> /\ pushes = 0 /\ noise = 0
    /\ shown = TRUE
    /\ pc = [c \in Observers |-> "idle"]
    /\ until \in [Observers -> Untils]
    /\ mask = [c \in Observers |-> TRUE]
    /\ events = [c \in Observers |-> <<>>]
    /\ drained = [c \in Observers |-> FALSE]
    /\ floor = [c \in Observers |-> None]
    /\ late = [c \in Observers |-> FALSE]
    /\ matched = [c \in Observers |-> FALSE]
    /\ since = [c \in Observers |-> 0]
    /\ echo = [c \in Observers |-> None]
    /\ result = [c \in Observers |-> "none"]

----------------------------------------------------------------------------
(* The instance under observation, as InstanceMap changes it.              *)

\* Mutant of insert: the counter is advanced once more before it is read.
insert_skipping ==
    /\ sessions < MaxSessions
    /\ sessions' = sessions + 1 /\ session' = sessions + 2
    /\ beat' = DefaultUi /\ queue' = <<>> /\ noise' = 0 /\ shown' = TRUE
    /\ UNCHANGED <<pushes, callVars>>

\* A session registers, replacing the one before it: no heartbeat, no events,
\* no mask.
insert ==
    /\ sessions < MaxSessions
    /\ sessions' = sessions + 1 /\ session' = sessions + 1
    /\ beat' = DefaultUi /\ queue' = <<>> /\ noise' = 0 /\ shown' = TRUE
    /\ UNCHANGED <<pushes, callVars>>

\* The session ends.
remove_if ==
    /\ session # 0
    /\ session' = 0
    /\ beat' = DefaultUi /\ queue' = <<>> /\ noise' = 0 /\ shown' = TRUE
    /\ UNCHANGED <<sessions, pushes, callVars>>

\* A log event is queued, if the view shows it.
push_inbound(e) ==
    /\ session # 0 /\ pushes < MaxPushes
    /\ pushes' = pushes + 1
    /\ queue' = IF shown
                THEN Append(queue, [log |-> e.log, activity |-> e.activity, page |-> e.page,
                                    seq |-> pushes + 1])
                ELSE queue
    /\ UNCHANGED <<session, sessions, beat, noise, shown, callVars>>

\* An envelope that no condition reads is queued: a heartbeat, an InputAck, a
\* snapshot.  There is no end to these; a full queue refuses more.
push_other ==
    /\ session # 0 /\ noise < MaxNoise
    /\ noise' = noise + 1
    /\ UNCHANGED <<session, sessions, beat, queue, pushes, shown, callVars>>

\* A heartbeat; a simulator's framebuffer generation does not decrease.
set_heartbeat(b) ==
    /\ session # 0
    /\ b.generation >= beat.generation /\ b.generation # None
    /\ beat' = b
    /\ UNCHANGED <<session, sessions, queue, pushes, noise, shown, callVars>>

\* Someone sets the session view to show or to hide log events.
set_read_mask ==
    /\ session # 0
    /\ shown' = ~shown
    /\ UNCHANGED <<session, sessions, beat, queue, pushes, noise, callVars>>

----------------------------------------------------------------------------
(* The call.                                                               *)

Goto(c, step) == pc' = [pc EXCEPT ![c] = step]

Waiting(u) ==
    u.log \/ u.generation # None \/ u.activity # NoName \/ u.page # None

\* Mutant of observe_until_matched: the generation asked for is enough.
observe_until_reached(u, min, es, ui) ==
    \/ ~Waiting(u)
    \/ u.log /\ \E e \in ToSet(es) : e.log
    \/ min # None /\ ui.generation >= min
    \/ u.activity # NoName /\ (ui.activity = u.activity
                               \/ \E e \in ToSet(es) : e.activity = u.activity)
    \/ u.page # None /\ (ui.page = u.page \/ \E e \in ToSet(es) : e.page = u.page)

\* Some condition that was given is met by the drained events or the
\* heartbeat; with no condition given there is nothing to miss.
observe_until_matched(u, min, es, ui) ==
    \/ ~Waiting(u)
    \/ u.log /\ \E e \in ToSet(es) : e.log
    \/ min # None /\ ui.generation > min
    \/ u.activity # NoName /\ (ui.activity = u.activity
                               \/ \E e \in ToSet(es) : e.activity = u.activity)
    \/ u.page # None /\ (ui.page = u.page \/ \E e \in ToSet(es) : e.page = u.page)

observe(c) ==
    /\ pc[c] = "idle"
    /\ Goto(c, "resolve")
    /\ UNCHANGED <<instanceVars, until, mask, events, drained, floor, late, matched, since,
                   echo, result>>

\* drain_observe: the instance must be connected, or the call fails and what
\* it has drained so far is gone;
resolve(c) ==
    /\ pc[c] = "resolve"
    /\ \/ session # 0 /\ Goto(c, "read_mask") /\ UNCHANGED result
       \/ /\ session = 0
          /\ Goto(c, "done")
          /\ result' = [result EXCEPT ![c] = "error"]
    /\ UNCHANGED <<instanceVars, until, mask, events, drained, floor, late, matched, since,
                   echo>>

\* it reads the view, showing everything if the instance is gone again;
read_mask(c) ==
    /\ pc[c] = "read_mask"
    /\ mask' = [mask EXCEPT ![c] = session # 0 => shown]
    /\ Goto(c, "drain")
    /\ UNCHANGED <<instanceVars, until, events, drained, floor, late, matched, since, echo,
                   result>>

\* Mutant of try_recv_inbound: the event is read and stays in the queue.
peek_inbound(c) ==
    /\ pc[c] = "drain" /\ queue # <<>>
    /\ events' = [events EXCEPT ![c] = IF mask[c] THEN Append(@, Head(queue)) ELSE @]
    /\ UNCHANGED <<instanceVars, pc, until, mask, drained, floor, late, matched, since,
                   echo, result>>

\* it pops event after event, throwing away those the view hides,
try_recv_inbound(c) ==
    /\ pc[c] = "drain" /\ queue # <<>>
    /\ queue' = Tail(queue)
    /\ events' = [events EXCEPT ![c] = IF mask[c] THEN Append(@, Head(queue)) ELSE @]
    /\ UNCHANGED <<session, sessions, beat, pushes, noise, shown, pc, until, mask, drained,
                   floor, late, matched, since, echo, result>>

\* and the others, of which nothing is kept here,
try_recv_other(c) ==
    /\ pc[c] = "drain" /\ noise > 0
    /\ noise' = noise - 1
    /\ UNCHANGED <<session, sessions, beat, queue, pushes, shown, callVars>>

\* until the queue is empty or gone; it looks at no deadline.
drain_done(c) ==
    /\ pc[c] = "drain" /\ queue = <<>> /\ noise = 0
    /\ drained' = [drained EXCEPT ![c] = TRUE]
    /\ Goto(c, IF drained[c] THEN "check" ELSE "floor")
    /\ UNCHANGED <<instanceVars, until, mask, events, floor, late, matched, since, echo,
                   result>>

\* until_generation_gt 0 stands for the generation now, 0 before a heartbeat.
generation_floor(c) ==
    /\ pc[c] = "floor"
    /\ floor' = [floor EXCEPT ![c] =
                  IF until[c].generation # 0 THEN until[c].generation
                  ELSE IF beat.generation = None THEN 0 ELSE beat.generation]
    /\ Goto(c, "check")
    /\ UNCHANGED <<instanceVars, until, mask, events, drained, late, matched, since, echo,
                   result>>

\* Mutant of check: a call that waits for a condition ignores its deadline.
check_no_deadline(c) ==
    LET hit == observe_until_matched(until[c], floor[c], events[c], beat)
    IN  /\ pc[c] = "check"
        /\ matched' = [matched EXCEPT ![c] = hit]
        /\ since' = [since EXCEPT ![c] = session]
        /\ Goto(c, IF (IF Waiting(until[c]) THEN hit ELSE late[c]) THEN "report" ELSE "resolve")
        /\ UNCHANGED <<instanceVars, until, mask, events, drained, floor, late, echo, result>>

\* One turn of the loop: answer, or sleep and drain again.
check(c) ==
    LET hit == observe_until_matched(until[c], floor[c], events[c], beat)
    IN  /\ pc[c] = "check"
        /\ matched' = [matched EXCEPT ![c] = hit]
        /\ since' = [since EXCEPT ![c] = session]
        /\ Goto(c, IF late[c] \/ (Waiting(until[c]) /\ hit) THEN "report" ELSE "resolve")
        /\ UNCHANGED <<instanceVars, until, mask, events, drained, floor, late, echo, result>>

\* observe_result reads the heartbeat once more for the echo.
observe_result(c) ==
    /\ pc[c] = "report"
    /\ echo' = [echo EXCEPT ![c] = beat.generation]
    /\ result' = [result EXCEPT ![c] =
                   IF ~Waiting(until[c]) THEN "events"
                   ELSE IF matched[c] THEN "matched" ELSE "timedOut"]
    /\ since' = [since EXCEPT ![c] = IF session = @ THEN @ ELSE 0]
    /\ Goto(c, "done")
    /\ UNCHANGED <<instanceVars, until, mask, events, drained, floor, late, matched>>

\* The deadline passes; with wait_ms 0 it has from the start.
tick(c) ==
    /\ pc[c] # "done" /\ ~late[c]
    /\ late' = [late EXCEPT ![c] = TRUE]
    /\ UNCHANGED <<instanceVars, pc, until, mask, events, drained, floor, matched, since,
                   echo, result>>

Call(c) ==
    \/ resolve(c) \/ read_mask(c) \/ try_recv_inbound(c) \/ try_recv_other(c)
    \/ drain_done(c) \/ generation_floor(c) \/ check(c) \/ observe_result(c)

Next ==
    \/ insert \/ remove_if \/ set_read_mask \/ push_other
    \/ \E e \in Events : push_inbound(e)
    \/ \E b \in Beats : set_heartbeat(b)
    \/ \E c \in Observers : observe(c) \/ Call(c) \/ tick(c)

Spec == Init /\ [][Next]_vars

\* The runtime polls the call and time passes.
Fairness == \A c \in Observers : WF_vars(Call(c)) /\ WF_vars(tick(c))
FairSpec == Spec /\ Fairness

----------------------------------------------------------------------------
\* Clients that observe one instance share its events: none is given to two
\* calls or to one call twice, and each call has them in the order they were
\* pushed, across all its drains and across sessions.
EventsOnceInOrder ==
    /\ \A c \in Observers : \A i, j \in DOMAIN events[c] :
          i < j => events[c][i].seq < events[c][j].seq
    /\ \A c, d \in Observers : \A e \in ToSet(events[c]), f \in ToSet(events[d]) :
          c # d => e.seq # f.seq

\* A call that waits only for a generation and reports a match echoes one that
\* is past its floor, unless the session changed before the report: the
\* heartbeat read for the echo is no older than the one that matched.
EchoCoversMatch ==
    \A c \in Observers :
        /\ result[c] = "matched" /\ since[c] # 0
        /\ until[c] = [log |-> FALSE, generation |-> until[c].generation,
                       activity |-> NoName, page |-> None]
        => echo[c] > floor[c]

\* An observe waits for nothing but the queue: whatever its condition, and
\* whichever sessions come and go, it ends, unless from some time on its drain
\* never finds the queue empty: drain_observe looks at no deadline, so a
\* simulator that refills the queue as fast holds the call past wait_ms.
ObserveEnds ==
    \A c \in Observers : pc[c] # "idle" ~> (pc[c] = "done" \/ [](pc[c] = "drain"))

=============================================================================
