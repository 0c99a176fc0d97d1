------------------------- MODULE ObserveWaitProofs -------------------------
(***************************************************************************)
(* What holds of ObserveWait for every number of clients, events and       *)
(* sessions: the numbers of the events tell who has drained what, and the  *)
(* session a match was found in tells whether the heartbeat can have gone  *)
(* back since.                                                             *)
(***************************************************************************)
EXTENDS ObserveWait, TLAPS

\* The queue holds events in the order they were pushed, and every event that
\* was drained was pushed before every event still queued.
Numbering ==
    /\ \A i \in DOMAIN queue : queue[i].seq <= pushes
    /\ \A i, j \in DOMAIN queue : i < j => queue[i].seq < queue[j].seq
    /\ \A c \in Observers : \A i \in DOMAIN events[c] : events[c][i].seq <= pushes
    /\ \A c \in Observers : \A i \in DOMAIN events[c] : \A j \in DOMAIN queue :
          events[c][i].seq < queue[j].seq

\* EventsOnceInOrder by positions.
Distinct ==
    /\ \A c \in Observers : \A i, j \in DOMAIN events[c] :
          i < j => events[c][i].seq < events[c][j].seq
    /\ \A c, d \in Observers : \A i \in DOMAIN events[c], j \in DOMAIN events[d] :
          c # d => events[c][i].seq # events[d][j].seq

OnlyGeneration(u) ==
    u = [log |-> FALSE, generation |-> u.generation, activity |-> NoName, page |-> None]

\* Between the match and the report the heartbeat of the session that matched
\* stays past the floor, and no session is numbered twice.
Past ==
    /\ session <= sessions
    /\ \A c \in Observers :
        /\ since[c] <= sessions
        /\ result[c] # "none" => pc[c] = "done"
        /\ /\ pc[c] = "report" /\ matched[c] /\ Waiting(until[c])
           /\ OnlyGeneration(until[c]) /\ since[c] = session /\ since[c] # 0
           => beat.generation > floor[c]

IInv == TypeOK /\ Numbering /\ Distinct /\ EchoCoversMatch /\ Past

----------------------------------------------------------------------------
(* Sequences and conditions.                                               *)

\* Where the elements of a sequence come from after a push and after a pop.
LEMMA Pushed ==
    ASSUME NEW S, NEW s \in Seq(S), NEW x \in S
    PROVE  /\ Append(s, x) \in Seq(S)
           /\ DOMAIN s = 1..Len(s) /\ Len(s) \in Nat
           /\ DOMAIN Append(s, x) = 1..Len(s) + 1
           /\ \A i \in 1..Len(s) : Append(s, x)[i] = s[i]
           /\ Append(s, x)[Len(s) + 1] = x
           /\ \A i \in DOMAIN s : s[i] \in S
OBVIOUS

\* What popping the head of a sequence leaves (try_recv_inbound).
LEMMA Popped ==
    ASSUME NEW S, NEW s \in Seq(S), s # <<>>
    PROVE  /\ Tail(s) \in Seq(S) /\ Head(s) \in S /\ Head(s) = s[1]
           /\ 1 \in DOMAIN s
           /\ \A j \in DOMAIN Tail(s) : j + 1 \in DOMAIN s /\ Tail(s)[j] = s[j + 1]
           /\ DOMAIN Tail(s) \subseteq Nat /\ \A j \in DOMAIN Tail(s) : 1 < j + 1
OBVIOUS

\* A condition on the generation alone matches when the heartbeat is past the
\* floor, and in no other way (observe_until_matched).
LEMMA GenerationMatch ==
    ASSUME NEW u \in UntilTypes, NEW min, NEW es, NEW ui,
           OnlyGeneration(u), Waiting(u), observe_until_matched(u, min, es, ui)
    PROVE  ui.generation > min
BY DEF OnlyGeneration, observe_until_matched, UntilTypes

----------------------------------------------------------------------------
(* Types.                                                                  *)

LEMMA InitTypes == Init => TypeOK
<1>1. DefaultUi \in Beats
  BY ObserveAssumption DEF DefaultUi, Beats, Pages, None
<1>2. ASSUME Init PROVE /\ queue \in Seq(Numbered)
                        /\ events \in [Observers -> Seq(Numbered)]
                        /\ until \in [Observers -> UntilTypes]
                        /\ since \in [Observers -> 0..MaxSessions]
                        /\ session \in 0..MaxSessions /\ sessions \in 0..MaxSessions
                        /\ pushes \in 0..MaxPushes /\ noise \in 0..MaxNoise
  BY <1>2, ObserveAssumption DEF Init
<1> QED BY <1>1, <1>2 DEF Init, TypeOK

LEMMA NextTypes == TypeOK /\ [Next]_vars => TypeOK'
<1> SUFFICES ASSUME TypeOK, [Next]_vars PROVE TypeOK'
  OBVIOUS
<1>d. DefaultUi \in Beats
  BY ObserveAssumption DEF DefaultUi, Beats, Pages, None
<1>1. CASE insert
  BY <1>1, <1>d, ObserveAssumption DEF TypeOK, insert, callVars
<1>2. CASE remove_if
  BY <1>2, <1>d, ObserveAssumption DEF TypeOK, remove_if, callVars
<1>3. CASE set_read_mask
  BY <1>3 DEF TypeOK, set_read_mask, callVars
<1>4. ASSUME NEW e \in Events, push_inbound(e) PROVE TypeOK'
  <2> DEFINE x == [log |-> e.log, activity |-> e.activity, page |-> e.page, seq |-> pushes + 1]
  <2>1. pushes + 1 \in 1..MaxPushes
    BY <1>4, ObserveAssumption DEF TypeOK, push_inbound
  <2>2. x \in Numbered
    BY <2>1, ObserveAssumption DEF Numbered, EventTypes
  <2>3. queue' \in Seq(Numbered)
    BY <1>4, <2>2, Pushed DEF TypeOK, push_inbound
  <2> QED BY <1>4, <2>1, <2>3, ObserveAssumption DEF TypeOK, push_inbound, callVars
<1>5. ASSUME NEW b \in Beats, set_heartbeat(b) PROVE TypeOK'
  BY <1>5 DEF TypeOK, set_heartbeat, callVars
<1>6. ASSUME NEW c \in Observers, observe(c) PROVE TypeOK'
  BY <1>6 DEF TypeOK, observe, Goto, instanceVars
<1>7. ASSUME NEW c \in Observers, resolve(c) PROVE TypeOK'
  BY <1>7 DEF TypeOK, resolve, Goto, instanceVars
<1>8. ASSUME NEW c \in Observers, read_mask(c) PROVE TypeOK'
  <2>1. (session # 0 => shown) \in BOOLEAN
    OBVIOUS
  <2>2. mask' \in [Observers -> BOOLEAN]
    BY <1>8, <2>1 DEF TypeOK, read_mask
  <2> QED BY <1>8, <2>2 DEF TypeOK, read_mask, Goto, instanceVars
<1>9. ASSUME NEW c \in Observers, try_recv_inbound(c) PROVE TypeOK'
  <2>1. Head(queue) \in Numbered /\ Tail(queue) \in Seq(Numbered)
    BY <1>9, Popped DEF TypeOK, try_recv_inbound
  <2>2. Append(events[c], Head(queue)) \in Seq(Numbered)
    BY <2>1, Pushed DEF TypeOK
  <2>3. events' \in [Observers -> Seq(Numbered)] /\ queue' \in Seq(Numbered)
    BY <1>9, <2>1, <2>2 DEF TypeOK, try_recv_inbound
  <2> QED BY <1>9, <2>3 DEF TypeOK, try_recv_inbound
<1>10. ASSUME NEW c \in Observers, drain_done(c) PROVE TypeOK'
  BY <1>10 DEF TypeOK, drain_done, Goto, instanceVars
<1>11. ASSUME NEW c \in Observers, generation_floor(c) PROVE TypeOK'
  <2>1. until[c].generation \in {None} \cup 0..MaxGen /\ beat.generation \in {None} \cup 0..MaxGen
    BY DEF TypeOK, UntilTypes, Beats
  <2>2. 0 \in 0..MaxGen
    BY ObserveAssumption
  <2>3. floor' \in [Observers -> {None} \cup 0..MaxGen]
    BY <1>11, <2>1, <2>2 DEF TypeOK, generation_floor
  <2> QED BY <1>11, <2>3 DEF TypeOK, generation_floor, Goto, instanceVars
<1>12. ASSUME NEW c \in Observers, check(c) PROVE TypeOK'
  <2>1. observe_until_matched(until[c], floor[c], events[c], beat) \in BOOLEAN
    BY DEF observe_until_matched, Waiting
  <2>2. matched' \in [Observers -> BOOLEAN]
    BY <1>12, <2>1 DEF TypeOK, check
  <2>3. since' \in [Observers -> 0..MaxSessions]
    BY <1>12 DEF TypeOK, check
  <2>4. \E b \in BOOLEAN : pc' = [pc EXCEPT ![c] = IF b THEN "report" ELSE "resolve"]
    BY <1>12 DEF check, Goto
  <2>5. pc' \in [Observers -> {"idle", "resolve", "read_mask", "drain", "floor", "check",
                               "report", "done"}]
    BY <2>4 DEF TypeOK
  <2> QED BY <1>12, <2>2, <2>3, <2>5 DEF TypeOK, check, instanceVars
<1>13. ASSUME NEW c \in Observers, observe_result(c) PROVE TypeOK'
  <2>1. since' \in [Observers -> 0..MaxSessions]
    BY <1>13, ObserveAssumption DEF TypeOK, observe_result
  <2>2. echo' \in [Observers -> {None} \cup 0..MaxGen]
    BY <1>13 DEF TypeOK, observe_result, Beats
  <2>3. result' \in [Observers -> {"none", "error", "matched", "timedOut", "events"}]
    BY <1>13 DEF TypeOK, observe_result
  <2> QED BY <1>13, <2>1, <2>2, <2>3 DEF TypeOK, observe_result, Goto, instanceVars
<1>14. ASSUME NEW c \in Observers, tick(c) PROVE TypeOK'
  BY <1>14 DEF TypeOK, tick, instanceVars
<1>15. CASE push_other
  <2>1. noise' \in 0..MaxNoise
    BY <1>15, ObserveAssumption DEF TypeOK, push_other
  <2> QED BY <1>15, <2>1 DEF TypeOK, push_other, callVars
<1>16. ASSUME NEW c \in Observers, try_recv_other(c) PROVE TypeOK'
  <2>1. noise' \in 0..MaxNoise
    BY <1>16, ObserveAssumption DEF TypeOK, try_recv_other
  <2> QED BY <1>16, <2>1 DEF TypeOK, try_recv_other, callVars
<1>17. CASE UNCHANGED vars
  BY <1>17 DEF TypeOK, vars, instanceVars, callVars
<1> QED
  BY <1>1, <1>2, <1>3, <1>4, <1>5, <1>6, <1>7, <1>8, <1>9, <1>10, <1>11, <1>12, <1>13, <1>14,
     <1>15, <1>16, <1>17 DEF Next, Call

----------------------------------------------------------------------------
(* Who has drained what.                                                   *)

\* A step changes the queue and what the calls hold only by a session's begin
\* or end, a push, or one call's pop.
LEMMA DrainSteps ==
    ASSUME TypeOK, [Next]_vars
    PROVE  \/ queue' = <<>> /\ UNCHANGED <<pushes, events>>
           \/ \E e \in Events : push_inbound(e)
           \/ \E c \in Observers : try_recv_inbound(c)
           \/ UNCHANGED <<queue, pushes, events>>
<1>1. CASE insert \/ remove_if
  BY <1>1 DEF insert, remove_if, callVars
<1>2. CASE set_read_mask \/ push_other \/ UNCHANGED vars
  BY <1>2 DEF set_read_mask, push_other, vars, instanceVars, callVars
<1>3. ASSUME NEW b \in Beats, set_heartbeat(b) PROVE UNCHANGED <<queue, pushes, events>>
  BY <1>3 DEF set_heartbeat, callVars
<1>4. ASSUME NEW c \in Observers,
             observe(c) \/ resolve(c) \/ read_mask(c) \/ try_recv_other(c) \/ drain_done(c)
               \/ generation_floor(c) \/ check(c) \/ observe_result(c) \/ tick(c)
      PROVE  UNCHANGED <<queue, pushes, events>>
  BY <1>4 DEF observe, resolve, read_mask, try_recv_other, drain_done, generation_floor,
              check, observe_result, tick, instanceVars, callVars
<1> QED BY <1>1, <1>2, <1>3, <1>4 DEF Next, Call

\* Draining takes what is numbered above everything drained before, so nothing
\* is given out twice (push_inbound, try_recv_inbound).
LEMMA DrainStep ==
    ASSUME TypeOK, Numbering, Distinct, [Next]_vars
    PROVE  Numbering' /\ Distinct'
<1>1. CASE queue' = <<>> /\ UNCHANGED <<pushes, events>>
  BY <1>1 DEF Numbering, Distinct
<1>2. CASE UNCHANGED <<queue, pushes, events>>
  BY <1>2 DEF Numbering, Distinct
<1>3. ASSUME NEW e \in Events, push_inbound(e) PROVE Numbering' /\ Distinct'
  <2> DEFINE x == [log |-> e.log, activity |-> e.activity, page |-> e.page, seq |-> pushes + 1]
             n == Len(queue)
  <2>1. /\ pushes \in Nat /\ pushes' = pushes + 1 /\ events' = events
        /\ pushes + 1 \in 1..MaxPushes
        /\ queue' = IF shown THEN Append(queue, x) ELSE queue
    BY <1>3, ObserveAssumption DEF TypeOK, push_inbound, callVars
  <2>2. x \in Numbered
    BY <2>1, ObserveAssumption DEF Numbered, EventTypes
  <2>3. /\ \A i \in DOMAIN queue : queue[i] \in Numbered /\ queue[i].seq \in Nat
        /\ \A c \in Observers : \A i \in DOMAIN events[c] :
              events[c][i] \in Numbered /\ events[c][i].seq \in Nat
    <3>1. \A y \in Numbered : y.seq \in Nat
      BY ObserveAssumption DEF Numbered
    <3> QED BY <3>1, Pushed DEF TypeOK
  <2>4. Distinct'
    BY <2>1 DEF Distinct
  <2>5. CASE ~shown
    <3>1. queue' = queue
      BY <2>1, <2>5
    <3>2. /\ \A i \in DOMAIN queue : queue[i].seq <= pushes'
          /\ \A c \in Observers : \A i \in DOMAIN events[c] : events[c][i].seq <= pushes'
      BY <2>1, <2>3 DEF Numbering
    <3> QED BY <2>1, <2>4, <3>1, <3>2 DEF Numbering
  <2>6. CASE shown
    <3>1. /\ queue' = Append(queue, x) /\ n \in Nat
          /\ DOMAIN queue = 1..n /\ DOMAIN queue' = 1..n + 1
          /\ \A i \in 1..n : queue'[i] = queue[i]
          /\ queue'[n + 1] = x /\ x.seq = pushes + 1
      BY <2>1, <2>2, <2>6, Pushed DEF TypeOK
    <3> HIDE DEF n, x
    <3>2. \A i \in DOMAIN queue' : \/ i \in DOMAIN queue /\ queue'[i] = queue[i]
                                   \/ i = n + 1 /\ queue'[i].seq = pushes + 1
      BY <3>1
    <3>3. \A i \in DOMAIN queue' : queue'[i].seq <= pushes'
      BY <2>1, <2>3, <3>2 DEF Numbering
    <3>4. \A i, j \in DOMAIN queue' : i < j => queue'[i].seq < queue'[j].seq
      <4> SUFFICES ASSUME NEW i \in DOMAIN queue', NEW j \in DOMAIN queue', i < j
                   PROVE  queue'[i].seq < queue'[j].seq
        OBVIOUS
      <4>1. i \in DOMAIN queue /\ queue'[i] = queue[i]
        BY <3>1
      <4>2. CASE j \in DOMAIN queue
        BY <3>1, <4>1, <4>2 DEF Numbering
      <4>3. CASE j \notin DOMAIN queue
        BY <2>1, <2>3, <3>2, <4>1, <4>3 DEF Numbering
      <4> QED BY <4>2, <4>3
    <3>5. \A c \in Observers : \A i \in DOMAIN events[c] : events[c][i].seq <= pushes'
      BY <2>1, <2>3 DEF Numbering
    <3>6. \A c \in Observers : \A i \in DOMAIN events[c] : \A j \in DOMAIN queue' :
              events[c][i].seq < queue'[j].seq
      BY <2>1, <2>3, <3>2 DEF Numbering
    <3> QED BY <2>1, <2>4, <3>3, <3>4, <3>5, <3>6 DEF Numbering
  <2> QED BY <2>5, <2>6
<1>4. ASSUME NEW c \in Observers, try_recv_inbound(c) PROVE Numbering' /\ Distinct'
  <2> DEFINE h == queue[1]
             n == Len(events[c])
  <2>1. /\ pushes' = pushes /\ queue # <<>> /\ queue' = Tail(queue)
        /\ events' = [events EXCEPT ![c] = IF mask[c] THEN Append(@, Head(queue)) ELSE @]
    BY <1>4 DEF try_recv_inbound
  <2>2. /\ h \in Numbered /\ h = Head(queue) /\ 1 \in DOMAIN queue
        /\ \A j \in DOMAIN queue' : j + 1 \in DOMAIN queue /\ queue'[j] = queue[j + 1]
                                    /\ j \in Nat /\ 1 < j + 1
    BY <2>1, Popped DEF TypeOK
  <2>3. /\ \A i \in DOMAIN queue : queue[i].seq \in Nat
        /\ \A d \in Observers : \A i \in DOMAIN events[d] : events[d][i].seq \in Nat
    <3>1. \A y \in Numbered : y.seq \in Nat
      BY ObserveAssumption DEF Numbered
    <3> QED BY <3>1, Pushed DEF TypeOK
  <2>4. /\ events[c] \in Seq(Numbered) /\ n \in Nat /\ DOMAIN events[c] = 1..n
        /\ DOMAIN Append(events[c], h) = 1..n + 1
        /\ \A i \in 1..n : Append(events[c], h)[i] = events[c][i]
        /\ Append(events[c], h)[n + 1] = h
    BY <2>2, Pushed DEF TypeOK
  <2>5. \A d \in Observers : d # c => events'[d] = events[d]
    BY <2>1 DEF TypeOK
  <2>6. events'[c] = IF mask[c] THEN Append(events[c], h) ELSE events[c]
    BY <2>1, <2>2 DEF TypeOK
  <2> HIDE DEF n, h
  <2>7. \A d \in Observers : \A i \in DOMAIN events'[d] :
            \/ i \in DOMAIN events[d] /\ events'[d][i] = events[d][i]
            \/ d = c /\ i = n + 1 /\ events'[d][i] = h
    <3>1. \A i \in DOMAIN events'[c] : \/ i \in DOMAIN events[c] /\ events'[c][i] = events[c][i]
                                       \/ i = n + 1 /\ events'[c][i] = h
      <4>1. CASE mask[c]
        <5>1. events'[c] = Append(events[c], h)
          BY <2>6, <4>1
        <5>2. \A i \in 1..n + 1 : i \in 1..n \/ i = n + 1
          BY <2>4
        <5> QED BY <2>4, <5>1, <5>2
      <4>2. CASE ~mask[c]
        BY <2>6, <4>2
      <4> QED BY <4>1, <4>2
    <3> QED BY <2>5, <3>1
  <2>8. \A j \in DOMAIN queue' : h.seq < queue'[j].seq
    BY <2>2 DEF Numbering, h
  <2>9. /\ \A i \in DOMAIN queue' : queue'[i].seq <= pushes'
        /\ \A i, j \in DOMAIN queue' : i < j => queue'[i].seq < queue'[j].seq
    BY <2>1, <2>2 DEF Numbering
  <2>10. h.seq <= pushes /\ \A d \in Observers : \A i \in DOMAIN events[d] : events[d][i].seq < h.seq
    BY <2>2 DEF Numbering, h
  <2>11. \A d \in Observers : \A i \in DOMAIN events[d] : \A j \in DOMAIN queue' :
            events[d][i].seq < queue'[j].seq
    BY <2>2 DEF Numbering
  <2>12. Numbering'
    <3>1. \A d \in Observers : \A i \in DOMAIN events'[d] : events'[d][i].seq <= pushes'
      BY <2>1, <2>7, <2>10 DEF Numbering
    <3>2. \A d \in Observers : \A i \in DOMAIN events'[d] : \A j \in DOMAIN queue' :
              events'[d][i].seq < queue'[j].seq
      BY <2>7, <2>8, <2>11
    <3> QED BY <2>9, <3>1, <3>2 DEF Numbering
  <2>13. ASSUME NEW d \in Observers, NEW i \in DOMAIN events'[d], NEW j \in DOMAIN events'[d], i < j
         PROVE  events'[d][i].seq < events'[d][j].seq
    <3>1. CASE i \in DOMAIN events[d] /\ j \in DOMAIN events[d]
      BY ZenonT(40), <2>4, <2>5, <2>6, <2>13, <3>1 DEF Distinct
    <3>2. CASE j \notin DOMAIN events[d]
      <4>1. d = c /\ j = n + 1 /\ events'[d][j] = h
        BY <2>7, <3>2
      <4>2. i \in DOMAIN events[d] /\ events'[d][i] = events[d][i]
        BY <2>4, <2>7, <2>13, <4>1
      <4> QED BY <2>10, <4>1, <4>2
    <3>3. CASE i \notin DOMAIN events[d]
      <4>1. d = c /\ i = n + 1 /\ events'[d] \in {Append(events[c], h), events[c]}
        BY <2>6, <2>7, <3>3
      <4> QED BY <2>4, <2>13, <4>1
    <3> QED BY <3>1, <3>2, <3>3
  <2>14. ASSUME NEW a \in Observers, NEW b \in Observers, a # b,
                NEW i \in DOMAIN events'[a], NEW j \in DOMAIN events'[b]
         PROVE  events'[a][i].seq # events'[b][j].seq
    <3>1. CASE i \in DOMAIN events[a] /\ events'[a][i] = events[a][i]
               /\ j \in DOMAIN events[b] /\ events'[b][j] = events[b][j]
      BY <2>14, <3>1 DEF Distinct
    <3>2. h.seq \in Nat
      BY <2>2, <2>3 DEF h
    <3>3. CASE j \in DOMAIN events[b] /\ events'[b][j] = events[b][j] /\ events'[a][i] = h
      BY <2>3, <2>10, <3>2, <3>3
    <3>4. CASE i \in DOMAIN events[a] /\ events'[a][i] = events[a][i] /\ events'[b][j] = h
      BY <2>3, <2>10, <3>2, <3>4
    <3> QED BY <2>7, <2>14, <3>1, <3>3, <3>4
  <2> QED BY <2>12, <2>13, <2>14 DEF Distinct
<1> QED BY <1>1, <1>2, <1>3, <1>4, DrainSteps

\* The positions say what EventsOnceInOrder says of the events themselves.
LEMMA DistinctEvents == Distinct => EventsOnceInOrder
BY DEF Distinct, EventsOnceInOrder, ToSet

----------------------------------------------------------------------------
(* The match and the report.                                               *)

\* The steps of a call that neither match nor report leave what they are about,
\* and a step that does not touch a call leaves all of it.
LEMMA EchoStep ==
    ASSUME TypeOK, TypeOK', EchoCoversMatch, Past, [Next]_vars
    PROVE  EchoCoversMatch' /\ Past'
<1> DEFINE Kept(d) == UNCHANGED <<until[d], floor[d], matched[d], since[d], echo[d], result[d]>>
           Done(d) ==
               /\ since[d] <= sessions
               /\ result[d] # "none" => pc[d] = "done"
               /\ /\ pc[d] = "report" /\ matched[d] /\ Waiting(until[d])
                  /\ OnlyGeneration(until[d]) /\ since[d] = session /\ since[d] # 0
                  => beat.generation > floor[d]
           Echo(d) ==
               /\ result[d] = "matched" /\ since[d] # 0 /\ OnlyGeneration(until[d])
               => echo[d] > floor[d]
<1>e. EchoCoversMatch <=> \A d \in Observers : Echo(d)
  BY DEF EchoCoversMatch, OnlyGeneration
<1>p. Past <=> session <= sessions /\ \A d \in Observers : Done(d)
  BY DEF Past
<1>ep. EchoCoversMatch' <=> \A d \in Observers : Echo(d)'
  BY DEF EchoCoversMatch, OnlyGeneration
<1>pp. Past' <=> session' <= sessions' /\ \A d \in Observers : Done(d)'
  BY DEF Past
<1>n. /\ session \in Int /\ sessions \in Int /\ \A d \in Observers : since[d] \in Int /\ floor[d] \in Int
      /\ beat.generation \in Int
      /\ session' \in Int /\ sessions' \in Int
      /\ \A d \in Observers : since'[d] \in Int
  BY ObserveAssumption DEF TypeOK, Beats, None
<1>k. ASSUME NEW d \in Observers, Kept(d) PROVE Echo(d)'
  BY <1>k, <1>e
<1>q. ASSUME NEW d \in Observers, Kept(d), pc'[d] = pc[d] \/ (pc[d] \notin {"report", "done"} /\ pc'[d] # "report"),
             UNCHANGED <<session, sessions, beat>>
      PROVE  Done(d)'
  BY <1>q, <1>p
<1>1. ASSUME insert \/ remove_if \/ set_read_mask \/ push_other \/ (\E e \in Events : push_inbound(e))
               \/ (\E b \in Beats : set_heartbeat(b)) \/ UNCHANGED vars
      PROVE  EchoCoversMatch' /\ Past'
  <2>1. UNCHANGED callVars
    BY <1>1 DEF insert, remove_if, set_read_mask, push_other, push_inbound, set_heartbeat, vars
  <2>2. \A d \in Observers : Kept(d) /\ pc'[d] = pc[d]
    BY <2>1 DEF callVars
  <2>3. \/ UNCHANGED <<session, sessions, beat>>
        \/ session' = session /\ sessions' = sessions
             /\ beat'.generation \in Int /\ beat'.generation >= beat.generation
        \/ sessions' >= sessions /\ session' <= sessions' /\ (session' = 0 \/ session' > sessions)
    <3>1. CASE insert
      BY <1>n, <3>1 DEF insert
    <3>2. CASE remove_if
      BY <1>n, <1>p, <3>2, ObserveAssumption DEF remove_if, TypeOK
    <3>3. ASSUME NEW b \in Beats, set_heartbeat(b)
          PROVE  session' = session /\ sessions' = sessions
                   /\ beat'.generation \in Int /\ beat'.generation >= beat.generation
      BY <3>3, ObserveAssumption DEF set_heartbeat, Beats, None
    <3>4. ASSUME NEW e \in Events, push_inbound(e) PROVE UNCHANGED <<session, sessions, beat>>
      BY <3>4 DEF push_inbound
    <3>5. CASE set_read_mask \/ push_other \/ UNCHANGED vars
      BY <3>5 DEF set_read_mask, push_other, vars, instanceVars
    <3> QED BY <1>1, <3>1, <3>2, <3>3, <3>4, <3>5
  <2>4. session' <= sessions'
    BY <1>p, <2>3
  <2>5. ASSUME NEW d \in Observers PROVE Done(d)'
    <3>1. CASE UNCHANGED <<session, sessions, beat>>
      BY <1>p, <2>2, <3>1
    <3>2. CASE session' = session /\ sessions' = sessions
                 /\ beat'.generation \in Int /\ beat'.generation >= beat.generation
      <4>1. since'[d] <= sessions' /\ (result'[d] # "none" => pc'[d] = "done")
        BY <1>p, <2>2, <3>2
      <4>2. ASSUME pc'[d] = "report", matched'[d], Waiting(until'[d]), OnlyGeneration(until'[d]),
                   since'[d] = session', since'[d] # 0
            PROVE  beat'.generation > floor'[d]
        <5>1. beat.generation > floor[d]
          BY <1>p, <2>2, <3>2, <4>2
        <5> QED BY <1>n, <2>2, <3>2, <5>1
      <4> QED BY <4>1, <4>2
    <3>3. CASE sessions' >= sessions /\ session' <= sessions' /\ (session' = 0 \/ session' > sessions)
      <4>1. since'[d] <= sessions /\ since'[d] <= sessions'
        BY <1>n, <1>p, <2>2, <3>3
      <4>2. ~(since'[d] = session' /\ since'[d] # 0)
        BY <1>n, <3>3, <4>1
      <4>3. result'[d] # "none" => pc'[d] = "done"
        BY <1>p, <2>2
      <4> QED BY <4>1, <4>2, <4>3
    <3> QED BY <2>3, <3>1, <3>2, <3>3
  <2> QED BY <1>ep, <1>pp, <1>k, <2>2, <2>4, <2>5
<1>2. ASSUME NEW c \in Observers,
             observe(c) \/ read_mask(c) \/ try_recv_inbound(c) \/ try_recv_other(c)
               \/ drain_done(c) \/ tick(c)
      PROVE  EchoCoversMatch' /\ Past'
  <2>1. /\ UNCHANGED <<session, sessions, beat>>
        /\ UNCHANGED <<until, floor, matched, since, echo, result>>
    BY <1>2 DEF observe, read_mask, try_recv_inbound, try_recv_other, drain_done, tick,
                instanceVars, callVars
  <2>2. \A d \in Observers :
            pc'[d] = pc[d] \/ (pc[d] \notin {"report", "done"} /\ pc'[d] # "report")
    <3>1. \/ UNCHANGED pc
          \/ /\ pc[c] \notin {"report", "done"}
             /\ \E step \in {"resolve", "drain", "check", "floor"} : pc' = [pc EXCEPT ![c] = step]
      <4>1. CASE observe(c)
        BY <4>1 DEF observe, Goto
      <4>2. CASE read_mask(c)
        BY <4>2 DEF read_mask, Goto
      <4>3. CASE try_recv_inbound(c) \/ try_recv_other(c) \/ tick(c)
        BY <4>3 DEF try_recv_inbound, try_recv_other, tick, callVars
      <4>4. CASE drain_done(c)
        <5>1. CASE drained[c]
          BY <4>4, <5>1 DEF drain_done, Goto
        <5>2. CASE ~drained[c]
          BY <4>4, <5>2 DEF drain_done, Goto
        <5> QED BY <5>1, <5>2
      <4> QED BY <1>2, <4>1, <4>2, <4>3, <4>4
    <3>2. CASE UNCHANGED pc
      BY <3>2
    <3>3. ASSUME NEW step \in {"resolve", "drain", "check", "floor"}, pc[c] \notin {"report", "done"},
                 pc' = [pc EXCEPT ![c] = step], NEW d \in Observers
          PROVE  pc'[d] = pc[d] \/ (pc[d] \notin {"report", "done"} /\ pc'[d] # "report")
      <4>1. DOMAIN pc = Observers
        BY DEF TypeOK
      <4>2. CASE d = c
        BY <3>3, <4>1, <4>2
      <4>3. CASE d # c
        BY <3>3, <4>1, <4>3
      <4> QED BY <4>2, <4>3
    <3> QED BY <3>1, <3>2, <3>3
  <2> QED BY <1>ep, <1>pp, <1>k, <1>q, <1>p, <2>1, <2>2
<1>3. ASSUME NEW c \in Observers, resolve(c) PROVE EchoCoversMatch' /\ Past'
  <2>1. /\ UNCHANGED <<session, sessions, beat>>
        /\ UNCHANGED <<until, floor, matched, since, echo>>
    BY <1>3 DEF resolve, instanceVars
  <2>2. \A d \in Observers : d # c => Kept(d) /\ pc'[d] = pc[d]
    BY <1>3, <2>1 DEF resolve, Goto, TypeOK
  <2>3. /\ pc'[c] \in {"read_mask", "done"}
        /\ \/ result'[c] = result[c] /\ pc[c] # "done"
           \/ result'[c] = "error" /\ pc'[c] = "done"
    BY <1>3 DEF resolve, Goto, TypeOK
  <2>4. Echo(c)' /\ Done(c)'
    BY <1>e, <1>p, <2>1, <2>3
  <2> QED BY <1>ep, <1>pp, <1>k, <1>q, <1>p, <2>1, <2>2, <2>4
<1>4. ASSUME NEW c \in Observers, generation_floor(c) PROVE EchoCoversMatch' /\ Past'
  <2>1. /\ UNCHANGED <<session, sessions, beat>>
        /\ UNCHANGED <<until, matched, since, echo, result>>
    BY <1>4 DEF generation_floor, instanceVars
  <2>2. \A d \in Observers : d # c => Kept(d) /\ pc'[d] = pc[d]
    BY <1>4, <2>1 DEF generation_floor, Goto, TypeOK
  <2>3. pc[c] = "floor" /\ pc'[c] = "check"
    BY <1>4 DEF generation_floor, Goto, TypeOK
  <2>4. Echo(c)' /\ Done(c)'
    BY <1>e, <1>p, <2>1, <2>3
  <2> QED BY <1>ep, <1>pp, <1>k, <1>q, <1>p, <2>1, <2>2, <2>4
<1>5. ASSUME NEW c \in Observers, check(c) PROVE EchoCoversMatch' /\ Past'
  <2>1. /\ UNCHANGED <<session, sessions, beat>>
        /\ UNCHANGED <<until, floor, events, echo, result>>
    BY <1>5 DEF check, instanceVars
  <2>2. \A d \in Observers : d # c => Kept(d) /\ pc'[d] = pc[d]
    BY <1>5, <2>1 DEF check, Goto, TypeOK
  <2>3. /\ pc[c] = "check" /\ since'[c] = session
        /\ matched'[c] = observe_until_matched(until[c], floor[c], events[c], beat)
    BY <1>5 DEF check, TypeOK
  <2>4. Echo(c)'
    BY <1>p, <2>1, <2>3
  <2>5. until[c] \in UntilTypes
    BY DEF TypeOK
  <2>6. Done(c)'
    <3>1. since'[c] <= sessions' /\ result'[c] = "none"
      BY <1>p, <2>1, <2>3
    <3>2. ASSUME matched'[c], Waiting(until[c]), OnlyGeneration(until[c])
          PROVE  beat.generation > floor[c]
      BY <2>3, <2>5, <3>2, GenerationMatch
    <3> QED BY <2>1, <3>1, <3>2
  <2> QED BY <1>ep, <1>pp, <1>k, <1>q, <1>p, <2>1, <2>2, <2>4, <2>6
<1>6. ASSUME NEW c \in Observers, observe_result(c) PROVE EchoCoversMatch' /\ Past'
  <2>1. /\ UNCHANGED <<session, sessions, beat>>
        /\ UNCHANGED <<until, floor, matched>>
    BY <1>6 DEF observe_result, instanceVars
  <2>2. \A d \in Observers : d # c => Kept(d) /\ pc'[d] = pc[d]
    BY <1>6, <2>1 DEF observe_result, Goto, TypeOK
  <2>3. /\ pc[c] = "report" /\ pc'[c] = "done"
        /\ echo'[c] = beat.generation
        /\ result'[c] = "matched" => Waiting(until[c]) /\ matched[c]
        /\ since'[c] = IF session = since[c] THEN since[c] ELSE 0
    BY <1>6 DEF observe_result, Goto, TypeOK
  <2>4. Echo(c)'
    BY <1>p, <2>1, <2>3
  <2>5. since'[c] <= sessions'
    BY <1>n, <1>p, <2>1, <2>3, ObserveAssumption DEF TypeOK
  <2>6. Done(c)'
    BY <2>3, <2>5
  <2> QED BY <1>ep, <1>pp, <1>k, <1>q, <1>p, <2>1, <2>2, <2>4, <2>6
<1> QED BY <1>1, <1>2, <1>3, <1>4, <1>5, <1>6 DEF Next, Call

----------------------------------------------------------------------------
\* A run starts with nothing drained, nothing matched and no session.
LEMMA InitInv == Init => IInv
<1> SUFFICES ASSUME Init PROVE IInv
  OBVIOUS
<1>1. Numbering /\ Distinct
  BY DEF Init, Numbering, Distinct
<1>2. EchoCoversMatch /\ Past
  BY DEF Init, EchoCoversMatch, Past
<1> QED BY <1>1, <1>2, InitTypes DEF IInv

\* The numbering and the report invariant hold throughout.
THEOREM Invariance == Spec => []IInv
<1>1. IInv /\ [Next]_vars => IInv'
  BY NextTypes, DrainStep, EchoStep DEF IInv
<1> QED BY <1>1, InitInv, PTL DEF Spec

\* TypeOK: the tool keeps its state and the instance's well formed, at every
\* bound on events, sessions and generations.
THEOREM TypeCorrect == Spec => []TypeOK
<1>1. IInv => TypeOK
  BY DEF IInv
<1> QED BY <1>1, Invariance, PTL

\* EventsOnceInOrder: however many clients observe one instance, and however
\* their drains interleave with pushes and with sessions that come and go, no
\* event is given out twice and each call has its events in push order.
THEOREM SharedOnce == Spec => []EventsOnceInOrder
<1>1. IInv => EventsOnceInOrder
  BY DistinctEvents DEF IInv
<1> QED BY <1>1, Invariance, PTL

\* EchoCoversMatch: the generation observe_result echoes for a match is past
\* the floor the match was measured against, unless the session changed.
THEOREM EchoPastFloor == Spec => []EchoCoversMatch
<1>1. IInv => EchoCoversMatch
  BY DEF IInv
<1> QED BY <1>1, Invariance, PTL

=============================================================================
