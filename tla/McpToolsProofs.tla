--------------------------- MODULE McpToolsProofs ---------------------------
(***************************************************************************)
(* What holds of McpTools for every set of calls, instances and steps: the *)
(* requests of a call are sent one after the other, each on the stream     *)
(* that had the instance then, and what a call reports of a step rests on  *)
(* what the simulator made of it.                                          *)
(***************************************************************************)
EXTENDS McpTools, TLAPS

\* A registered stream has its id for good, and a request that was sent is on
\* the stream of the instance its call asked for.
Registered ==
    /\ \A id \in Ids : owner[id] # 0 => owner[id] < nextToken /\ sid[owner[id]] = id
    /\ \A r \in Requests : stream[r] # 0 =>
          /\ stream[r] < nextToken
          /\ sid[stream[r]] = resolve_or_default(tool[r[1]].sel)

\* A stream holds, and its simulator was given, requests that were put on it.
Given ==
    /\ \A t \in Tokens : \A i \in DOMAIN queue[t] : stream[queue[t][i]] = t
    /\ \A t \in Tokens : \A r \in taken[t] : stream[r] = t
    /\ \A r \in Requests : did[r] # "nothing" => stream[r] # 0

\* A call goes through its steps in order, and goes on only after an ok.
Order ==
    \A c \in Calls :
        /\ pc[c] = "idle" => results[c] = <<>>
        /\ Len(results[c]) <= Len(tool[c].steps)
        /\ pc[c] \in {"step", "await"} =>
              /\ tool[c].tool \notin Looks
              /\ Index(c) <= Len(tool[c].steps)
              /\ \A i \in DOMAIN results[c] : results[c][i] = "ok"
        /\ \A i \in 1..MaxSteps : stream[<<c, i>>] # 0 =>
              /\ tool[c].tool \notin Looks /\ i <= Len(tool[c].steps)
              /\ i < Index(c) \/ (i = Index(c) /\ pc[c] = "await")
              /\ \A j \in 1..i - 1 : results[c][j] = "ok"

\* The step a call waits for is well formed and was sent, and nothing but a
\* reply or a failure has ended the wait.
Awaiting ==
    \A c \in Calls : pc[c] = "await" =>
        LET r == <<c, Index(c)>> IN
        /\ stream[r] # 0
        /\ answer[r] \in {"none", "reply"} \cup R!Failures
        /\ StepOf(r).wait /\ ~Malformed(tool[c], StepOf(r))

\* A reply is of the kind that was waited for and says what the simulator did.
Truthful ==
    \A r \in Requests : answer[r] = "reply" =>
        /\ waiter_matches(KindOf(StepOf(r)), reply[r])
        /\ reply[r].name = UiResult => did[r] = "settled"
        /\ reply[r].name = InputAck => IF reply[r].accepted THEN did[r] \in {"accepted", "settled"}
                                       ELSE did[r] = "rejected"
        /\ reply[r].name = Snapshot => did[r] \in {"accepted", "settled"}
        /\ reply[r].name = SnapshotError => did[r] = "rejected"

\* ReportIsTrue, and what a paint wait of a batch adds to it.
Told ==
    \A c \in Calls : \A i \in DOMAIN results[c] :
        LET r == <<c, i>> IN
        /\ results[c][i] = "ok" /\ StepOf(r).wait =>
              /\ did[r] \in {"accepted", "settled"}
              /\ tool[c].tool = "batch" /\ StepOf(r).mode \in {Absent, "paint"}
                    => did[r] = "settled"
        /\ results[c][i] = "rejected" => did[r] = "rejected"
        /\ results[c][i] \in R!Refusals \cup {"malformed"} => stream[r] = 0

\* What a look at the map reports.
Looked ==
    \A c \in Calls :
        /\ tool[c].tool = "get" => told[c] \subseteq {resolve_or_default(tool[c].sel)}
        /\ tool[c].tool = "read" /\ tool[c].sel # Omitted => told[c] \subseteq {tool[c].sel}

IInv == TypeOK /\ Registered /\ Given /\ Order /\ Awaiting /\ Truthful /\ Told /\ Looked

----------------------------------------------------------------------------
(* What the steps change.                                                  *)

\* What a client may have asked for (ToolsAssumption), of one call.
LEMMA ToolFacts ==
    ASSUME TypeOK, NEW c \in Calls
    PROVE  /\ tool[c].sel \in Ids \cup {NoInstance, Omitted}
           /\ tool[c].steps \in Seq(Steps)
           /\ Len(tool[c].steps) \in Nat /\ Len(tool[c].steps) <= MaxSteps
           /\ tool[c].tool \notin Looks \cup {"batch"} => Len(tool[c].steps) = 1
BY ToolsAssumption DEF TypeOK

\* A call's results and the step it is at.
LEMMA IndexFacts ==
    ASSUME TypeOK, NEW c \in Calls
    PROVE  /\ results[c] \in Seq(Outcomes)
           /\ Len(results[c]) \in Nat /\ DOMAIN results[c] = 1..Len(results[c])
           /\ Index(c) = Len(results[c]) + 1 /\ Index(c) \in Nat \ {0}
           /\ \A i \in DOMAIN results[c] : i < Index(c) /\ i # Index(c)
BY DEF TypeOK, Index

\* The request of the step a call is at is one of the requests.
LEMMA CurrentRequest ==
    ASSUME TypeOK, Order, NEW c \in Calls, pc[c] \in {"step", "await"}
    PROVE  /\ Index(c) \in 1..MaxSteps
           /\ Index(c) <= Len(tool[c].steps)
           /\ <<c, Index(c)>> \in Requests
           /\ <<c, Index(c)>>[1] = c /\ <<c, Index(c)>>[2] = Index(c)
           /\ StepOf(<<c, Index(c)>>) = Merged(tool[c], tool[c].steps[Index(c)])
<1>1. Index(c) <= Len(tool[c].steps)
  BY DEF Order
<1>2. Index(c) \in 1..MaxSteps
  BY <1>1, ToolFacts, IndexFacts, ToolBoundsAssumption
<1> QED BY <1>1, <1>2 DEF Requests, StepOf

\* A request is a call and the number of a step.
LEMMA RequestParts ==
    ASSUME NEW r \in Requests
    PROVE  r[1] \in Calls /\ r[2] \in 1..MaxSteps /\ r = <<r[1], r[2]>>
BY DEF Requests

LEMMA RequestPair ==
    ASSUME NEW c, NEW i
    PROVE  /\ c \in Calls /\ i \in 1..MaxSteps => <<c, i>> \in Requests
           /\ <<c, i>>[1] = c /\ <<c, i>>[2] = i
BY DEF Requests

\* StepEnds: one outcome is added, and the call goes on only after an ok.
LEMMA EndsEffect ==
    ASSUME TypeOK, NEW c \in Calls, NEW o \in Outcomes, StepEnds(c, o)
    PROVE  /\ \A d \in Calls : d # c => results'[d] = results[d] /\ pc'[d] = pc[d]
           /\ results' \in [Calls -> Seq(Outcomes)]
           /\ Len(results'[c]) = Index(c) /\ DOMAIN results'[c] = 1..Index(c)
           /\ \A i \in DOMAIN results[c] : i \in 1..Index(c) /\ results'[c][i] = results[c][i]
           /\ \A i \in 1..Index(c) : i \in DOMAIN results[c] \/ i = Index(c)
           /\ results'[c][Index(c)] = o
           /\ pc' \in [Calls -> {"idle", "step", "await", "done"}]
           /\ pc'[c] \in {"step", "done"}
           /\ pc'[c] = "step" => o = "ok" /\ Index(c) < Len(tool[c].steps)
<1> DEFINE n == Len(results[c])
<1>1. /\ results[c] \in Seq(Outcomes) /\ n \in Nat /\ DOMAIN results[c] = 1..n
      /\ Index(c) = n + 1
  BY IndexFacts
<1>2. /\ Append(results[c], o) \in Seq(Outcomes)
      /\ Len(Append(results[c], o)) = n + 1 /\ DOMAIN Append(results[c], o) = 1..n + 1
      /\ \A i \in 1..n : Append(results[c], o)[i] = results[c][i]
      /\ Append(results[c], o)[n + 1] = o
  BY <1>1
<1>3. /\ results' = [results EXCEPT ![c] = Append(results[c], o)]
      /\ pc' = [pc EXCEPT ![c] = IF o = "ok" /\ Index(c) < Len(tool[c].steps)
                                 THEN "step" ELSE "done"]
  BY DEF StepEnds
<1>4. results'[c] = Append(results[c], o)
  BY <1>3 DEF TypeOK
<1>5. results' \in [Calls -> Seq(Outcomes)]
  BY <1>2, <1>3 DEF TypeOK
<1>6. \A d \in Calls : d # c => results'[d] = results[d] /\ pc'[d] = pc[d]
  BY <1>3 DEF TypeOK
<1>7. /\ pc' \in [Calls -> {"idle", "step", "await", "done"}]
      /\ pc'[c] \in {"step", "done"}
      /\ pc'[c] = "step" => o = "ok" /\ Index(c) < Len(tool[c].steps)
  BY <1>3 DEF TypeOK
<1> QED BY <1>1, <1>2, <1>4, <1>5, <1>6, <1>7

\* A step that is malformed or refused sends nothing and ends.
StepFails(c, o) ==
    /\ o \in R!Refusals \cup {"malformed"}
    /\ stream[<<c, Index(c)>>] = 0
    /\ StepEnds(c, o)
    /\ \/ answer' = answer
       \/ o \in R!Refusals /\ answer' = [answer EXCEPT ![<<c, Index(c)>>] = o]
    /\ UNCHANGED <<stream, queue, taken>>

\* A step that is sent goes to the stream that has the instance.
StepSends(c, id) ==
    LET r == <<c, Index(c)>> IN
    /\ id = resolve_or_default(tool[c].sel) /\ owner[id] # 0
    /\ Len(queue[owner[id]]) < OutCap
    /\ stream[r] = 0 /\ answer[r] = "none"
    /\ stream' = [stream EXCEPT ![r] = owner[id]]
    /\ queue' = [queue EXCEPT ![owner[id]] = Append(@, r)]
    /\ taken' = taken
    /\ ~Malformed(tool[c], StepOf(r))
    /\ \/ /\ StepOf(r).wait
          /\ pc' = [pc EXCEPT ![c] = "await"]
          /\ UNCHANGED <<results, answer>>
       \/ /\ ~StepOf(r).wait
          /\ StepEnds(c, "ok")
          /\ answer' = [answer EXCEPT ![r] = "queued"]

\* What one step of a call comes to (inject, enqueue, enqueue_wait).
LEMMA StepEffect ==
    ASSUME TypeOK, Order, NEW c \in Calls, step(c)
    PROVE  \/ \E o \in Outcomes : StepFails(c, o)
           \/ \E id \in Ids : StepSends(c, id)
<1> DEFINE r == <<c, Index(c)>>
           s == Merged(tool[c], tool[c].steps[Index(c)])
           id == resolve_or_default(tool[c].sel)
<1>1. /\ pc[c] = "step" /\ r \in Requests /\ StepOf(r) = s /\ Index(c) \in 1..MaxSteps
      /\ Index(c) <= Len(tool[c].steps)
  BY CurrentRequest DEF step
<1>2. stream[r] = 0
  BY <1>1, IndexFacts DEF Order
<1>3. R!Refusals \cup {"malformed"} \subseteq Outcomes
  BY DEF Outcomes
<1>4. CASE Malformed(tool[c], s) /\ StepEnds(c, "malformed") /\ UNCHANGED requestVars
  BY <1>2, <1>3, <1>4 DEF StepFails, requestVars
<1>5. ASSUME NEW why \in R!Refusals, Refused(r, why), StepEnds(c, why)
      PROVE  StepFails(c, why)
  <2>1. answer' = [answer EXCEPT ![r] = why] /\ UNCHANGED <<stream, queue, taken>>
    BY <1>1, <1>5 DEF Refused, R!Refuse, R!Answer, TypeOK
  <2> QED BY <1>2, <1>5, <2>1 DEF StepFails
<1>6. {"EmptyId", "UnknownInstance", "QueueFull"} = R!Refusals
  BY DEF R!Refusals
<1>7. ASSUME ~Malformed(tool[c], s), id # NoInstance, owner[id] # 0, ~Full(owner[id]),
             \/ s.wait /\ R!Send(r, owner[id]) /\ pc' = [pc EXCEPT ![c] = "await"] /\ UNCHANGED results
             \/ ~s.wait /\ R!Fire(r, owner[id]) /\ StepEnds(c, "ok")
      PROVE  \E i \in Ids : StepSends(c, i)
  <2>1. id \in Ids
    BY <1>7, ToolFacts, ToolNamesAssumption DEF resolve_or_default
  <2>2. owner[id] \in Tokens
    BY <1>7, <2>1, ToolBoundsAssumption DEF TypeOK, Tokens
  <2>3. Len(queue[owner[id]]) < OutCap
    BY <1>7, <2>2, ToolBoundsAssumption DEF TypeOK, Full
  <2>4. /\ stream[r] = 0 /\ answer[r] = "none"
        /\ stream' = [stream EXCEPT ![r] = owner[id]]
        /\ queue' = [queue EXCEPT ![owner[id]] = Append(@, r)]
        /\ taken' = taken
    BY <1>7 DEF R!Send, R!Fire, R!Put, R!New
  <2>5. \/ s.wait /\ pc' = [pc EXCEPT ![c] = "await"] /\ UNCHANGED <<results, answer>>
        \/ ~s.wait /\ StepEnds(c, "ok") /\ answer' = [answer EXCEPT ![r] = "queued"]
    BY <1>7 DEF R!Send, R!Fire, R!Answer
  <2>6. StepSends(c, id)
    BY <1>1, <1>7, <2>3, <2>4, <2>5 DEF StepSends
  <2> QED BY <2>1, <2>6
<1> QED BY <1>3, <1>4, <1>5, <1>6, <1>7 DEF step

\* Where a request that was given to a stream goes.
LEMMA Queued ==
    ASSUME NEW S, NEW s \in Seq(S), NEW x \in S
    PROVE  /\ Append(s, x) \in Seq(S) /\ Len(Append(s, x)) = Len(s) + 1
           /\ \A i \in DOMAIN Append(s, x) :
                 (i \in DOMAIN s /\ Append(s, x)[i] = s[i]) \/ Append(s, x)[i] = x
<1>1. \A i \in 1..Len(s) + 1 : i \in 1..Len(s) \/ i = Len(s) + 1
  OBVIOUS
<1> QED BY <1>1

\* What taking the oldest request leaves.
LEMMA Dequeued ==
    ASSUME NEW S, NEW s \in Seq(S), s # <<>>
    PROVE  /\ Tail(s) \in Seq(S) /\ Len(Tail(s)) <= Len(s)
           /\ Head(s) \in S /\ 1 \in DOMAIN s /\ Head(s) = s[1]
           /\ \A i \in DOMAIN Tail(s) : i + 1 \in DOMAIN s /\ Tail(s)[i] = s[i + 1]
OBVIOUS

----------------------------------------------------------------------------
(* Types.                                                                  *)

LEMMA InitTypes == Init => TypeOK
<1> SUFFICES ASSUME Init PROVE TypeOK
  OBVIOUS
<1>1. /\ nextToken \in 1..MaxToken + 1 /\ owner \in [Ids -> 0..MaxToken]
      /\ stream \in [Requests -> 0..MaxToken]
  BY ToolBoundsAssumption DEF Init, R!Init
<1>2. /\ queue \in [Tokens -> Seq(Requests)] /\ \A t \in Tokens : Len(queue[t]) <= OutCap
      /\ taken \in [Tokens -> SUBSET Requests]
  BY ToolBoundsAssumption DEF Init, R!Init
<1>3. answer \in [Requests -> R!Answers]
  BY DEF Init, R!Init, R!Answers
<1>4. results \in [Calls -> Seq(Outcomes)]
  BY DEF Init
<1> QED BY <1>1, <1>2, <1>3, <1>4 DEF Init, TypeOK

LEMMA NextTypes ==
    ASSUME TypeOK, Order, Awaiting, [Next]_vars
    PROVE  TypeOK'
<1>1. ASSUME NEW id \in Ids, connect(id) PROVE TypeOK'
  <2>1. nextToken \in Tokens
    BY <1>1, ToolBoundsAssumption DEF connect, TypeOK, Tokens
  <2>2. nextToken' \in 1..MaxToken + 1 /\ owner' \in [Ids -> 0..MaxToken]
    BY <1>1, <2>1, ToolBoundsAssumption DEF connect, TypeOK, Tokens
  <2>3. sid' \in [Tokens -> Ids \cup {NoInstance}]
    BY <1>1, <2>1 DEF connect, TypeOK
  <2> QED BY <1>1, <2>2, <2>3 DEF connect, TypeOK, requestVars, simVars, callVars
<1>2. ASSUME NEW id \in Ids, disconnect(id) PROVE TypeOK'
  <2>1. owner' \in [Ids -> 0..MaxToken]
    BY <1>2, ToolBoundsAssumption DEF disconnect, TypeOK
  <2> QED BY <1>2, <2>1 DEF disconnect, TypeOK, requestVars, simVars, callVars
<1>3. ASSUME NEW t \in Tokens, deliver(t) PROVE TypeOK'
  <2>1. queue[t] \in Seq(Requests) /\ queue[t] # <<>>
    BY <1>3 DEF deliver, R!Take, TypeOK
  <2>2. Tail(queue[t]) \in Seq(Requests) /\ Len(Tail(queue[t])) <= Len(queue[t])
        /\ Head(queue[t]) \in Requests /\ Len(Tail(queue[t])) \in Nat /\ Len(queue[t]) \in Nat
    BY <2>1, Dequeued
  <2>3. Len(Tail(queue[t])) <= OutCap
    BY <2>2, ToolBoundsAssumption DEF TypeOK
  <2>4. queue' \in [Tokens -> Seq(Requests)] /\ \A u \in Tokens : Len(queue'[u]) <= OutCap
    BY <1>3, <2>2, <2>3 DEF deliver, R!Take, TypeOK
  <2>5. taken' \in [Tokens -> SUBSET Requests]
    BY <1>3, <2>2 DEF deliver, R!Take, TypeOK
  <2> QED BY <1>3, <2>4, <2>5 DEF deliver, R!Take, TypeOK, mapVars, simVars, callVars
<1>4. ASSUME NEW t \in Tokens, hangup(t) PROVE TypeOK'
  <2>1. queue' \in [Tokens -> Seq(Requests)] /\ \A u \in Tokens : Len(queue'[u]) <= OutCap
    BY <1>4, ToolBoundsAssumption DEF hangup, R!Lose, TypeOK
  <2> QED BY <1>4, <2>1 DEF hangup, R!Lose, TypeOK, mapVars, simVars, callVars
<1>5. ASSUME NEW r \in Requests, NEW m, R!Reply(r), reply' = [reply EXCEPT ![r] = m]
      PROVE  answer' \in [Requests -> R!Answers] /\ DOMAIN reply' = Requests
             /\ UNCHANGED <<stream, queue, taken>>
  BY <1>5 DEF R!Reply, R!Answer, R!Answers, TypeOK
<1>6. ASSUME NEW r \in Requests, stray(r) PROVE TypeOK'
  <2>1. answer' \in [Requests -> R!Answers] /\ DOMAIN reply' = Requests
        /\ UNCHANGED <<stream, queue, taken>>
    BY <1>5, <1>6 DEF stray
  <2> QED BY <1>6, <2>1 DEF stray, TypeOK, mapVars, callVars
<1>7. ASSUME NEW r \in Requests, NEW v \in {"accepted", "rejected", "settled"}, simulate(r, v)
      PROVE  TypeOK'
  <2>1. answer' \in [Requests -> R!Answers] /\ DOMAIN reply' = Requests
        /\ UNCHANGED <<stream, queue, taken>>
    <3>1. CASE R!Pending(r) /\ waiter_matches(KindOf(StepOf(r)), Verdict(r, v))
      BY <1>5, <1>7, <3>1 DEF simulate, Answered
    <3>2. CASE ~(R!Pending(r) /\ waiter_matches(KindOf(StepOf(r)), Verdict(r, v)))
      BY <1>7, <3>2 DEF simulate, Answered, requestVars, TypeOK
    <3> QED BY <3>1, <3>2
  <2>2. did' \in [Requests -> {"nothing", "accepted", "rejected", "settled"}]
    BY <1>7 DEF simulate, TypeOK
  <2> QED BY <1>7, <2>1, <2>2 DEF simulate, TypeOK, mapVars, callVars
<1>8. ASSUME NEW c \in Calls, NEW S, look(c, S) PROVE TypeOK'
  <2>1. {id \in S \cap Ids : owner[id] # 0} \in SUBSET Ids
    OBVIOUS
  <2>2. told' \in [Calls -> SUBSET Ids] /\ pc' \in [Calls -> {"idle", "step", "await", "done"}]
    BY <1>8, <2>1 DEF look, TypeOK
  <2> QED BY <1>8, <2>2 DEF look, TypeOK, mapVars, requestVars, simVars
<1>9. ASSUME NEW c \in Calls, call(c) PROVE TypeOK'
  <2>1. pc' \in [Calls -> {"idle", "step", "await", "done"}]
    BY <1>9 DEF call, TypeOK
  <2> QED BY <1>9, <2>1 DEF call, TypeOK, mapVars, requestVars, simVars
<1>10. ASSUME NEW c \in Calls, step(c) PROVE TypeOK'
  <2> DEFINE r == <<c, Index(c)>>
  <2>1. r \in Requests
    BY <1>10, CurrentRequest DEF step
  <2>2. /\ UNCHANGED <<nextToken, owner, sid, left, rxOpen, did, reply, tool, told>>
    BY <1>10 DEF step, mapVars, simVars
  <2>3. ASSUME NEW o \in Outcomes, StepFails(c, o) PROVE TypeOK'
    <3>1. answer' \in [Requests -> R!Answers]
      BY <2>3 DEF StepFails, TypeOK, Outcomes, R!Refusals, R!Answers
    <3>2. results' \in [Calls -> Seq(Outcomes)] /\ pc' \in [Calls -> {"idle", "step", "await", "done"}]
      BY <2>3, EndsEffect DEF StepFails
    <3> QED BY <2>2, <2>3, <3>1, <3>2 DEF StepFails, TypeOK
  <2>4. ASSUME NEW id \in Ids, StepSends(c, id) PROVE TypeOK'
    <3> DEFINE t == owner[id]
    <3>1. /\ t \in Tokens /\ t \in 0..MaxToken
          /\ Len(queue[t]) < OutCap
          /\ stream' = [stream EXCEPT ![r] = t]
          /\ queue' = [queue EXCEPT ![t] = Append(queue[t], r)]
          /\ taken' = taken
      BY <2>4, ToolBoundsAssumption DEF StepSends, TypeOK, Tokens
    <3>2. stream' \in [Requests -> 0..MaxToken]
      BY <2>1, <3>1 DEF TypeOK
    <3>3. queue[t] \in Seq(Requests) /\ Len(queue[t]) \in Nat
      BY <3>1 DEF TypeOK
    <3>4. Append(queue[t], r) \in Seq(Requests) /\ Len(Append(queue[t], r)) <= OutCap
      BY <2>1, <3>1, <3>3, Queued, ToolBoundsAssumption
    <3>5. queue' \in [Tokens -> Seq(Requests)] /\ \A u \in Tokens : Len(queue'[u]) <= OutCap
      BY <3>1, <3>4 DEF TypeOK
    <3>6. answer' \in [Requests -> R!Answers]
      BY <2>4 DEF StepSends, TypeOK, R!Answers
    <3>7. results' \in [Calls -> Seq(Outcomes)] /\ pc' \in [Calls -> {"idle", "step", "await", "done"}]
      <4>1. CASE StepEnds(c, "ok")
        BY <4>1, EndsEffect DEF Outcomes
      <4>2. CASE pc' = [pc EXCEPT ![c] = "await"] /\ UNCHANGED <<results, answer>>
        BY <4>2 DEF TypeOK
      <4> QED BY <2>4, <4>1, <4>2 DEF StepSends
    <3> QED BY <2>2, <3>1, <3>2, <3>5, <3>6, <3>7 DEF TypeOK
  <2> QED BY <1>10, <2>3, <2>4, StepEffect
<1>11. ASSUME NEW c \in Calls, give_up(c) PROVE TypeOK'
  <2>1. answer' \in [Requests -> R!Answers] /\ UNCHANGED <<stream, queue, taken>>
    BY <1>11 DEF give_up, R!GiveUp, R!Answer, R!Answers, TypeOK
  <2> QED BY <1>11, <2>1 DEF give_up, TypeOK, mapVars, simVars, callVars
<1>12. ASSUME NEW c \in Calls, receive(c) PROVE TypeOK'
  <2> DEFINE r == <<c, Index(c)>>
  <2>1. PICK o : /\ StepEnds(c, o)
                 /\ o = IF answer[r] # "reply" THEN answer[r]
                        ELSE IF StepOf(r).kind = "snapshot" THEN snapshot_result(reply[r])
                        ELSE inject_result(reply[r])
    BY <1>12 DEF receive
  <2>2. answer[r] \in {"reply"} \cup R!Failures
    BY <1>12 DEF receive, Awaiting
  <2>3. o \in Outcomes
    BY <2>1, <2>2 DEF Outcomes, snapshot_result, inject_result
  <2>4. results' \in [Calls -> Seq(Outcomes)] /\ pc' \in [Calls -> {"idle", "step", "await", "done"}]
    BY <2>1, <2>3, EndsEffect
  <2> QED BY <1>12, <2>4 DEF receive, TypeOK, mapVars, requestVars, simVars
<1>13. CASE UNCHANGED vars
  BY <1>13 DEF TypeOK, vars, mapVars, requestVars, simVars, callVars
<1> QED
  BY <1>1, <1>2, <1>3, <1>4, <1>6, <1>7, <1>8, <1>9, <1>10, <1>11, <1>12, <1>13
  DEF Next, Call, get_instance, list_instances, list_resources, read_resource

----------------------------------------------------------------------------
(* Where the requests are.                                                 *)

\* The steps that leave the map, the streams and the simulators' progress.
LEMMA RegisteredStep ==
    ASSUME TypeOK, Order, Registered, [Next]_vars
    PROVE  Registered'
<1>1. ASSUME UNCHANGED <<nextToken, owner, sid, stream, tool>> PROVE Registered'
  BY <1>1 DEF Registered, resolve_or_default
<1>2. ASSUME NEW id \in Ids, connect(id) PROVE Registered'
  <2>1. /\ nextToken \in Tokens /\ nextToken' = nextToken + 1 /\ nextToken \in Nat
        /\ owner' = [owner EXCEPT ![id] = nextToken] /\ sid' = [sid EXCEPT ![nextToken] = id]
        /\ UNCHANGED <<stream, tool>>
    BY <1>2, ToolBoundsAssumption DEF connect, TypeOK, Tokens, requestVars, callVars
  <2>2. ASSUME NEW i \in Ids, owner'[i] # 0
        PROVE  owner'[i] < nextToken' /\ sid'[owner'[i]] = i
    <3>1. CASE i = id
      BY <2>1, <3>1 DEF TypeOK
    <3>2. CASE i # id
      <4>1. owner'[i] = owner[i] /\ owner[i] \in Nat /\ owner[i] # 0
        BY <2>1, <2>2, <3>2, ToolBoundsAssumption DEF TypeOK
      <4>2. owner[i] < nextToken /\ sid[owner[i]] = i
        BY <4>1 DEF Registered
      <4>3. owner[i] # nextToken /\ owner[i] \in Tokens
        BY <4>1, <4>2, <2>1, ToolBoundsAssumption DEF TypeOK, Tokens
      <4> QED BY <2>1, <4>1, <4>2, <4>3 DEF TypeOK
    <3> QED BY <3>1, <3>2
  <2>3. ASSUME NEW r \in Requests, stream[r] # 0
        PROVE  stream[r] < nextToken' /\ sid'[stream[r]] = resolve_or_default(tool[r[1]].sel)
    <3>1. stream[r] < nextToken /\ sid[stream[r]] = resolve_or_default(tool[r[1]].sel)
      BY <2>3 DEF Registered
    <3>2. stream[r] # nextToken /\ stream[r] \in Tokens
      BY <2>1, <2>3, <3>1, ToolBoundsAssumption DEF TypeOK, Tokens
    <3> QED BY <2>1, <3>1, <3>2, ToolBoundsAssumption DEF TypeOK, Tokens
  <2> QED BY <2>1, <2>2, <2>3 DEF Registered, resolve_or_default
<1>3. ASSUME NEW id \in Ids, disconnect(id) PROVE Registered'
  BY <1>3 DEF disconnect, TypeOK, Registered, resolve_or_default, requestVars, callVars
<1>4. ASSUME NEW t \in Tokens, deliver(t) \/ hangup(t) PROVE Registered'
  BY <1>1, <1>4 DEF deliver, hangup, R!Take, R!Lose, mapVars, callVars
<1>5. ASSUME NEW r \in Requests, stray(r) PROVE Registered'
  BY <1>1, <1>5 DEF stray, R!Reply, mapVars, callVars
<1>6. ASSUME NEW r \in Requests, NEW v, simulate(r, v) PROVE Registered'
  <2>1. UNCHANGED stream
    BY <1>6 DEF simulate, Answered, R!Reply, requestVars
  <2> QED BY <1>1, <1>6, <2>1 DEF simulate, mapVars, callVars
<1>7. ASSUME NEW c \in Calls, NEW S, look(c, S) PROVE Registered'
  BY <1>1, <1>7 DEF look, mapVars, requestVars
<1>8. ASSUME NEW c \in Calls, call(c) \/ receive(c) PROVE Registered'
  BY <1>1, <1>8 DEF call, receive, mapVars, requestVars
<1>9. ASSUME NEW c \in Calls, give_up(c) PROVE Registered'
  BY <1>1, <1>9 DEF give_up, R!GiveUp, mapVars, callVars
<1>10. ASSUME NEW c \in Calls, step(c) PROVE Registered'
  <2>1. UNCHANGED <<nextToken, owner, sid, tool>>
    BY <1>10 DEF step, mapVars
  <2>2. ASSUME NEW o \in Outcomes, StepFails(c, o) PROVE Registered'
    BY <1>1, <2>1, <2>2 DEF StepFails
  <2>3. ASSUME NEW id \in Ids, StepSends(c, id) PROVE Registered'
    <3> DEFINE q == <<c, Index(c)>>
    <3>1. /\ q \in Requests /\ q[1] = c
          /\ stream' = [stream EXCEPT ![q] = owner[id]]
          /\ owner[id] # 0 /\ id = resolve_or_default(tool[c].sel)
      BY <1>10, <2>3, CurrentRequest DEF StepSends, step
    <3> HIDE DEF q
    <3>2. ASSUME NEW r \in Requests, stream'[r] # 0
          PROVE  stream'[r] < nextToken /\ sid[stream'[r]] = resolve_or_default(tool[r[1]].sel)
      <4>1. CASE r = q
        BY <3>1, <4>1 DEF TypeOK, Registered
      <4>2. CASE r # q
        BY <3>1, <3>2, <4>2 DEF TypeOK, Registered
      <4> QED BY <4>1, <4>2
    <3> QED BY <2>1, <3>2 DEF Registered, resolve_or_default
  <2> QED BY <1>10, <2>2, <2>3, StepEffect
<1>11. CASE UNCHANGED vars
  BY <1>1, <1>11 DEF vars, mapVars, requestVars, callVars
<1> QED
  BY <1>2, <1>3, <1>4, <1>5, <1>6, <1>7, <1>8, <1>9, <1>10, <1>11
  DEF Next, Call, get_instance, list_instances, list_resources, read_resource

\* Nothing reaches a simulator, and no simulator acts on anything, but what was
\* put on its stream.
LEMMA GivenStep ==
    ASSUME TypeOK, Order, Given, [Next]_vars
    PROVE  Given'
<1>1. ASSUME UNCHANGED <<stream, queue, taken, did>> PROVE Given'
  BY <1>1 DEF Given
<1>2. ASSUME NEW id \in Ids, connect(id) \/ disconnect(id) PROVE Given'
  BY <1>1, <1>2 DEF connect, disconnect, requestVars, simVars
<1>3. ASSUME NEW t \in Tokens, deliver(t) PROVE Given'
  <2>1. /\ queue[t] \in Seq(Requests) /\ queue[t] # <<>>
        /\ taken' = [taken EXCEPT ![t] = taken[t] \cup {Head(queue[t])}]
        /\ queue' = [queue EXCEPT ![t] = Tail(queue[t])]
        /\ UNCHANGED <<stream, did>>
    BY <1>3 DEF deliver, R!Take, TypeOK, simVars
  <2>2. /\ 1 \in DOMAIN queue[t] /\ Head(queue[t]) = queue[t][1]
        /\ \A i \in DOMAIN Tail(queue[t]) :
              i + 1 \in DOMAIN queue[t] /\ Tail(queue[t])[i] = queue[t][i + 1]
    BY <2>1, Dequeued
  <2>3. \A u \in Tokens : \A i \in DOMAIN queue'[u] : stream[queue'[u][i]] = u
    BY <2>1, <2>2 DEF Given, TypeOK
  <2>4. \A u \in Tokens : \A r \in taken'[u] : stream[r] = u
    BY <2>1, <2>2 DEF Given, TypeOK
  <2> QED BY <2>1, <2>3, <2>4 DEF Given
<1>4. ASSUME NEW t \in Tokens, hangup(t) PROVE Given'
  <2>1. queue' = [queue EXCEPT ![t] = <<>>] /\ UNCHANGED <<stream, taken, did>>
    BY <1>4 DEF hangup, R!Lose, simVars
  <2>2. \A u \in Tokens : \A i \in DOMAIN queue'[u] : stream[queue'[u][i]] = u
    BY <2>1 DEF Given, TypeOK
  <2> QED BY <2>1, <2>2 DEF Given
<1>5. ASSUME NEW r \in Requests, stray(r) PROVE Given'
  BY <1>1, <1>5 DEF stray, R!Reply
<1>6. ASSUME NEW r \in Requests, NEW v, simulate(r, v) PROVE Given'
  <2>1. UNCHANGED <<stream, queue, taken>> /\ did' = [did EXCEPT ![r] = v]
    BY <1>6 DEF simulate, Answered, R!Reply, requestVars
  <2>2. stream[r] # 0
    BY <1>6 DEF simulate, Given, Tokens
  <2> QED BY <2>1, <2>2 DEF Given, TypeOK
<1>7. ASSUME NEW c \in Calls, NEW S, look(c, S) PROVE Given'
  BY <1>1, <1>7 DEF look, requestVars, simVars
<1>8. ASSUME NEW c \in Calls, call(c) \/ receive(c) PROVE Given'
  BY <1>1, <1>8 DEF call, receive, requestVars, simVars
<1>9. ASSUME NEW c \in Calls, give_up(c) PROVE Given'
  BY <1>1, <1>9 DEF give_up, R!GiveUp, simVars
<1>10. ASSUME NEW c \in Calls, step(c) PROVE Given'
  <2>1. UNCHANGED did
    BY <1>10 DEF step, simVars
  <2>2. ASSUME NEW o \in Outcomes, StepFails(c, o) PROVE Given'
    BY <1>1, <2>1, <2>2 DEF StepFails
  <2>3. ASSUME NEW id \in Ids, StepSends(c, id) PROVE Given'
    <3> DEFINE q == <<c, Index(c)>>
               t == owner[id]
    <3>1. /\ q \in Requests /\ stream[q] = 0 /\ t # 0 /\ t \in Tokens
          /\ stream' = [stream EXCEPT ![q] = t]
          /\ queue' = [queue EXCEPT ![t] = Append(queue[t], q)]
          /\ taken' = taken
      BY SMTT(20), <1>10, <2>3, CurrentRequest, ToolBoundsAssumption DEF StepSends, step, TypeOK, Tokens
    <3> HIDE DEF q, t
    <3>2. /\ stream'[q] = t
          /\ \A r \in Requests : r # q => stream'[r] = stream[r]
      BY <3>1 DEF TypeOK
    <3>3. \A r \in Requests : stream[r] # 0 => stream'[r] = stream[r]
      BY <3>1, <3>2
    <3>4. /\ queue[t] \in Seq(Requests)
          /\ \A i \in DOMAIN Append(queue[t], q) :
                \/ i \in DOMAIN queue[t] /\ Append(queue[t], q)[i] = queue[t][i]
                \/ Append(queue[t], q)[i] = q
      BY <3>1, Queued DEF TypeOK
    <3>5. \A u \in Tokens : \A i \in DOMAIN queue[u] : queue[u][i] \in Requests /\ u # 0
      <4>1. \A u \in Tokens : queue[u] \in Seq(Requests)
        BY DEF TypeOK
      <4>2. \A u \in Tokens : u # 0
        BY DEF Tokens
      <4> QED BY <4>1, <4>2
    <3>6. \A u \in Tokens : \A i \in DOMAIN queue'[u] : stream'[queue'[u][i]] = u
      <4> SUFFICES ASSUME NEW u \in Tokens, NEW i \in DOMAIN queue'[u]
                   PROVE  stream'[queue'[u][i]] = u
        OBVIOUS
      <4>1. CASE u = t
        <5>1. queue'[u] = Append(queue[t], q)
          BY <3>1, <4>1 DEF TypeOK
        <5>2. CASE i \in DOMAIN queue[t] /\ queue'[u][i] = queue[t][i]
          BY <3>1, <3>3, <3>5, <4>1, <5>2 DEF Given
        <5>3. CASE queue'[u][i] = q
          BY <3>2, <4>1, <5>3
        <5> QED BY <3>4, <5>1, <5>2, <5>3
      <4>2. CASE u # t
        <5>1. queue'[u] = queue[u]
          BY <3>1, <4>2 DEF TypeOK
        <5> QED BY <3>3, <3>5, <5>1 DEF Given
      <4> QED BY <4>1, <4>2
    <3>7. \A u \in Tokens : \A r \in taken'[u] : stream'[r] = u
      BY <3>1, <3>3 DEF Given, TypeOK, Tokens
    <3>8. \A r \in Requests : did'[r] # "nothing" => stream'[r] # 0
      BY <2>1, <3>1, <3>2 DEF Given
    <3> QED BY <3>6, <3>7, <3>8 DEF Given
  <2> QED BY <1>10, <2>2, <2>3, StepEffect
<1>11. CASE UNCHANGED vars
  BY <1>1, <1>11 DEF vars, requestVars, simVars
<1> QED
  BY <1>2, <1>3, <1>4, <1>5, <1>6, <1>7, <1>8, <1>9, <1>10, <1>11
  DEF Next, Call, get_instance, list_instances, list_resources, read_resource

----------------------------------------------------------------------------
(* The order of a call's steps.                                            *)

\* What the order of one call's steps says.
Ordered(c) ==
    /\ pc[c] = "idle" => results[c] = <<>>
    /\ Len(results[c]) <= Len(tool[c].steps)
    /\ pc[c] \in {"step", "await"} =>
          /\ tool[c].tool \notin Looks
          /\ Index(c) <= Len(tool[c].steps)
          /\ \A i \in DOMAIN results[c] : results[c][i] = "ok"
    /\ \A i \in 1..MaxSteps : stream[<<c, i>>] # 0 =>
          /\ tool[c].tool \notin Looks /\ i <= Len(tool[c].steps)
          /\ i < Index(c) \/ (i = Index(c) /\ pc[c] = "await")
          /\ \A j \in 1..i - 1 : results[c][j] = "ok"

LEMMA OrderParts == (Order <=> \A c \in Calls : Ordered(c))
                    /\ (Order' <=> \A c \in Calls : Ordered(c)')
BY DEF Order, Ordered, Index

\* Only a call's own steps touch its place, its results and its streams.
LEMMA OrderKept ==
    ASSUME NEW c \in Calls, Ordered(c), UNCHANGED <<pc[c], results[c], tool>>,
           \A i \in 1..MaxSteps : stream'[<<c, i>>] = stream[<<c, i>>]
    PROVE  Ordered(c)'
BY DEF Ordered, Index

\* A step that ends without being sent, or that was sent before.
LEMMA OrderEnds ==
    ASSUME TypeOK, Order, NEW c \in Calls, pc[c] \in {"step", "await"},
           NEW o \in Outcomes, StepEnds(c, o), UNCHANGED tool,
           \A i \in 1..MaxSteps : i # Index(c) => stream'[<<c, i>>] = stream[<<c, i>>]
    PROVE  Ordered(c)'
<1>1. Ordered(c) /\ Index(c) <= Len(tool[c].steps) /\ Index(c) \in 1..MaxSteps
  BY OrderParts, CurrentRequest
<1>l. tool[c].tool \notin Looks
  BY <1>1 DEF Ordered
<1>2. /\ results'[c] # <<>> /\ Len(results'[c]) = Index(c) /\ Index(c)' = Index(c) + 1 /\ Index(c) \in Nat
      /\ DOMAIN results'[c] = 1..Index(c)
      /\ \A i \in 1..Index(c) : i \in DOMAIN results[c] \/ i = Index(c)
      /\ \A i \in DOMAIN results[c] : results'[c][i] = results[c][i]
      /\ results'[c][Index(c)] = o
      /\ pc'[c] \in {"step", "done"}
      /\ pc'[c] = "step" => o = "ok" /\ Index(c) < Len(tool[c].steps)
  <2>1. Len(results'[c]) = Index(c) /\ Index(c) \in Nat \ {0}
    BY EndsEffect, IndexFacts
  <2>2. results'[c] # <<>>
    BY <2>1
  <2>3. Index(c)' = Index(c) + 1
    BY <2>1 DEF Index
  <2> QED BY <2>1, <2>2, <2>3, EndsEffect
<1>3. \A i \in DOMAIN results[c] : results[c][i] = "ok"
  BY <1>1 DEF Ordered
<1>4. \A i \in 1..Index(c) - 1 : i \in DOMAIN results[c]
  BY IndexFacts
<1>5. \A i \in 1..Index(c) - 1 : results'[c][i] = "ok"
  BY <1>2, <1>3, <1>4
<1>6. ASSUME pc'[c] \in {"step", "await"}
      PROVE  Index(c)' <= Len(tool'[c].steps) /\ \A i \in DOMAIN results'[c] : results'[c][i] = "ok"
  <2>1. o = "ok" /\ Index(c) < Len(tool[c].steps)
    BY <1>2, <1>6
  <2>2. Index(c) + 1 <= Len(tool[c].steps)
    BY <1>2, <2>1, ToolFacts
  <2> QED BY <1>2, <1>3, <2>1, <2>2
<1>7. ASSUME NEW i \in 1..MaxSteps, stream'[<<c, i>>] # 0
      PROVE  /\ i <= Len(tool[c].steps) /\ i < Index(c)'
             /\ \A j \in 1..i - 1 : results'[c][j] = "ok"
  <2>1. CASE i = Index(c)
    BY <1>1, <1>2, <1>5, <2>1
  <2>2. CASE i # Index(c)
    <3>1. i <= Len(tool[c].steps) /\ i < Index(c)
      BY <1>1, <1>7, <2>2 DEF Ordered
    <3>2. \A j \in 1..i - 1 : j \in 1..Index(c) - 1
      BY <1>2, <3>1
    <3> QED BY <1>2, <1>5, <3>1, <3>2
  <2> QED BY <2>1, <2>2
<1> QED BY <1>l, <1>1, <1>2, <1>6, <1>7 DEF Ordered

\* The requests of a call are sent in order, and none after a step that failed
\* (inject_batch_json).
LEMMA OrderStep ==
    ASSUME TypeOK, Order, Awaiting, [Next]_vars
    PROVE  Order'
<1>1. ASSUME UNCHANGED <<pc, results, tool, stream>> PROVE Order'
  BY <1>1, OrderKept, OrderParts
<1>2. ASSUME NEW id \in Ids, connect(id) \/ disconnect(id) PROVE Order'
  BY <1>1, <1>2 DEF connect, disconnect, requestVars, callVars
<1>3. ASSUME NEW t \in Tokens, deliver(t) \/ hangup(t) PROVE Order'
  BY <1>1, <1>3 DEF deliver, hangup, R!Take, R!Lose, callVars
<1>4. ASSUME NEW r \in Requests, stray(r) PROVE Order'
  BY <1>1, <1>4 DEF stray, R!Reply, callVars
<1>5. ASSUME NEW r \in Requests, NEW v, simulate(r, v) PROVE Order'
  <2>1. UNCHANGED stream
    BY <1>5 DEF simulate, Answered, R!Reply, requestVars
  <2> QED BY <1>1, <1>5, <2>1 DEF simulate, callVars
<1>6. ASSUME NEW c \in Calls, give_up(c) PROVE Order'
  BY <1>1, <1>6 DEF give_up, R!GiveUp, callVars
<1>7. ASSUME NEW c \in Calls, pc[c] = "idle", UNCHANGED <<results, tool, stream>>,
             NEW to \in {"step", "done"}, pc' = [pc EXCEPT ![c] = to],
             to = "step" => 1 <= Len(tool[c].steps) /\ tool[c].tool \notin Looks
      PROVE  Order'
  <2>1. Ordered(c)
    BY OrderParts
  <2>2. pc'[c] = to /\ results'[c] = <<>> /\ Index(c) = 1 /\ Index(c)' = 1
    BY <1>7, <2>1 DEF Ordered, TypeOK, Index
  <2>3. \A i \in 1..MaxSteps : stream[<<c, i>>] = 0
    BY <1>7, <2>1, <2>2 DEF Ordered
  <2>4. Ordered(c)'
    BY <1>7, <2>1, <2>2, <2>3 DEF Ordered
  <2>5. \A d \in Calls : d # c => pc'[d] = pc[d]
    BY <1>7 DEF TypeOK
  <2>6. \A d \in Calls : d # c => Ordered(d)'
    BY <1>7, <2>5, OrderKept, OrderParts
  <2> QED BY <2>4, <2>6, OrderParts
<1>8. ASSUME NEW c \in Calls, NEW S, look(c, S) PROVE Order'
  BY <1>7, <1>8 DEF look, requestVars
<1>9. ASSUME NEW c \in Calls, call(c) PROVE Order'
  <2>1. 1 <= Len(tool[c].steps) \/ (tool[c].tool = "batch" /\ tool[c].steps = <<>>)
    <3>1. tool[c].steps \in Seq(Steps) /\ (tool[c].tool # "batch" => Len(tool[c].steps) = 1)
      BY <1>9, ToolFacts DEF call
    <3> QED BY <3>1
  <2>2. PICK to \in {"step", "done"} : /\ pc' = [pc EXCEPT ![c] = to]
                                       /\ to = "step" => /\ 1 <= Len(tool[c].steps)
                                                         /\ tool[c].tool \notin Looks
    BY <1>9, <2>1 DEF call
  <2>3. pc[c] = "idle" /\ UNCHANGED <<results, tool, stream>>
    BY <1>9 DEF call, requestVars
  <2> QED BY <1>7, <2>2, <2>3
<1>10. ASSUME NEW c \in Calls, step(c) PROVE Order'
  <2> DEFINE q == <<c, Index(c)>>
  <2>1. /\ pc[c] = "step" /\ UNCHANGED tool /\ q \in Requests /\ Index(c) \in 1..MaxSteps
    BY <1>10, CurrentRequest DEF step
  <2>2. ASSUME NEW o \in Outcomes, StepFails(c, o) PROVE Order'
    <3>1. Ordered(c)'
      BY <2>1, <2>2, OrderEnds DEF StepFails
    <3>2. \A d \in Calls : d # c => UNCHANGED <<pc[d], results[d], stream>>
      BY <2>2, EndsEffect DEF StepFails
    <3>3. \A d \in Calls : d # c => Ordered(d)'
      BY <2>1, <3>2, OrderKept, OrderParts
    <3> QED BY <3>1, <3>3, OrderParts
  <2>3. ASSUME NEW id \in Ids, StepSends(c, id) PROVE Order'
    <3>1. /\ \A i \in 1..MaxSteps : i # Index(c) => stream'[<<c, i>>] = stream[<<c, i>>]
          /\ \A d \in Calls : d # c => \A i \in 1..MaxSteps : stream'[<<d, i>>] = stream[<<d, i>>]
      <4>1. stream' = [stream EXCEPT ![q] = owner[id]]
        BY <2>3 DEF StepSends
      <4>2. \A d \in Calls, i \in 1..MaxSteps :
               <<d, i>> \in Requests /\ (<<d, i>> = q => d = c /\ i = Index(c))
        BY RequestPair
      <4> QED BY <4>1, <4>2 DEF TypeOK
    <3>2. CASE StepEnds(c, "ok")
      <4>1. "ok" \in Outcomes
        BY DEF Outcomes
      <4>2. Ordered(c)'
        BY <2>1, <3>1, <3>2, <4>1, OrderEnds
      <4>3. \A d \in Calls : d # c => UNCHANGED <<pc[d], results[d]>>
        BY <3>2, <4>1, EndsEffect
      <4>4. \A d \in Calls : d # c => Ordered(d)'
        BY <2>1, <3>1, <4>3, OrderKept, OrderParts
      <4> QED BY <4>2, <4>4, OrderParts
    <3>3. CASE pc' = [pc EXCEPT ![c] = "await"] /\ UNCHANGED <<results, answer>>
      <4>1. pc'[c] = "await" /\ \A d \in Calls : d # c => pc'[d] = pc[d]
        BY <3>3 DEF TypeOK
      <4>2. Index(c)' = Index(c) /\ results' = results
        BY <3>3 DEF Index
      <4>3. Ordered(c)
        BY OrderParts
      <4>4. \A i \in 1..Index(c) - 1 : results[c][i] = "ok"
        BY <2>1, <4>3, IndexFacts DEF Ordered
      <4>5. tool[c].tool \notin Looks /\ Index(c) <= Len(tool[c].steps) /\ \A i \in DOMAIN results[c] : results[c][i] = "ok"
        BY <2>1, <4>3 DEF Ordered
      <4>6. ASSUME NEW i \in 1..MaxSteps, stream'[<<c, i>>] # 0
            PROVE  /\ i <= Len(tool[c].steps)
                   /\ i < Index(c) \/ i = Index(c)
                   /\ \A j \in 1..i - 1 : results[c][j] = "ok"
        <5>1. CASE i = Index(c)
          BY <4>4, <4>5, <5>1
        <5>2. CASE i # Index(c)
          BY <3>1, <4>3, <4>6, <5>2 DEF Ordered
        <5> QED BY <5>1, <5>2
      <4>7. Ordered(c)'
        BY <2>1, <4>1, <4>2, <4>3, <4>5, <4>6 DEF Ordered
      <4>8. \A d \in Calls : d # c => Ordered(d)'
        BY <2>1, <3>1, <4>1, <4>2, OrderKept, OrderParts
      <4> QED BY <4>7, <4>8, OrderParts
    <3> QED BY <2>3, <3>2, <3>3 DEF StepSends
  <2> QED BY <1>10, <2>2, <2>3, StepEffect
<1>11. ASSUME NEW c \in Calls, receive(c) PROVE Order'
  <2> DEFINE r == <<c, Index(c)>>
  <2>1. PICK o : /\ StepEnds(c, o)
                 /\ o = IF answer[r] # "reply" THEN answer[r]
                        ELSE IF StepOf(r).kind = "snapshot" THEN snapshot_result(reply[r])
                        ELSE inject_result(reply[r])
    BY <1>11 DEF receive
  <2>2. answer[r] \in {"reply"} \cup R!Failures
    BY <1>11 DEF receive, Awaiting
  <2>3. o \in Outcomes
    BY <2>1, <2>2 DEF Outcomes, snapshot_result, inject_result
  <2>4. pc[c] = "await" /\ UNCHANGED <<tool, stream>>
    BY <1>11 DEF receive, requestVars
  <2>5. Ordered(c)'
    BY <2>1, <2>3, <2>4, OrderEnds
  <2>6. \A d \in Calls : d # c => UNCHANGED <<pc[d], results[d]>>
    BY <2>1, <2>3, EndsEffect
  <2>7. \A d \in Calls : d # c => Ordered(d)'
    BY <2>4, <2>6, OrderKept, OrderParts
  <2> QED BY <2>5, <2>7, OrderParts
<1>12. CASE UNCHANGED vars
  BY <1>1, <1>12 DEF vars, requestVars, callVars
<1> QED
  BY <1>2, <1>3, <1>4, <1>5, <1>6, <1>8, <1>9, <1>10, <1>11, <1>12
  DEF Next, Call, get_instance, list_instances, list_resources, read_resource

----------------------------------------------------------------------------
(* Waiting and replies.                                                    *)

\* What Awaiting says of one call, and Truthful of one request.
AwaitsWell(c) ==
    pc[c] = "await" =>
        /\ stream[<<c, Index(c)>>] # 0
        /\ answer[<<c, Index(c)>>] \in {"none", "reply"} \cup R!Failures
        /\ StepOf(<<c, Index(c)>>).wait /\ ~Malformed(tool[c], StepOf(<<c, Index(c)>>))

Honest(r) ==
    answer[r] = "reply" =>
        /\ waiter_matches(KindOf(StepOf(r)), reply[r])
        /\ reply[r].name = UiResult => did[r] = "settled"
        /\ reply[r].name = InputAck => IF reply[r].accepted THEN did[r] \in {"accepted", "settled"}
                                       ELSE did[r] = "rejected"
        /\ reply[r].name = Snapshot => did[r] \in {"accepted", "settled"}
        /\ reply[r].name = SnapshotError => did[r] = "rejected"

LEMMA WaitParts ==
    /\ (Awaiting <=> \A c \in Calls : AwaitsWell(c))
    /\ (Awaiting' <=> \A c \in Calls : AwaitsWell(c)')
    /\ (Truthful <=> \A r \in Requests : Honest(r))
    /\ (Truthful' <=> \A r \in Requests : Honest(r)')
BY DEF Awaiting, AwaitsWell, Truthful, Honest, StepOf, Merged, Index

\* A wait is well formed until something ends it.
LEMMA AwaitKept ==
    ASSUME TypeOK, Order, NEW c \in Calls, AwaitsWell(c), UNCHANGED <<pc[c], results[c], tool>>,
           \A r \in Requests : r[1] = c =>
              /\ stream'[r] = stream[r]
              /\ answer'[r] \in {answer[r], "reply"} \cup R!Failures
    PROVE  AwaitsWell(c)'
<1> SUFFICES ASSUME pc[c] = "await" PROVE AwaitsWell(c)'
  BY DEF AwaitsWell
<1>1. <<c, Index(c)>> \in Requests /\ <<c, Index(c)>>[1] = c
  BY CurrentRequest
<1>2. Index(c)' = Index(c)
  BY DEF Index
<1>3. StepOf(<<c, Index(c)>>)' = StepOf(<<c, Index(c)>>)
  BY <1>2 DEF StepOf, Merged
<1> QED BY <1>1, <1>2, <1>3 DEF AwaitsWell, Malformed, SpaceRefused

LEMMA AwaitStep ==
    ASSUME TypeOK, Order, Awaiting, [Next]_vars
    PROVE  Awaiting'
<1>1. ASSUME UNCHANGED <<pc, results, tool, stream>>,
             \A r \in Requests : answer'[r] \in {answer[r], "reply"} \cup R!Failures
      PROVE  Awaiting'
  BY <1>1, AwaitKept, WaitParts
<1>2. ASSUME NEW id \in Ids, connect(id) \/ disconnect(id) PROVE Awaiting'
  BY <1>1, <1>2 DEF connect, disconnect, requestVars, callVars
<1>3. ASSUME NEW t \in Tokens, deliver(t) \/ hangup(t) PROVE Awaiting'
  BY <1>1, <1>3 DEF deliver, hangup, R!Take, R!Lose, callVars
<1>4. ASSUME NEW r \in Requests, R!Reply(r)
      PROVE  UNCHANGED stream /\ \A q \in Requests : answer'[q] \in {answer[q], "reply"} \cup R!Failures
  BY <1>4 DEF R!Reply, R!Answer, TypeOK
<1>5. ASSUME NEW r \in Requests, stray(r) PROVE Awaiting'
  BY <1>1, <1>4, <1>5 DEF stray, callVars
<1>6. ASSUME NEW r \in Requests, NEW v, simulate(r, v) PROVE Awaiting'
  <2>1. UNCHANGED stream /\ \A q \in Requests : answer'[q] \in {answer[q], "reply"} \cup R!Failures
    <3>1. R!Reply(r) \/ UNCHANGED requestVars
      BY <1>6 DEF simulate, Answered
    <3> QED BY <1>4, <3>1 DEF requestVars
  <2> QED BY <1>1, <1>6, <2>1 DEF simulate, callVars
<1>7. ASSUME NEW c \in Calls, give_up(c) PROVE Awaiting'
  <2>1. UNCHANGED stream /\ \A q \in Requests : answer'[q] \in {answer[q], "reply"} \cup R!Failures
    BY <1>7 DEF give_up, R!GiveUp, R!Answer, TypeOK
  <2> QED BY <1>1, <1>7, <2>1 DEF give_up, callVars
<1>8. ASSUME NEW c \in Calls, pc'[c] # "await", UNCHANGED tool,
             \A d \in Calls : d # c => UNCHANGED <<pc[d], results[d]>>,
             \A r \in Requests : r[1] # c => UNCHANGED <<stream[r], answer[r]>>
      PROVE  Awaiting'
  <2>1. AwaitsWell(c)'
    BY <1>8 DEF AwaitsWell
  <2>2. \A d \in Calls : d # c => AwaitsWell(d)'
    BY <1>8, AwaitKept, WaitParts
  <2> QED BY <2>1, <2>2, WaitParts
<1>9. ASSUME NEW c \in Calls, NEW S, look(c, S) PROVE Awaiting'
  <2>1. pc'[c] = "done" /\ \A d \in Calls : d # c => pc'[d] = pc[d]
    BY <1>9 DEF look, TypeOK
  <2> QED BY <1>8, <1>9, <2>1 DEF look, requestVars
<1>10. ASSUME NEW c \in Calls, call(c) PROVE Awaiting'
  <2>1. pc'[c] # "await" /\ \A d \in Calls : d # c => pc'[d] = pc[d]
    BY <1>10 DEF call, TypeOK
  <2> QED BY <1>8, <1>10, <2>1 DEF call, requestVars
<1>11. ASSUME NEW c \in Calls, step(c) PROVE Awaiting'
  <2> DEFINE q == <<c, Index(c)>>
  <2>1. /\ UNCHANGED tool /\ q \in Requests
    BY <1>11, CurrentRequest DEF step
  <2>2. \A r \in Requests : r[1] # c => r # q
    BY RequestPair
  <2>3. ASSUME NEW o \in Outcomes, StepFails(c, o) PROVE Awaiting'
    <3>1. pc'[c] # "await" /\ \A d \in Calls : d # c => UNCHANGED <<pc[d], results[d]>>
      BY <2>3, EndsEffect DEF StepFails
    <3>2. \A r \in Requests : r[1] # c => UNCHANGED <<stream[r], answer[r]>>
      BY <2>2, <2>3 DEF StepFails, TypeOK
    <3> QED BY <1>8, <2>1, <3>1, <3>2
  <2>4. ASSUME NEW id \in Ids, StepSends(c, id) PROVE Awaiting'
    <3>1. \A r \in Requests : r[1] # c => UNCHANGED <<stream[r], answer[r]>>
      BY <2>2, <2>4 DEF StepSends, TypeOK
    <3>2. CASE StepEnds(c, "ok")
      <4>1. pc'[c] # "await" /\ \A d \in Calls : d # c => UNCHANGED <<pc[d], results[d]>>
        BY <3>2, EndsEffect DEF Outcomes
      <4> QED BY <1>8, <2>1, <3>1, <4>1
    <3>3. CASE StepOf(q).wait /\ pc' = [pc EXCEPT ![c] = "await"] /\ UNCHANGED <<results, answer>>
      <4>1. /\ stream' = [stream EXCEPT ![q] = owner[id]] /\ owner[id] # 0 /\ answer[q] = "none"
            /\ ~Malformed(tool[c], StepOf(q))
        BY <2>4 DEF StepSends
      <4>2. Index(c)' = Index(c)
        BY <3>3 DEF Index
      <4>3. StepOf(q)' = StepOf(q)
        BY <2>1, <4>2 DEF StepOf, Merged
      <4>4. stream'[q] # 0 /\ answer'[q] = "none"
        BY <2>1, <3>3, <4>1 DEF TypeOK
      <4>5. AwaitsWell(c)'
        BY <2>1, <3>3, <4>1, <4>2, <4>3, <4>4 DEF AwaitsWell, Malformed, SpaceRefused
      <4>6. \A d \in Calls : d # c => UNCHANGED <<pc[d], results[d]>>
        BY <3>3 DEF TypeOK
      <4>7. \A d \in Calls : d # c => AwaitsWell(d)'
        BY <2>1, <3>1, <4>6, AwaitKept, WaitParts
      <4> QED BY <4>5, <4>7, WaitParts
    <3> QED BY <2>4, <3>2, <3>3 DEF StepSends
  <2> QED BY <1>11, <2>3, <2>4, StepEffect
<1>12. ASSUME NEW c \in Calls, receive(c) PROVE Awaiting'
  <2>1. \E to \in {"step", "done"} : pc' = [pc EXCEPT ![c] = to]
    BY <1>12 DEF receive, StepEnds
  <2>2. pc'[c] # "await" /\ \A d \in Calls : d # c => UNCHANGED <<pc[d], results[d]>>
    BY <1>12, <2>1 DEF receive, StepEnds, TypeOK
  <2> QED BY <1>8, <1>12, <2>2 DEF receive, requestVars
<1>13. CASE UNCHANGED vars
  BY <1>1, <1>13 DEF vars, requestVars, callVars
<1> QED
  BY <1>2, <1>3, <1>5, <1>6, <1>7, <1>9, <1>10, <1>11, <1>12, <1>13
  DEF Next, Call, get_instance, list_instances, list_resources, read_resource

\* The simulator's word for what it did reaches the call as it was said, and
\* stays true of what it does later (set_event, waiter_matches).
LEMMA TruthfulStep ==
    ASSUME TypeOK, Order, Truthful, [Next]_vars
    PROVE  Truthful'
<1>1. ASSUME NEW r \in Requests, UNCHANGED <<answer[r], reply[r], did[r], tool>> PROVE Honest(r)'
  <2>1. Honest(r)
    BY WaitParts
  <2>2. KindOf(StepOf(r))' = KindOf(StepOf(r))
    BY <1>1 DEF KindOf, StepOf, Merged
  <2> QED BY <1>1, <2>1, <2>2 DEF Honest
<1>2. ASSUME UNCHANGED <<answer, reply, did, tool>> PROVE Truthful'
  BY <1>1, <1>2, WaitParts
<1>3. ASSUME NEW id \in Ids, connect(id) \/ disconnect(id) PROVE Truthful'
  BY <1>2, <1>3 DEF connect, disconnect, requestVars, simVars, callVars
<1>4. ASSUME NEW t \in Tokens, deliver(t) \/ hangup(t) PROVE Truthful'
  BY <1>2, <1>4 DEF deliver, hangup, R!Take, R!Lose, simVars, callVars
<1>5. ASSUME NEW r \in Requests, stray(r) PROVE Truthful'
  <2>1. /\ answer' = [answer EXCEPT ![r] = "reply"] /\ KindOf(StepOf(r)) = "Any"
        /\ reply' = [reply EXCEPT ![r] = Payload(Log, "", FALSE)]
        /\ UNCHANGED <<did, tool>>
    BY <1>5 DEF stray, R!Reply, R!Answer, callVars
  <2>2. reply'[r].name = Log
    BY <2>1 DEF TypeOK, Payload
  <2>3. KindOf(StepOf(r))' = "Any"
    BY <2>1 DEF KindOf, StepOf, Merged
  <2>4. Honest(r)'
    BY <2>2, <2>3 DEF Honest, waiter_matches, Log, UiResult, InputAck, Snapshot, SnapshotError
  <2>5. \A q \in Requests : q # r => UNCHANGED <<answer[q], reply[q], did[q], tool>>
    BY <2>1 DEF TypeOK
  <2> QED BY <1>1, <2>4, <2>5, WaitParts
<1>6. ASSUME NEW r \in Requests, NEW v \in {"accepted", "rejected", "settled"}, simulate(r, v)
      PROVE  Truthful'
  <2>1. /\ did' = [did EXCEPT ![r] = v] /\ UNCHANGED tool
        /\ \/ did[r] = "nothing" /\ v \in {"accepted", "rejected"}
           \/ did[r] = "accepted" /\ v = "settled"
    BY <1>6 DEF simulate, callVars
  <2>2. did'[r] = v /\ \A q \in Requests : q # r => did'[q] = did[q]
    BY <2>1 DEF TypeOK
  <2>3. KindOf(StepOf(r))' = KindOf(StepOf(r))
    BY <2>1 DEF KindOf, StepOf, Merged
  <2>4. CASE R!Reply(r) /\ reply' = [reply EXCEPT ![r] = Verdict(r, v)]
             /\ waiter_matches(KindOf(StepOf(r)), Verdict(r, v))
    <3>1. answer' = [answer EXCEPT ![r] = "reply"]
      BY <2>4 DEF R!Reply, R!Answer
    <3>2. reply'[r] = Verdict(r, v)
      BY <2>4 DEF TypeOK
    <3>3. /\ v = "settled" => Verdict(r, v).name = UiResult
          /\ v = "accepted" => \/ Verdict(r, v).name = Snapshot
                               \/ Verdict(r, v).name = InputAck /\ Verdict(r, v).accepted = TRUE
          /\ v = "rejected" => \/ Verdict(r, v).name = SnapshotError
                               \/ Verdict(r, v).name = InputAck /\ Verdict(r, v).accepted = FALSE
      BY DEF Verdict, Payload
    <3>4. waiter_matches(KindOf(StepOf(r))', reply'[r])
      BY <2>3, <2>4, <3>2
    <3>5. /\ reply'[r].name = UiResult => v = "settled"
          /\ reply'[r].name = InputAck => IF reply'[r].accepted THEN v \in {"accepted", "settled"}
                                          ELSE v = "rejected"
          /\ reply'[r].name = Snapshot => v \in {"accepted", "settled"}
          /\ reply'[r].name = SnapshotError => v = "rejected"
      BY <3>2, <3>3 DEF UiResult, InputAck, Snapshot, SnapshotError
    <3>6. Honest(r)'
      BY <2>2, <3>4, <3>5 DEF Honest
    <3>7. \A q \in Requests : q # r => UNCHANGED <<answer[q], reply[q], did[q], tool>>
      BY <2>1, <2>2, <2>4, <3>1 DEF TypeOK
    <3> QED BY <1>1, <3>6, <3>7, WaitParts
  <2>5. CASE UNCHANGED <<requestVars, reply>>
    <3>1. Honest(r)
      BY WaitParts
    <3>2. UNCHANGED <<answer, reply>>
      BY <2>5 DEF requestVars
    <3>3. Honest(r)'
      BY <2>1, <2>2, <2>3, <3>1, <3>2 DEF Honest
    <3> QED BY <1>1, <2>1, <2>2, <3>2, <3>3, WaitParts
  <2> QED BY <1>6, <2>4, <2>5 DEF simulate, Answered
<1>7. ASSUME NEW q \in Requests, UNCHANGED <<reply, did, tool>>, NEW a, a # "reply",
             answer' = [answer EXCEPT ![q] = a]
      PROVE  Truthful'
  <2>1. Honest(q)'
    BY <1>7 DEF Honest, TypeOK
  <2>2. \A r \in Requests : r # q => answer'[r] = answer[r]
    BY <1>7 DEF TypeOK
  <2> QED BY <1>1, <1>7, <2>1, <2>2, WaitParts
<1>8. ASSUME NEW c \in Calls, give_up(c) PROVE Truthful'
  <2>1. /\ <<c, Index(c)>> \in Requests /\ UNCHANGED <<reply, did, tool>>
        /\ \E a \in R!Failures : answer' = [answer EXCEPT ![<<c, Index(c)>>] = a]
    BY <1>8, CurrentRequest DEF give_up, R!GiveUp, R!Answer, simVars, callVars
  <2>2. \A a \in R!Failures : a # "reply"
    BY DEF R!Failures
  <2> QED BY <1>7, <2>1, <2>2
<1>9. ASSUME NEW c \in Calls, NEW S, look(c, S) PROVE Truthful'
  BY <1>2, <1>9 DEF look, requestVars, simVars
<1>10. ASSUME NEW c \in Calls, call(c) \/ receive(c) PROVE Truthful'
  BY <1>2, <1>10 DEF call, receive, requestVars, simVars
<1>11. ASSUME NEW c \in Calls, step(c) PROVE Truthful'
  <2>1. <<c, Index(c)>> \in Requests /\ UNCHANGED <<reply, did, tool>>
    BY <1>11, CurrentRequest DEF step, simVars
  <2>2. \A a \in R!Refusals : a # "reply"
    BY DEF R!Refusals
  <2>3. UNCHANGED answer \/ \E a : a # "reply" /\ answer' = [answer EXCEPT ![<<c, Index(c)>>] = a]
    <3>1. ASSUME NEW o \in Outcomes, StepFails(c, o)
          PROVE  UNCHANGED answer \/ \E a : a # "reply" /\ answer' = [answer EXCEPT ![<<c, Index(c)>>] = a]
      BY <2>2, <3>1 DEF StepFails
    <3>2. ASSUME NEW id \in Ids, StepSends(c, id)
          PROVE  UNCHANGED answer \/ \E a : a # "reply" /\ answer' = [answer EXCEPT ![<<c, Index(c)>>] = a]
      BY <3>2 DEF StepSends
    <3> QED BY <1>11, <3>1, <3>2, StepEffect
  <2> QED BY <1>2, <1>7, <2>1, <2>3
<1>12. CASE UNCHANGED vars
  BY <1>2, <1>12 DEF vars, requestVars, simVars, callVars
<1> QED
  BY <1>3, <1>4, <1>5, <1>6, <1>8, <1>9, <1>10, <1>11, <1>12
  DEF Next, Call, get_instance, list_instances, list_resources, read_resource

----------------------------------------------------------------------------
(* What a call reports.                                                    *)

\* What Told says of one step that was reported.
Reported(c, i) ==
    /\ results[c][i] = "ok" /\ StepOf(<<c, i>>).wait =>
          /\ did[<<c, i>>] \in {"accepted", "settled"}
          /\ tool[c].tool = "batch" /\ StepOf(<<c, i>>).mode \in {Absent, "paint"}
                => did[<<c, i>>] = "settled"
    /\ results[c][i] = "rejected" => did[<<c, i>>] = "rejected"
    /\ results[c][i] \in R!Refusals \cup {"malformed"} => stream[<<c, i>>] = 0

LEMMA ToldParts ==
    /\ (Told <=> \A c \in Calls : \A i \in DOMAIN results[c] : Reported(c, i))
    /\ (Told' <=> \A c \in Calls : \A i \in DOMAIN results'[c] : Reported(c, i)')
BY DEF Told, Reported, StepOf, Merged

\* What was reported stays true: the simulator only goes on, from nothing to a
\* verdict and from an acceptance to a settled panel.
LEMMA ReportedKept ==
    ASSUME NEW c, NEW i, Reported(c, i), UNCHANGED tool,
           results'[c][i] = results[c][i], stream'[<<c, i>>] = stream[<<c, i>>],
           \/ did'[<<c, i>>] = did[<<c, i>>]
           \/ did[<<c, i>>] = "nothing"
           \/ did[<<c, i>>] = "accepted" /\ did'[<<c, i>>] = "settled"
    PROVE  Reported(c, i)'
<1>1. StepOf(<<c, i>>)' = StepOf(<<c, i>>)
  BY DEF StepOf, Merged
<1> QED BY <1>1 DEF Reported

\* What a call makes of the end of its wait (inject_result, snapshot_result).
LEMMA ReceiveEffect ==
    ASSUME TypeOK, Order, Awaiting, Truthful, NEW c \in Calls, receive(c)
    PROVE  \E o \in Outcomes :
              /\ StepEnds(c, o)
              /\ o \notin R!Refusals \cup {"malformed"}
              /\ o = "ok" =>
                    /\ did[<<c, Index(c)>>] \in {"accepted", "settled"}
                    /\ tool[c].tool = "batch" /\ StepOf(<<c, Index(c)>>).mode \in {Absent, "paint"}
                          => did[<<c, Index(c)>>] = "settled"
              /\ o = "rejected" => did[<<c, Index(c)>>] = "rejected"
<1> DEFINE r == <<c, Index(c)>>
           m == reply[r]
<1>1. PICK o : /\ StepEnds(c, o)
               /\ o = IF answer[r] # "reply" THEN answer[r]
                      ELSE IF StepOf(r).kind = "snapshot" THEN snapshot_result(m)
                      ELSE inject_result(m)
  BY DEF receive
<1>2. /\ answer[r] \in {"reply"} \cup R!Failures /\ r \in Requests
      /\ StepOf(r).wait /\ ~Malformed(tool[c], StepOf(r))
  BY CurrentRequest DEF receive, Awaiting
<1>3. o \in Outcomes /\ o \notin R!Refusals \cup {"malformed"}
  BY <1>1, <1>2 DEF Outcomes, snapshot_result, inject_result, R!Failures, R!Refusals
<1>4. CASE answer[r] # "reply"
  <2>1. o # "ok" /\ o # "rejected"
    BY <1>1, <1>2, <1>4 DEF R!Failures
  <2> QED BY <1>1, <1>3, <2>1
<1>5. CASE answer[r] = "reply"
  <2>1. Honest(r)
    BY <1>2, WaitParts
  <2>2. CASE StepOf(r).kind = "snapshot"
    <3>1. o = snapshot_result(m)
      BY <1>1, <1>5, <2>2
    <3>2. /\ o = "ok" => m.name = Snapshot
          /\ o = "rejected" => m.name = SnapshotError
      BY <3>1 DEF snapshot_result, Snapshot, SnapshotError
    <3>3. tool[c].tool # "batch"
      BY <1>2, <2>2 DEF Malformed, Injects
    <3> QED BY <1>1, <1>3, <1>5, <2>1, <3>2, <3>3 DEF Honest
  <2>3. CASE StepOf(r).kind # "snapshot"
    <3>1. o = inject_result(m)
      BY <1>1, <1>5, <2>3
    <3>2. /\ o = "ok" => m.name = UiResult \/ (m.name = InputAck /\ m.accepted)
          /\ o = "rejected" => m.name = InputAck /\ ~m.accepted
      BY <3>1 DEF inject_result, UiResult, InputAck
    <3>3. ASSUME StepOf(r).mode \in {Absent, "paint"}, o = "ok"
          PROVE  m.name = UiResult
      <4>1. KindOf(StepOf(r)) = UiResult
        BY <2>3, <3>3 DEF KindOf, inject_wait_kind, unwrap_or
      <4>2. waiter_matches(UiResult, m)
        BY <1>5, <2>1, <4>1 DEF Honest
      <4> QED BY <3>2, <3>3, <4>2
              DEF waiter_matches, UiResult, InputAck, Snapshot
    <3>4. /\ o = "ok" => did[r] \in {"accepted", "settled"}
          /\ o = "ok" /\ StepOf(r).mode \in {Absent, "paint"} => did[r] = "settled"
          /\ o = "rejected" => did[r] = "rejected"
      BY <1>5, <2>1, <3>2, <3>3 DEF Honest
    <3> QED BY <1>1, <1>3, <3>4
  <2> QED BY <2>2, <2>3
<1> QED BY <1>4, <1>5

\* A report is true when it is made, and stays true.
LEMMA ToldStep ==
    ASSUME TypeOK, Order, Given, Awaiting, Truthful, Told, [Next]_vars
    PROVE  Told'
<1>1. ASSUME UNCHANGED <<results, stream, did, tool>> PROVE Told'
  BY <1>1, ReportedKept, ToldParts
<1>2. ASSUME NEW id \in Ids, connect(id) \/ disconnect(id) PROVE Told'
  BY <1>1, <1>2 DEF connect, disconnect, requestVars, simVars, callVars
<1>3. ASSUME NEW t \in Tokens, deliver(t) \/ hangup(t) PROVE Told'
  BY <1>1, <1>3 DEF deliver, hangup, R!Take, R!Lose, simVars, callVars
<1>4. ASSUME NEW r \in Requests, stray(r) PROVE Told'
  BY <1>1, <1>4 DEF stray, R!Reply, callVars
<1>5. ASSUME NEW r \in Requests, NEW v \in {"accepted", "rejected", "settled"}, simulate(r, v)
      PROVE  Told'
  <2>1. /\ did' = [did EXCEPT ![r] = v] /\ UNCHANGED <<tool, results>>
        /\ did[r] = "nothing" \/ (did[r] = "accepted" /\ v = "settled")
    BY <1>5 DEF simulate, callVars
  <2>2. UNCHANGED stream
    BY <1>5 DEF simulate, Answered, R!Reply, requestVars
  <2>3. \A q : \/ did'[q] = did[q]
               \/ did[q] = "nothing"
               \/ did[q] = "accepted" /\ did'[q] = "settled"
    BY <2>1 DEF TypeOK
  <2> QED BY <2>1, <2>2, <2>3, ReportedKept, ToldParts
<1>6. ASSUME NEW c \in Calls, give_up(c) PROVE Told'
  BY <1>1, <1>6 DEF give_up, R!GiveUp, simVars, callVars
<1>7. ASSUME NEW c \in Calls, NEW S, look(c, S) PROVE Told'
  BY <1>1, <1>7 DEF look, requestVars, simVars
<1>8. ASSUME NEW c \in Calls, call(c) PROVE Told'
  BY <1>1, <1>8 DEF call, requestVars, simVars
<1>9. ASSUME NEW c \in Calls, NEW o \in Outcomes, StepEnds(c, o), UNCHANGED <<did, tool>>,
             \A d \in Calls : \A i \in DOMAIN results[d] : stream'[<<d, i>>] = stream[<<d, i>>],
             NEW n, n = Index(c), Reported(c, n)'
      PROVE  Told'
  <2>1. ASSUME NEW d \in Calls, d # c, NEW i \in DOMAIN results'[d] PROVE Reported(d, i)'
    <3>1. results'[d] = results[d]
      BY <1>9, <2>1, EndsEffect
    <3>2. Reported(d, i)
      BY <2>1, <3>1, ToldParts
    <3> QED BY <1>9, <2>1, <3>1, <3>2, ReportedKept
  <2>2. ASSUME NEW i \in DOMAIN results'[c] PROVE Reported(c, i)'
    <3>1. CASE i = n
      BY <1>9, <3>1
    <3>2. CASE i # n
      <4>1. i \in DOMAIN results[c] /\ results'[c][i] = results[c][i]
        BY <1>9, <2>2, <3>2, EndsEffect
      <4>2. Reported(c, i)
        BY <4>1, ToldParts
      <4> QED BY <1>9, <4>1, <4>2, ReportedKept
    <3> QED BY <3>1, <3>2
  <2> QED BY <2>1, <2>2, ToldParts
<1>10. ASSUME NEW c \in Calls, step(c) PROVE Told'
  <2>n. PICK n : n = Index(c)
    OBVIOUS
  <2> DEFINE q == <<c, n>>
  <2>1. q \in Requests /\ UNCHANGED <<did, tool>>
    BY <1>10, <2>n, CurrentRequest DEF step, simVars
  <2>2. ASSUME NEW o \in Outcomes, StepFails(c, o) PROVE Told'
    <3>1. results'[c][n] = o
      BY <2>n, <2>2, EndsEffect DEF StepFails
    <3>2. o # "ok" /\ o # "rejected" /\ stream'[q] = 0
      BY <2>n, <2>2 DEF StepFails, R!Refusals
    <3>3. Reported(c, n)'
      BY <3>1, <3>2 DEF Reported
    <3> QED BY <1>9, <2>n, <2>1, <2>2, <3>3 DEF StepFails
  <2>3. ASSUME NEW id \in Ids, StepSends(c, id) PROVE Told'
    <3>1. \A d \in Calls : \A i \in DOMAIN results[d] : stream'[<<d, i>>] = stream[<<d, i>>]
      <4>1. stream' = [stream EXCEPT ![q] = owner[id]]
        BY <2>n, <2>3 DEF StepSends
      <4>2. \A d \in Calls : \A i \in DOMAIN results[d] : <<d, i>> # q
        BY <2>n, RequestPair, IndexFacts
      <4> QED BY <4>1, <4>2 DEF TypeOK
    <3>2. CASE ~StepOf(q).wait /\ StepEnds(c, "ok")
      <4>1. "ok" \in Outcomes
        BY DEF Outcomes
      <4>2. results'[c][n] = "ok"
        BY <2>n, <3>2, <4>1, EndsEffect
      <4>3. StepOf(q)' = StepOf(q)
        BY <2>1 DEF StepOf, Merged
      <4>4. Reported(c, n)'
        BY <3>2, <4>2, <4>3 DEF Reported, R!Refusals
      <4> QED BY <1>9, <2>n, <2>1, <3>1, <3>2, <4>1, <4>4
    <3>3. CASE pc' = [pc EXCEPT ![c] = "await"] /\ UNCHANGED <<results, answer>>
      BY <2>1, <3>1, <3>3, ReportedKept, ToldParts
    <3> QED BY <2>n, <2>3, <3>2, <3>3 DEF StepSends
  <2> QED BY <1>10, <2>2, <2>3, StepEffect
<1>11. ASSUME NEW c \in Calls, receive(c) PROVE Told'
  <2>n. PICK n : n = Index(c)
    OBVIOUS
  <2> DEFINE q == <<c, n>>
  <2>1. PICK o \in Outcomes :
              /\ StepEnds(c, o)
              /\ o \notin R!Refusals \cup {"malformed"}
              /\ o = "ok" =>
                    /\ did[q] \in {"accepted", "settled"}
                    /\ tool[c].tool = "batch" /\ StepOf(q).mode \in {Absent, "paint"}
                          => did[q] = "settled"
              /\ o = "rejected" => did[q] = "rejected"
    BY <1>11, <2>n, ReceiveEffect
  <2>2. UNCHANGED <<did, tool, stream>>
    BY <1>11 DEF receive, simVars, requestVars
  <2>3. results'[c][n] = o
    BY <2>n, <2>1, EndsEffect
  <2>4. StepOf(q)' = StepOf(q)
    BY <2>2 DEF StepOf, Merged
  <2>5. Reported(c, n)'
    BY <2>1, <2>2, <2>3, <2>4 DEF Reported
  <2> QED BY <1>9, <2>n, <2>1, <2>2, <2>5
<1>12. CASE UNCHANGED vars
  BY <1>1, <1>12 DEF vars, requestVars, simVars, callVars
<1> QED
  BY <1>2, <1>3, <1>4, <1>5, <1>6, <1>7, <1>8, <1>10, <1>11, <1>12
  DEF Next, Call, get_instance, list_instances, list_resources, read_resource

\* A look at the map tells of the instance it was asked for, and of no other.
LEMMA LookedStep ==
    ASSUME TypeOK, Looked, [Next]_vars
    PROVE  Looked'
<1>1. ASSUME UNCHANGED <<tool, told>> PROVE Looked'
  BY <1>1 DEF Looked, resolve_or_default
<1>2. ASSUME NEW c \in Calls, NEW S, look(c, S),
             tool[c].tool = "get" => S = {resolve_or_default(tool[c].sel)},
             tool[c].tool = "read" /\ tool[c].sel # Omitted => S = {tool[c].sel}
      PROVE  Looked'
  <2>1. /\ told' = [told EXCEPT ![c] = {id \in S \cap Ids : owner[id] # 0}]
        /\ UNCHANGED tool
    BY <1>2 DEF look
  <2>2. told'[c] \subseteq S /\ \A d \in Calls : d # c => told'[d] = told[d]
    BY <2>1 DEF TypeOK
  <2>3. \A d \in Calls : resolve_or_default(tool[d].sel)' = resolve_or_default(tool[d].sel)
    BY <2>1 DEF resolve_or_default
  <2> QED BY <1>2, <2>1, <2>2, <2>3 DEF Looked
<1>3. ASSUME NEW c \in Calls,
             get_instance(c) \/ list_instances(c) \/ list_resources(c) \/ read_resource(c)
      PROVE  Looked'
  <2>1. CASE get_instance(c)
    BY <1>2, <2>1 DEF get_instance
  <2>2. CASE list_instances(c)
    BY <1>2, <2>2 DEF list_instances
  <2>3. CASE list_resources(c)
    BY <1>2, <2>3 DEF list_resources
  <2>4. CASE read_resource(c)
    BY <1>2, <2>4 DEF read_resource
  <2> QED BY <1>3, <2>1, <2>2, <2>3, <2>4
<1>4. ASSUME NEW id \in Ids, connect(id) \/ disconnect(id) PROVE Looked'
  BY <1>1, <1>4 DEF connect, disconnect, callVars
<1>5. ASSUME NEW t \in Tokens, deliver(t) \/ hangup(t) PROVE Looked'
  BY <1>1, <1>5 DEF deliver, hangup, callVars
<1>6. ASSUME NEW r \in Requests, stray(r) PROVE Looked'
  BY <1>1, <1>6 DEF stray, callVars
<1>7. ASSUME NEW r \in Requests, NEW v, simulate(r, v) PROVE Looked'
  BY <1>1, <1>7 DEF simulate, callVars
<1>8. ASSUME NEW c \in Calls, call(c) \/ step(c) \/ give_up(c) \/ receive(c) PROVE Looked'
  BY <1>1, <1>8 DEF call, step, give_up, receive, callVars
<1>9. CASE UNCHANGED vars
  BY <1>1, <1>9 DEF vars, callVars
<1> QED BY <1>3, <1>4, <1>5, <1>6, <1>7, <1>8, <1>9 DEF Next, Call

----------------------------------------------------------------------------
\* A run starts with no stream, no request and no report.
LEMMA InitInv == Init => IInv
<1> SUFFICES ASSUME Init PROVE IInv
  OBVIOUS
<1>1. TypeOK
  BY InitTypes
<1>2. /\ stream = [r \in Requests |-> 0] /\ queue = [t \in Tokens |-> <<>>]
      /\ taken = [t \in Tokens |-> {}] /\ answer = [r \in Requests |-> "none"]
  BY DEF Init, R!Init
<1>3. \A r \in Requests : stream[r] = 0 /\ answer[r] = "none"
  BY <1>2
<1>4. Registered /\ Given /\ Truthful
  BY <1>2, <1>3 DEF Init, Registered, Given, Truthful
<1>5. \A c \in Calls, i \in 1..MaxSteps : stream[<<c, i>>] = 0
  BY <1>3, RequestPair
<1>6. Order /\ Awaiting /\ Told /\ Looked
  BY <1>5 DEF Init, Order, Awaiting, Told, Looked
<1> QED BY <1>1, <1>4, <1>6 DEF IInv

\* The order of the steps, the place of the requests and the truth of the
\* replies hold throughout.
THEOREM Invariance == Spec => []IInv
<1>1. IInv /\ [Next]_vars => IInv'
  BY NextTypes, RegisteredStep, GivenStep, OrderStep, AwaitStep, TruthfulStep, ToldStep,
     LookedStep DEF IInv
<1> QED BY <1>1, InitInv, PTL DEF Spec

\* TypeOK: no stream is given more requests than its queue holds, and every
\* step a call reports has one of the outcomes the tools know.
THEOREM TypeCorrect == Spec => []TypeOK
<1>1. IInv => TypeOK
  BY DEF IInv
<1> QED BY <1>1, Invariance, PTL

\* StopsOnFirstFailure: for batches of any length beside any other calls, a
\* step is on a stream only after every step before it was reported ok.
THEOREM BatchStops == Spec => []StopsOnFirstFailure
<1>1. IInv => StopsOnFirstFailure
  <2> SUFFICES ASSUME IInv, NEW r \in Requests, stream[r] # 0, NEW j \in 1..r[2] - 1
               PROVE  j <= Len(results[r[1]]) /\ results[r[1]][j] = "ok"
    BY DEF StopsOnFirstFailure
  <2>1. r[1] \in Calls /\ r[2] \in 1..MaxSteps /\ stream[<<r[1], r[2]>>] # 0
    BY RequestParts
  <2>2. /\ r[2] < Index(r[1]) \/ r[2] = Index(r[1])
        /\ results[r[1]][j] = "ok"
    BY <2>1 DEF IInv, Order
  <2>3. Index(r[1]) = Len(results[r[1]]) + 1 /\ Len(results[r[1]]) \in Nat
    BY <2>1, IndexFacts DEF IInv
  <2>4. j <= Len(results[r[1]])
    BY <2>1, <2>2, <2>3
  <2> QED BY <2>2, <2>4
<1> QED BY <1>1, Invariance, PTL

\* SettledBeforeNext: a step that waits for paint has settled before the next
\* step of its batch is sent.
THEOREM PaintSettles == Spec => []SettledBeforeNext
<1>1. IInv => SettledBeforeNext
  <2> SUFFICES ASSUME IInv, NEW r \in Requests, stream[r] # 0, NEW j \in 1..r[2] - 1,
                      StepOf(<<r[1], j>>).wait, StepOf(<<r[1], j>>).mode \in {Absent, "paint"}
               PROVE  did[<<r[1], j>>] = "settled"
    BY DEF SettledBeforeNext
  <2> DEFINE c == r[1]
  <2>1. c \in Calls /\ r[2] \in 1..MaxSteps /\ stream[<<c, r[2]>>] # 0
    BY RequestParts
  <2>2. /\ r[2] <= Len(tool[c].steps)
        /\ r[2] < Index(c) \/ r[2] = Index(c)
        /\ results[c][j] = "ok"
    BY <2>1 DEF IInv, Order
  <2>3. /\ Index(c) = Len(results[c]) + 1 /\ Len(results[c]) \in Nat
        /\ DOMAIN results[c] = 1..Len(results[c])
    BY <2>1, IndexFacts DEF IInv
  <2>4. j \in DOMAIN results[c] /\ 1 < r[2]
    BY <2>1, <2>2, <2>3
  <2>5. /\ Len(tool[c].steps) \in Nat
        /\ tool[c].tool \notin Looks \cup {"batch"} => Len(tool[c].steps) = 1
    BY <2>1, ToolFacts DEF IInv
  <2>6. tool[c].tool \notin Looks
    BY <2>1 DEF IInv, Order
  <2>7. tool[c].tool = "batch"
    <3>1. Len(tool[c].steps) # 1
      <4>1. \A k, l \in Nat : 1 < k /\ k <= l => l # 1
        OBVIOUS
      <4>2. r[2] \in Nat
        BY <2>1
      <4> QED BY <2>2, <2>4, <2>5, <4>1, <4>2
    <3>2. tool[c].tool \in {"inject", "batch", "enable", "snapshot"} \cup Looks
      BY <2>1, ToolsAssumption DEF IInv, TypeOK
    <3> QED BY <2>5, <2>6, <3>1, <3>2
  <2>8. Reported(c, j)
    BY <2>1, <2>4, ToldParts DEF IInv
  <2> QED BY <2>2, <2>7, <2>8 DEF Reported
<1> QED BY <1>1, Invariance, PTL

\* ReportIsTrue: what the tools report of a step is what the simulator that was
\* given it did, and a refused or malformed step was never sent.
THEOREM ReportsTrue == Spec => []ReportIsTrue
<1>1. IInv => ReportIsTrue
  <2> SUFFICES ASSUME IInv, NEW c \in Calls, NEW i \in DOMAIN results[c]
               PROVE  /\ results[c][i] = "ok" /\ StepOf(<<c, i>>).wait
                            => did[<<c, i>>] \in {"accepted", "settled"}
                      /\ results[c][i] = "rejected" => did[<<c, i>>] = "rejected"
                      /\ results[c][i] \in R!Refusals \cup {"malformed"}
                            => stream[<<c, i>>] = 0 /\ did[<<c, i>>] = "nothing"
    BY DEF ReportIsTrue
  <2>1. Reported(c, i)
    BY ToldParts DEF IInv
  <2>2. <<c, i>> \in Requests
    <3>1. /\ DOMAIN results[c] = 1..Len(results[c]) /\ Len(results[c]) \in Nat
          /\ Len(tool[c].steps) \in Nat /\ Len(tool[c].steps) <= MaxSteps
      BY IndexFacts, ToolFacts DEF IInv
    <3>2. Len(results[c]) <= Len(tool[c].steps)
      BY DEF IInv, Order
    <3>3. i \in 1..MaxSteps
      BY <3>1, <3>2, ToolBoundsAssumption
    <3> QED BY <3>3, RequestPair
  <2>3. stream[<<c, i>>] = 0 => did[<<c, i>>] = "nothing"
    BY <2>2 DEF IInv, Given
  <2> QED BY <2>1, <2>3 DEF Reported
<1> QED BY <1>1, Invariance, PTL

\* RightInstance: every request of a call is on a stream that registered the id
\* the call names, or the default, and a look finds no other instance.
THEOREM ReachesRightInstance == Spec => []RightInstance
<1>1. IInv => RightInstance
  <2> SUFFICES ASSUME IInv, NEW c \in Calls
               PROVE  /\ \A i \in 1..MaxSteps : stream[<<c, i>>] # 0
                            => sid[stream[<<c, i>>]] = resolve_or_default(tool[c].sel)
                      /\ tool[c].tool = "get" => told[c] \subseteq {resolve_or_default(tool[c].sel)}
                      /\ tool[c].tool = "read" /\ tool[c].sel # Omitted
                            => told[c] \subseteq {tool[c].sel}
    BY DEF RightInstance, resolve_or_default
  <2>1. \A i \in 1..MaxSteps : stream[<<c, i>>] # 0
            => sid[stream[<<c, i>>]] = resolve_or_default(tool[c].sel)
    BY RequestPair DEF IInv, Registered
  <2> QED BY <2>1 DEF IInv, Looked
<1> QED BY <1>1, Invariance, PTL

=============================================================================
