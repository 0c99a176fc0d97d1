----------------------- MODULE SpawnSupervisorProofs -----------------------
(***************************************************************************)
(* The safety properties of SpawnSupervisor, for every number of ids,      *)
(* calls and processes, from one inductive invariant.                      *)
(***************************************************************************)
EXTENDS SpawnSupervisor, TLAPS

\* The steps of a start up to its first reap.
Starting == {"start", "spawn", "store", "poll", "alive", "deadline"}

\* Processes are numbered as they are started: the ones to come are unused,
\* and whatever the supervisor or a call refers to has been started.
Fresh ==
    /\ \A p \in Pids : nextPid <= p => proc[p] = "unused"
    /\ \A id \in Ids : children[id] < nextPid
    /\ \A c \in Calls : child[c] < nextPid
    /\ \A c \in Calls : \A p \in listed[c] : p \in Pids /\ p < nextPid

\* A call of start works on its one id until it has reaped it.
OneId ==
    /\ \A c \in Calls : pc[c] \in Starting => c \in Starts
    /\ \A c \in Starts : pc[c] \in Starting \cup {"reap"} => \E id \in Ids : want[c] = {id}
    /\ \A c \in Starts : pc[c] \in {"kill", "wait"} => want[c] = {}

\* The process of a start is its own and was started with its id.
OwnChild ==
    /\ \A c \in Starts : pc[c] \in {"idle", "start", "spawn"} => child[c] = 0
    /\ \A c \in Starts : pc[c] \in {"store", "poll", "alive", "deadline", "reap"} =>
          child[c] # 0 /\ procId[child[c]] = want[c]
    /\ \A c, d \in Starts : c # d /\ child[c] # 0 => child[c] # child[d]

\* A start that has reaped its id has no running process left.
ReapedStart ==
    \A c \in Starts :
        pc[c] \in {"kill", "wait", "done"} /\ result[c] # "Started" /\ child[c] # 0 =>
            proc[child[c]] # "running" \/ AboutToKill(child[c])

\* A child reap_all found and has not come to is still where it was, unless
\* it is dead or dying.
ListedStored ==
    /\ \A c \in ReapAlls : \A p \in listed[c] : proc[p] = "running" =>
          AboutToKill(p) \/ \E id \in want[c] : children[id] = p
    /\ \A c \in ReapAlls : pc[c] = "done" => want[c] = {}

Safe == /\ Fresh /\ OneId /\ OwnChild /\ NoOrphan /\ NoStuckReservation /\ ReapedStart
        /\ ListedStored

IInv == TypeOK /\ Safe

----------------------------------------------------------------------------
\* At the start there is no process, no reservation and no call.
LEMMA InitIInv == Init => IInv
<1> SUFFICES ASSUME Init PROVE IInv
  OBVIOUS
<1> USE SpawnAssumption DEF Init
<1>1. TypeOK
  BY DEF TypeOK, Pids, Outside, Steps, Results
<1>2. Fresh
  BY DEF Fresh, Pids
<1>3. OneId /\ OwnChild
  BY DEF OneId, OwnChild, Starting, Calls
<1>4. NoOrphan /\ NoStuckReservation
  BY DEF NoOrphan, NoStuckReservation
<1>5. ReapedStart /\ ListedStored
  BY DEF ReapedStart, ListedStored, Calls
<1> QED
  BY <1>1, <1>2, <1>3, <1>4, <1>5 DEF IInv, Safe

\* child_alive forgets a child that has exited, and nothing else.
LEMMA ChildAlive ==
    ASSUME TypeOK, NEW id \in Ids
    PROVE  /\ child_alive(id) \in [Ids -> 0..MaxPid]
           /\ \A i \in Ids : i # id => child_alive(id)[i] = children[i]
           /\ child_alive(id)[id] \in {0, children[id]}
           /\ children[id] # 0 /\ proc[children[id]] = "running" =>
                child_alive(id)[id] = children[id]
<1>1. children \in [Ids -> 0..MaxPid] /\ MaxPid \in Nat
  BY SpawnAssumption DEF TypeOK
<1>2. CASE Alive(id)
  <2>1. child_alive(id) = [children EXCEPT ![id] = children[id]]
    BY <1>1, <1>2 DEF child_alive
  <2> QED
    BY <1>1, <2>1
<1>3. CASE ~Alive(id)
  <2>1. child_alive(id) = [children EXCEPT ![id] = 0]
    BY <1>1, <1>3 DEF child_alive
  <2>2. ~(children[id] # 0 /\ proc[children[id]] = "running")
    BY <1>3 DEF Alive
  <2> QED
    BY <1>1, <2>1, <2>2
<1> QED
  BY <1>2, <1>3

\* Every step keeps the type invariant.
LEMMA TypeStep == TypeOK /\ [Next]_vars => TypeOK'
<1> SUFFICES ASSUME TypeOK, [Next]_vars PROVE TypeOK'
  OBVIOUS
<1> USE SpawnAssumption DEF TypeOK, Pids, Outside, Steps, Results, Goto, Finish
<1>1. ASSUME NEW c \in Calls, NEW id \in Ids, start_instance(c, id) PROVE TypeOK'
  <2>1. sawConnected' \in [Calls -> BOOLEAN]
    <3>1. (connected[id] # 0) \in BOOLEAN
      OBVIOUS
    <3> QED
      BY <1>1, <3>1 DEF start_instance
  <2> QED
    BY <1>1, <2>1 DEF start_instance, supervisorVars, processVars, reapVars
<1>2. ASSUME NEW c \in Calls, NEW id \in Ids, start(c, id) PROVE TypeOK'
  <2>1. children' \in [Ids -> 0..MaxPid]
    BY <1>2, ChildAlive DEF start, supervisorVars
  <2> QED
    BY <1>2, <2>1 DEF start, supervisorVars, processVars, reapVars
<1>3. ASSUME NEW c \in Calls, NEW id \in Ids, clear_starting(c, id) PROVE TypeOK'
  BY <1>3 DEF clear_starting, supervisorVars, processVars, callVars, reapVars
<1>4. ASSUME NEW c \in Calls, spawn(c) PROVE TypeOK'
  BY <1>4 DEF spawn, supervisorVars, processVars, callVars, reapVars
<1>5. ASSUME NEW c \in Calls, NEW id \in Ids, store(c, id) PROVE TypeOK'
  BY <1>5 DEF store, Kill, supervisorVars, processVars, callVars, reapVars
<1>6. ASSUME NEW c \in Calls, NEW id \in Ids, poll_register(c, id) PROVE TypeOK'
  BY <1>6 DEF poll_register, supervisorVars, processVars, callVars, reapVars
<1>7. ASSUME NEW c \in Calls, NEW id \in Ids, is_alive(c, id) PROVE TypeOK'
  <2>1. children' \in [Ids -> 0..MaxPid]
    BY <1>7, ChildAlive DEF is_alive
  <2> QED
    BY <1>7, <2>1 DEF is_alive, processVars, reapVars
<1>8. ASSUME NEW c \in Calls, deadline(c) PROVE TypeOK'
  BY <1>8 DEF deadline, supervisorVars, processVars, callVars, reapVars
<1>9. ASSUME NEW c \in Calls, NEW id \in Ids, shutdown_instance(c, id) PROVE TypeOK'
  BY <1>9 DEF shutdown_instance, supervisorVars, processVars, callVars, reapVars
<1>10. ASSUME NEW c \in Calls, reap_all(c) PROVE TypeOK'
  BY <1>10 DEF reap_all, supervisorVars, processVars, callVars, reapVars
<1>11. ASSUME NEW c \in Calls, NEW id \in Ids, reap(c, id) PROVE TypeOK'
  BY <1>11 DEF reap, supervisorVars, processVars, callVars, reapVars
<1>12. ASSUME NEW c \in Calls, start_kill(c) PROVE TypeOK'
  BY <1>12 DEF start_kill, Kill, supervisorVars, processVars, callVars, reapVars
<1>13. ASSUME NEW c \in Calls, reaped(c) PROVE TypeOK'
  BY <1>13 DEF reaped, supervisorVars, processVars, callVars, reapVars
<1>14. ASSUME NEW p \in Pids, exit(p) PROVE TypeOK'
  BY <1>14 DEF exit, supervisorVars, processVars, callVars, reapVars
<1>15. ASSUME NEW p \in Pids, NEW id \in Ids, register(p, id) PROVE TypeOK'
  BY <1>15 DEF register, supervisorVars, processVars, callVars, reapVars
<1>16. ASSUME NEW id \in Ids, register_outside(id) PROVE TypeOK'
  BY <1>16 DEF register_outside, supervisorVars, processVars, callVars, reapVars
<1>17. ASSUME NEW id \in Ids, disconnect(id) PROVE TypeOK'
  BY <1>17 DEF disconnect, supervisorVars, processVars, callVars, reapVars
<1>18. ASSUME NEW c \in Calls, tick(c) PROVE TypeOK'
  BY <1>18 DEF tick, supervisorVars, processVars, callVars, reapVars
<1>19. CASE UNCHANGED vars
  BY <1>19 DEF vars, supervisorVars, processVars, callVars, reapVars
<1> QED
  BY <1>1, <1>2, <1>3, <1>4, <1>5, <1>6, <1>7, <1>8, <1>9, <1>10, <1>11,
     <1>12, <1>13, <1>14, <1>15, <1>16, <1>17, <1>18, <1>19 DEF Next, Made, Call

\* Steps that touch neither the supervisor nor a call's progress.
safetyVars == <<starting, children, nextPid, proc, procId, pc, want, child, holding, listed,
                result>>

\* Such a step keeps every part of the invariant.
LEMMA Quiet == Safe /\ UNCHANGED safetyVars => Safe'
  BY DEF Safe, safetyVars, Fresh, OneId, OwnChild, NoOrphan, NoStuckReservation, ReapedStart,
     ListedStored, AboutToKill

\* start_instance only notes the id and whether it is connected.
LEMMA StartInstanceSafe ==
    ASSUME IInv, NEW c \in Calls, NEW id \in Ids, start_instance(c, id)
    PROVE  Safe'
<1> USE SpawnAssumption DEF TypeOK, Pids, Calls, Goto, Finish, start_instance, supervisorVars,
        processVars, callVars, reapVars
<1>0. TypeOK /\ Fresh /\ OneId /\ OwnChild /\ NoOrphan /\ NoStuckReservation /\ ReapedStart
      /\ ListedStored
  BY DEF IInv, Safe
<1>1. \A q \in Pids : AboutToKill(q) => AboutToKill(q)' \/ proc'[q] # "running"
  BY <1>0 DEF AboutToKill
<1>2. \A q \in Pids : proc'[q] = "running" => proc[q] = "running"
  BY <1>0
<1>3. \A q \in Pids, i \in Ids : children[i] = q /\ proc'[q] = "running" => children'[i] = q
  BY <1>0
<1>4. Fresh'
  BY <1>0 DEF Fresh
<1>5. OneId'
  BY <1>0 DEF OneId, Starting
<1>6. OwnChild'
  BY <1>0 DEF OwnChild, OneId, Fresh, Starting
<1>7. NoOrphan'
  BY <1>0, <1>1, <1>2, <1>3 DEF NoOrphan, OneId, OwnChild, Fresh, Starting
<1>8. NoStuckReservation'
  BY <1>0 DEF NoStuckReservation, OneId, Starting
<1>9. ReapedStart'
  BY <1>0, <1>1, <1>2, <1>3 DEF ReapedStart, OwnChild, OneId, NoOrphan, Fresh, Starting
<1>10. ListedStored'
  BY <1>0, <1>1, <1>2, <1>3 DEF ListedStored, Fresh, OneId
<1> QED
  BY <1>4, <1>5, <1>6, <1>7, <1>8, <1>9, <1>10 DEF Safe

\* start adds a reservation for its own id, and drops only a child that exited.
LEMMA StartSafe ==
    ASSUME IInv, NEW c \in Calls, NEW id \in Ids, start(c, id)
    PROVE  Safe'
<1>0. TypeOK /\ Fresh /\ OneId /\ OwnChild /\ NoOrphan /\ NoStuckReservation /\ ReapedStart
      /\ ListedStored
  BY DEF IInv, Safe
<1>1. /\ UNCHANGED <<nextPid, proc, procId, want, child, holding, listed>>
      /\ \A d \in Calls : d # c => pc'[d] = pc[d] /\ result'[d] = result[d]
  BY <1>0 DEF TypeOK, start, Goto, Finish, supervisorVars, processVars, reapVars
<1>2. /\ pc[c] = "start" /\ pc'[c] \in {"done", "spawn"} /\ id \in want[c]
      /\ \A i \in starting' : i \in starting \/ (i = id /\ pc'[c] = "spawn")
  BY <1>0, ChildAlive DEF TypeOK, start, Goto, Finish, supervisorVars
<1>3. c \in Starts /\ c \notin ReapAlls /\ Starts \subseteq Calls /\ ReapAlls \subseteq Calls
  BY <1>0, <1>2, SpawnAssumption DEF OneId, Starting, Calls
<1>4. \A q \in Pids : AboutToKill(q) => AboutToKill(q)'
  BY <1>1, <1>2 DEF AboutToKill
<1>5. /\ \A i \in Ids : children'[i] \in {0, children[i]}
      /\ \A i \in Ids : children[i] # 0 /\ proc[children[i]] = "running" =>
            children'[i] = children[i]
  BY <1>0, <1>1, ChildAlive DEF TypeOK, start, supervisorVars
<1>6. Fresh'
  BY <1>0, <1>1, <1>5 DEF Fresh, TypeOK
<1>7. OneId'
  BY <1>0, <1>1, <1>2, <1>3 DEF OneId, Starting
<1>8. OwnChild'
  BY <1>0, <1>1, <1>2, <1>3 DEF OwnChild
<1>9. NoOrphan'
  <2>1. SUFFICES ASSUME NEW p \in Pids, proc[p] = "running"
                 PROVE  \/ \E i \in procId[p] : children'[i] = p
                        \/ \E d \in Starts : pc'[d] = "store" /\ child[d] = p
                        \/ AboutToKill(p)'
    BY <1>1 DEF NoOrphan
  <2>2. CASE \E i \in procId[p] : children[i] = p
    <3>1. PICK i \in procId[p] : children[i] = p
      BY <2>2
    <3>2. i \in Ids /\ p # 0
      BY <1>0, SpawnAssumption DEF TypeOK, Pids
    <3> QED
      BY <2>1, <3>1, <3>2, <1>5
  <2>3. CASE \E d \in Starts : pc[d] = "store" /\ child[d] = p
    BY <2>3, <1>1, <1>2, <1>3
  <2> QED
    BY <2>1, <2>2, <2>3, <1>0, <1>4 DEF NoOrphan
<1>10. NoStuckReservation'
  BY <1>0, <1>1, <1>2, <1>3 DEF NoStuckReservation, OneId, Starting
<1>11. ReapedStart'
  <2>1. SUFFICES ASSUME NEW d \in Starts, pc'[d] \in {"kill", "wait", "done"},
                        result'[d] # "Started", child[d] # 0
                 PROVE  proc[child[d]] # "running" \/ AboutToKill(child[d])'
    BY <1>1 DEF ReapedStart
  <2>2. d # c
    BY <2>1, <1>0, <1>2 DEF OwnChild
  <2>3. child[d] \in Pids
    BY <2>1, <1>0, <1>3, SpawnAssumption DEF TypeOK, Pids
  <2> QED
    BY <2>1, <2>2, <2>3, <1>0, <1>1, <1>3, <1>4 DEF ReapedStart
<1>12. ListedStored'
  <2>1. ASSUME NEW d \in ReapAlls, NEW p \in listed[d], proc[p] = "running"
        PROVE  AboutToKill(p)' \/ \E i \in want[d] : children'[i] = p
    <3>1. p \in Pids /\ p # 0
      BY <1>0, <1>3, SpawnAssumption DEF Fresh, Pids
    <3>2. CASE AboutToKill(p)
      BY <3>1, <3>2, <1>4
    <3>3. CASE \E i \in want[d] : children[i] = p
      <4>1. PICK i \in want[d] : children[i] = p
        BY <3>3
      <4>2. i \in Ids
        BY <1>0, <1>3 DEF TypeOK
      <4> QED
        BY <2>1, <3>1, <4>1, <4>2, <1>5
    <3> QED
      BY <2>1, <3>2, <3>3, <1>0 DEF ListedStored
  <2>2. \A d \in ReapAlls : pc'[d] = "done" => want[d] = {}
    BY <1>0, <1>1, <1>3 DEF ListedStored
  <2> QED
    BY <2>1, <2>2, <1>1 DEF ListedStored
<1> QED
  BY <1>6, <1>7, <1>8, <1>9, <1>10, <1>11, <1>12 DEF Safe

\* A spawn that fails has no process and gives its reservation back.
LEMMA ClearStartingSafe ==
    ASSUME IInv, NEW c \in Calls, NEW id \in Ids, clear_starting(c, id)
    PROVE  Safe'
<1>0. TypeOK /\ Fresh /\ OneId /\ OwnChild /\ NoOrphan /\ NoStuckReservation /\ ReapedStart
      /\ ListedStored
  BY DEF IInv, Safe
<1>1. /\ UNCHANGED <<nextPid, proc, procId, want, child, holding, listed>>
      /\ \A d \in Calls : d # c => pc'[d] = pc[d] /\ result'[d] = result[d]
  BY <1>0 DEF TypeOK, clear_starting, Goto, Finish, supervisorVars, processVars, reapVars
<1>2. /\ pc[c] = "spawn" /\ pc'[c] = "done" /\ id \in want[c]
      /\ starting' = starting \ {id}
  BY <1>0 DEF TypeOK, clear_starting, Goto, Finish, supervisorVars
<1>3. c \in Starts /\ c \notin ReapAlls /\ Starts \subseteq Calls /\ ReapAlls \subseteq Calls
  BY <1>0, <1>2, SpawnAssumption DEF OneId, Starting, Calls
<1>4. \A q \in Pids : AboutToKill(q) => AboutToKill(q)'
  BY <1>1, <1>2 DEF AboutToKill
<1>5. /\ \A i \in Ids : children'[i] \in {0, children[i]}
      /\ \A i \in Ids : children[i] # 0 /\ proc[children[i]] = "running" =>
            children'[i] = children[i]
  BY <1>0, <1>1 DEF TypeOK, clear_starting, supervisorVars
<1>6. Fresh'
  BY <1>0, <1>1, <1>5 DEF Fresh, TypeOK
<1>7. OneId'
  BY <1>0, <1>1, <1>2, <1>3 DEF OneId, Starting
<1>8. OwnChild'
  BY <1>0, <1>1, <1>2, <1>3 DEF OwnChild
<1>9. NoOrphan'
  <2>1. SUFFICES ASSUME NEW p \in Pids, proc[p] = "running"
                 PROVE  \/ \E i \in procId[p] : children'[i] = p
                        \/ \E d \in Starts : pc'[d] = "store" /\ child[d] = p
                        \/ AboutToKill(p)'
    BY <1>1 DEF NoOrphan
  <2>2. CASE \E i \in procId[p] : children[i] = p
    <3>1. PICK i \in procId[p] : children[i] = p
      BY <2>2
    <3>2. i \in Ids /\ p # 0
      BY <1>0, SpawnAssumption DEF TypeOK, Pids
    <3> QED
      BY <2>1, <3>1, <3>2, <1>5
  <2>3. CASE \E d \in Starts : pc[d] = "store" /\ child[d] = p
    BY <2>3, <1>1, <1>2, <1>3
  <2> QED
    BY <2>1, <2>2, <2>3, <1>0, <1>4 DEF NoOrphan
<1>10. NoStuckReservation'
  BY <1>0, <1>1, <1>2, <1>3 DEF NoStuckReservation, OneId, Starting
<1>11. ReapedStart'
  <2>1. SUFFICES ASSUME NEW d \in Starts, pc'[d] \in {"kill", "wait", "done"},
                        result'[d] # "Started", child[d] # 0
                 PROVE  proc[child[d]] # "running" \/ AboutToKill(child[d])'
    BY <1>1 DEF ReapedStart
  <2>2. d # c
    BY <2>1, <1>0, <1>2 DEF OwnChild
  <2>3. child[d] \in Pids
    BY <2>1, <1>0, <1>3, SpawnAssumption DEF TypeOK, Pids
  <2> QED
    BY <2>1, <2>2, <2>3, <1>0, <1>1, <1>3, <1>4 DEF ReapedStart
<1>12. ListedStored'
  <2>1. ASSUME NEW d \in ReapAlls, NEW p \in listed[d], proc[p] = "running"
        PROVE  AboutToKill(p)' \/ \E i \in want[d] : children'[i] = p
    <3>1. p \in Pids /\ p # 0
      BY <1>0, <1>3, SpawnAssumption DEF Fresh, Pids
    <3>2. CASE AboutToKill(p)
      BY <3>1, <3>2, <1>4
    <3>3. CASE \E i \in want[d] : children[i] = p
      <4>1. PICK i \in want[d] : children[i] = p
        BY <3>3
      <4>2. i \in Ids
        BY <1>0, <1>3 DEF TypeOK
      <4> QED
        BY <2>1, <3>1, <4>1, <4>2, <1>5
    <3> QED
      BY <2>1, <3>2, <3>3, <1>0 DEF ListedStored
  <2>2. \A d \in ReapAlls : pc'[d] = "done" => want[d] = {}
    BY <1>0, <1>1, <1>3 DEF ListedStored
  <2> QED
    BY <2>1, <2>2, <1>1 DEF ListedStored
<1> QED
  BY <1>6, <1>7, <1>8, <1>9, <1>10, <1>11, <1>12 DEF Safe

\* The new process has a number nothing refers to yet and is in its start's hands.
LEMMA SpawnSafe ==
    ASSUME IInv, NEW c \in Calls, spawn(c)
    PROVE  Safe'
<1> USE SpawnAssumption DEF TypeOK, Pids, Calls, Goto, Finish, spawn, supervisorVars,
        processVars, callVars, reapVars
<1>0. TypeOK /\ Fresh /\ OneId /\ OwnChild /\ NoOrphan /\ NoStuckReservation /\ ReapedStart
      /\ ListedStored
  BY DEF IInv, Safe
<1>1. \A q \in Pids : AboutToKill(q) => AboutToKill(q)' \/ proc'[q] # "running"
  BY <1>0 DEF AboutToKill
<1>2. \A q \in Pids : proc'[q] = "running" /\ q # nextPid => proc[q] = "running"
  BY <1>0
<1>3. \A q \in Pids, i \in Ids : children[i] = q /\ proc'[q] = "running" => children'[i] = q
  BY <1>0
<1>4. Fresh'
  BY <1>0 DEF Fresh
<1>5. OneId'
  BY <1>0 DEF OneId, Starting
<1>6. OwnChild'
  BY <1>0 DEF OwnChild, OneId, Fresh, Starting
<1>7. NoOrphan'
  BY <1>0, <1>1, <1>2, <1>3 DEF NoOrphan, OneId, OwnChild, Fresh, Starting
<1>8. NoStuckReservation'
  BY <1>0 DEF NoStuckReservation, OneId, Starting
<1>9. ReapedStart'
  BY <1>0, <1>1, <1>2, <1>3 DEF ReapedStart, OwnChild, OneId, NoOrphan, Fresh, Starting
<1>10. ListedStored'
  BY <1>0, <1>1, <1>2, <1>3 DEF ListedStored, Fresh, OneId
<1> QED
  BY <1>4, <1>5, <1>6, <1>7, <1>8, <1>9, <1>10 DEF Safe

\* store hands the process over to the map and kills the one it displaces.
LEMMA StoreSafe ==
    ASSUME IInv, NEW c \in Calls, NEW id \in Ids, store(c, id)
    PROVE  Safe'
<1> USE SpawnAssumption DEF TypeOK, Pids, Calls, Goto, Finish, store, supervisorVars,
        processVars, callVars, reapVars
<1>0. TypeOK /\ Fresh /\ OneId /\ OwnChild /\ NoOrphan /\ NoStuckReservation /\ ReapedStart
      /\ ListedStored
  BY DEF IInv, Safe
<1>1. \A q \in Pids : AboutToKill(q) => AboutToKill(q)' \/ proc'[q] # "running"
  BY <1>0 DEF AboutToKill, Kill
<1>2. \A q \in Pids : proc'[q] = "running" => proc[q] = "running"
  BY <1>0 DEF Kill
<1>3. \A q \in Pids, i \in Ids : children[i] = q /\ proc'[q] = "running" => children'[i] = q
  BY <1>0 DEF Kill
<1>4. Fresh'
  BY <1>0 DEF Fresh, Kill
<1>5. OneId'
  BY <1>0 DEF OneId, Starting
<1>6. OwnChild'
  BY <1>0 DEF OwnChild, OneId, Fresh, Starting
<1>7. NoOrphan'
  <2> SUFFICES ASSUME NEW p \in Pids, proc'[p] = "running"
               PROVE  \/ \E i \in procId'[p] : children'[i] = p
                      \/ \E d \in Starts : pc'[d] = "store" /\ child'[d] = p
                      \/ AboutToKill(p)'
    BY DEF NoOrphan
  <2>1. c \in Starts /\ child[c] # 0 /\ procId[child[c]] = want[c] /\ id \in want[c]
    BY <1>0 DEF OneId, OwnChild, Starting
  <2>2. procId' = procId /\ child' = child /\ children'[id] = child[c]
    BY <1>0
  <2>3. CASE p = child[c]
    BY <2>1, <2>2, <2>3
  <2>4. ASSUME NEW i \in procId[p], children[i] = p PROVE children'[i] = p
    <3>1. i \in Ids
      BY <1>0
    <3> QED
      BY <3>1, <2>4, <1>3
  <2>5. ASSUME NEW d \in Starts, pc[d] = "store", child[d] = p, p # child[c]
        PROVE  pc'[d] = "store" /\ child'[d] = p
    BY <2>5, <1>0
  <2>6. proc[p] = "running"
    BY <1>2
  <2> QED
    BY <1>0, <1>1, <2>2, <2>3, <2>4, <2>5, <2>6 DEF NoOrphan
<1>8. NoStuckReservation'
  BY <1>0 DEF NoStuckReservation, OneId, Starting
<1>9. ReapedStart'
  BY <1>0, <1>1, <1>2, <1>3 DEF ReapedStart, OwnChild, OneId, NoOrphan, Fresh, Starting
<1>10. ListedStored'
  BY <1>0, <1>1, <1>2, <1>3 DEF ListedStored, Fresh, OneId
<1> QED
  BY <1>4, <1>5, <1>6, <1>7, <1>8, <1>9, <1>10 DEF Safe

\* Polling the instance map changes only where the start is.
LEMMA PollRegisterSafe ==
    ASSUME IInv, NEW c \in Calls, NEW id \in Ids, poll_register(c, id)
    PROVE  Safe'
<1>0. TypeOK /\ Fresh /\ OneId /\ OwnChild /\ NoOrphan /\ NoStuckReservation /\ ReapedStart
      /\ ListedStored
  BY DEF IInv, Safe
<1>1. /\ UNCHANGED <<nextPid, proc, procId, want, child, holding, listed>>
      /\ \A d \in Calls : d # c => pc'[d] = pc[d] /\ result'[d] = result[d]
  BY <1>0 DEF TypeOK, poll_register, Goto, Finish, supervisorVars, processVars, reapVars
<1>2. /\ pc[c] = "poll" /\ pc'[c] \in {"done", "alive"} /\ id \in want[c]
      /\ pc'[c] = "done" => result'[c] = "Started"
      /\ starting' = starting
  BY <1>0 DEF TypeOK, poll_register, Goto, Finish, supervisorVars
<1>3. c \in Starts /\ c \notin ReapAlls /\ Starts \subseteq Calls /\ ReapAlls \subseteq Calls
  BY <1>0, <1>2, SpawnAssumption DEF OneId, Starting, Calls
<1>4. \A q \in Pids : AboutToKill(q) => AboutToKill(q)'
  BY <1>1, <1>2 DEF AboutToKill
<1>5. /\ \A i \in Ids : children'[i] \in {0, children[i]}
      /\ \A i \in Ids : children[i] # 0 /\ proc[children[i]] = "running" =>
            children'[i] = children[i]
  BY <1>0, <1>1 DEF TypeOK, poll_register, supervisorVars
<1>6. Fresh'
  BY <1>0, <1>1, <1>5 DEF Fresh, TypeOK
<1>7. OneId'
  BY <1>0, <1>1, <1>2, <1>3 DEF OneId, Starting
<1>8. OwnChild'
  BY <1>0, <1>1, <1>2, <1>3 DEF OwnChild
<1>9. NoOrphan'
  <2>1. SUFFICES ASSUME NEW p \in Pids, proc[p] = "running"
                 PROVE  \/ \E i \in procId[p] : children'[i] = p
                        \/ \E d \in Starts : pc'[d] = "store" /\ child[d] = p
                        \/ AboutToKill(p)'
    BY <1>1 DEF NoOrphan
  <2>2. CASE \E i \in procId[p] : children[i] = p
    <3>1. PICK i \in procId[p] : children[i] = p
      BY <2>2
    <3>2. i \in Ids /\ p # 0
      BY <1>0, SpawnAssumption DEF TypeOK, Pids
    <3> QED
      BY <2>1, <3>1, <3>2, <1>5
  <2>3. CASE \E d \in Starts : pc[d] = "store" /\ child[d] = p
    BY <2>3, <1>1, <1>2, <1>3
  <2> QED
    BY <2>1, <2>2, <2>3, <1>0, <1>4 DEF NoOrphan
<1>10. NoStuckReservation'
  BY <1>0, <1>1, <1>2, <1>3 DEF NoStuckReservation, OneId, Starting
<1>11. ReapedStart'
  <2>1. SUFFICES ASSUME NEW d \in Starts, pc'[d] \in {"kill", "wait", "done"},
                        result'[d] # "Started", child[d] # 0
                 PROVE  proc[child[d]] # "running" \/ AboutToKill(child[d])'
    BY <1>1 DEF ReapedStart
  <2>2. d # c
    BY <2>1, <1>0, <1>2 DEF OwnChild
  <2>3. child[d] \in Pids
    BY <2>1, <1>0, <1>3, SpawnAssumption DEF TypeOK, Pids
  <2> QED
    BY <2>1, <2>2, <2>3, <1>0, <1>1, <1>3, <1>4 DEF ReapedStart
<1>12. ListedStored'
  <2>1. ASSUME NEW d \in ReapAlls, NEW p \in listed[d], proc[p] = "running"
        PROVE  AboutToKill(p)' \/ \E i \in want[d] : children'[i] = p
    <3>1. p \in Pids /\ p # 0
      BY <1>0, <1>3, SpawnAssumption DEF Fresh, Pids
    <3>2. CASE AboutToKill(p)
      BY <3>1, <3>2, <1>4
    <3>3. CASE \E i \in want[d] : children[i] = p
      <4>1. PICK i \in want[d] : children[i] = p
        BY <3>3
      <4>2. i \in Ids
        BY <1>0, <1>3 DEF TypeOK
      <4> QED
        BY <2>1, <3>1, <4>1, <4>2, <1>5
    <3> QED
      BY <2>1, <3>2, <3>3, <1>0 DEF ListedStored
  <2>2. \A d \in ReapAlls : pc'[d] = "done" => want[d] = {}
    BY <1>0, <1>1, <1>3 DEF ListedStored
  <2> QED
    BY <2>1, <2>2, <1>1 DEF ListedStored
<1> QED
  BY <1>6, <1>7, <1>8, <1>9, <1>10, <1>11, <1>12 DEF Safe

\* A child found exited is forgotten; a start whose child was taken goes to reap.
LEMMA IsAliveSafe ==
    ASSUME IInv, NEW c \in Calls, NEW id \in Ids, is_alive(c, id)
    PROVE  Safe'
<1>0. TypeOK /\ Fresh /\ OneId /\ OwnChild /\ NoOrphan /\ NoStuckReservation /\ ReapedStart
      /\ ListedStored
  BY DEF IInv, Safe
<1>1. /\ UNCHANGED <<nextPid, proc, procId, want, child, holding, listed>>
      /\ \A d \in Calls : d # c => pc'[d] = pc[d] /\ result'[d] = result[d]
  BY <1>0 DEF TypeOK, is_alive, Goto, Finish, supervisorVars, processVars, reapVars
<1>2. /\ pc[c] = "alive" /\ pc'[c] \in {"deadline", "reap"} /\ id \in want[c]
      /\ starting' = starting
  BY <1>0, ChildAlive DEF TypeOK, is_alive, Goto, Finish, supervisorVars
<1>3. c \in Starts /\ c \notin ReapAlls /\ Starts \subseteq Calls /\ ReapAlls \subseteq Calls
  BY <1>0, <1>2, SpawnAssumption DEF OneId, Starting, Calls
<1>4. \A q \in Pids : AboutToKill(q) => AboutToKill(q)'
  BY <1>1, <1>2 DEF AboutToKill
<1>5. /\ \A i \in Ids : children'[i] \in {0, children[i]}
      /\ \A i \in Ids : children[i] # 0 /\ proc[children[i]] = "running" =>
            children'[i] = children[i]
  BY <1>0, <1>1, ChildAlive DEF TypeOK, is_alive, supervisorVars
<1>6. Fresh'
  BY <1>0, <1>1, <1>5 DEF Fresh, TypeOK
<1>7. OneId'
  BY <1>0, <1>1, <1>2, <1>3 DEF OneId, Starting
<1>8. OwnChild'
  BY <1>0, <1>1, <1>2, <1>3 DEF OwnChild
<1>9. NoOrphan'
  <2>1. SUFFICES ASSUME NEW p \in Pids, proc[p] = "running"
                 PROVE  \/ \E i \in procId[p] : children'[i] = p
                        \/ \E d \in Starts : pc'[d] = "store" /\ child[d] = p
                        \/ AboutToKill(p)'
    BY <1>1 DEF NoOrphan
  <2>2. CASE \E i \in procId[p] : children[i] = p
    <3>1. PICK i \in procId[p] : children[i] = p
      BY <2>2
    <3>2. i \in Ids /\ p # 0
      BY <1>0, SpawnAssumption DEF TypeOK, Pids
    <3> QED
      BY <2>1, <3>1, <3>2, <1>5
  <2>3. CASE \E d \in Starts : pc[d] = "store" /\ child[d] = p
    BY <2>3, <1>1, <1>2, <1>3
  <2> QED
    BY <2>1, <2>2, <2>3, <1>0, <1>4 DEF NoOrphan
<1>10. NoStuckReservation'
  BY <1>0, <1>1, <1>2, <1>3 DEF NoStuckReservation, OneId, Starting
<1>11. ReapedStart'
  <2>1. SUFFICES ASSUME NEW d \in Starts, pc'[d] \in {"kill", "wait", "done"},
                        result'[d] # "Started", child[d] # 0
                 PROVE  proc[child[d]] # "running" \/ AboutToKill(child[d])'
    BY <1>1 DEF ReapedStart
  <2>2. d # c
    BY <2>1, <1>0, <1>2 DEF OwnChild
  <2>3. child[d] \in Pids
    BY <2>1, <1>0, <1>3, SpawnAssumption DEF TypeOK, Pids
  <2> QED
    BY <2>1, <2>2, <2>3, <1>0, <1>1, <1>3, <1>4 DEF ReapedStart
<1>12. ListedStored'
  <2>1. ASSUME NEW d \in ReapAlls, NEW p \in listed[d], proc[p] = "running"
        PROVE  AboutToKill(p)' \/ \E i \in want[d] : children'[i] = p
    <3>1. p \in Pids /\ p # 0
      BY <1>0, <1>3, SpawnAssumption DEF Fresh, Pids
    <3>2. CASE AboutToKill(p)
      BY <3>1, <3>2, <1>4
    <3>3. CASE \E i \in want[d] : children[i] = p
      <4>1. PICK i \in want[d] : children[i] = p
        BY <3>3
      <4>2. i \in Ids
        BY <1>0, <1>3 DEF TypeOK
      <4> QED
        BY <2>1, <3>1, <4>1, <4>2, <1>5
    <3> QED
      BY <2>1, <3>2, <3>3, <1>0 DEF ListedStored
  <2>2. \A d \in ReapAlls : pc'[d] = "done" => want[d] = {}
    BY <1>0, <1>1, <1>3 DEF ListedStored
  <2> QED
    BY <2>1, <2>2, <1>1 DEF ListedStored
<1> QED
  BY <1>6, <1>7, <1>8, <1>9, <1>10, <1>11, <1>12 DEF Safe

\* A start that is late goes to reap, still on its one id.
LEMMA DeadlineSafe ==
    ASSUME IInv, NEW c \in Calls, deadline(c)
    PROVE  Safe'
<1>0. TypeOK /\ Fresh /\ OneId /\ OwnChild /\ NoOrphan /\ NoStuckReservation /\ ReapedStart
      /\ ListedStored
  BY DEF IInv, Safe
<1>1. /\ UNCHANGED <<nextPid, proc, procId, want, child, holding, listed>>
      /\ \A d \in Calls : d # c => pc'[d] = pc[d] /\ result'[d] = result[d]
  BY <1>0 DEF TypeOK, deadline, Goto, Finish, supervisorVars, processVars, reapVars
<1>2. /\ pc[c] = "deadline" /\ pc'[c] \in {"poll", "reap"}
      /\ starting' = starting
  BY <1>0 DEF TypeOK, deadline, Goto, Finish, supervisorVars
<1>3. c \in Starts /\ c \notin ReapAlls /\ Starts \subseteq Calls /\ ReapAlls \subseteq Calls
  BY <1>0, <1>2, SpawnAssumption DEF OneId, Starting, Calls
<1>4. \A q \in Pids : AboutToKill(q) => AboutToKill(q)'
  BY <1>1, <1>2 DEF AboutToKill
<1>5. /\ \A i \in Ids : children'[i] \in {0, children[i]}
      /\ \A i \in Ids : children[i] # 0 /\ proc[children[i]] = "running" =>
            children'[i] = children[i]
  BY <1>0, <1>1 DEF TypeOK, deadline, supervisorVars
<1>6. Fresh'
  BY <1>0, <1>1, <1>5 DEF Fresh, TypeOK
<1>7. OneId'
  BY <1>0, <1>1, <1>2, <1>3 DEF OneId, Starting
<1>8. OwnChild'
  BY <1>0, <1>1, <1>2, <1>3 DEF OwnChild
<1>9. NoOrphan'
  <2>1. SUFFICES ASSUME NEW p \in Pids, proc[p] = "running"
                 PROVE  \/ \E i \in procId[p] : children'[i] = p
                        \/ \E d \in Starts : pc'[d] = "store" /\ child[d] = p
                        \/ AboutToKill(p)'
    BY <1>1 DEF NoOrphan
  <2>2. CASE \E i \in procId[p] : children[i] = p
    <3>1. PICK i \in procId[p] : children[i] = p
      BY <2>2
    <3>2. i \in Ids /\ p # 0
      BY <1>0, SpawnAssumption DEF TypeOK, Pids
    <3> QED
      BY <2>1, <3>1, <3>2, <1>5
  <2>3. CASE \E d \in Starts : pc[d] = "store" /\ child[d] = p
    BY <2>3, <1>1, <1>2, <1>3
  <2> QED
    BY <2>1, <2>2, <2>3, <1>0, <1>4 DEF NoOrphan
<1>10. NoStuckReservation'
  BY <1>0, <1>1, <1>2, <1>3 DEF NoStuckReservation, OneId, Starting
<1>11. ReapedStart'
  <2>1. SUFFICES ASSUME NEW d \in Starts, pc'[d] \in {"kill", "wait", "done"},
                        result'[d] # "Started", child[d] # 0
                 PROVE  proc[child[d]] # "running" \/ AboutToKill(child[d])'
    BY <1>1 DEF ReapedStart
  <2>2. d # c
    BY <2>1, <1>0, <1>2 DEF OwnChild
  <2>3. child[d] \in Pids
    BY <2>1, <1>0, <1>3, SpawnAssumption DEF TypeOK, Pids
  <2> QED
    BY <2>1, <2>2, <2>3, <1>0, <1>1, <1>3, <1>4 DEF ReapedStart
<1>12. ListedStored'
  <2>1. ASSUME NEW d \in ReapAlls, NEW p \in listed[d], proc[p] = "running"
        PROVE  AboutToKill(p)' \/ \E i \in want[d] : children'[i] = p
    <3>1. p \in Pids /\ p # 0
      BY <1>0, <1>3, SpawnAssumption DEF Fresh, Pids
    <3>2. CASE AboutToKill(p)
      BY <3>1, <3>2, <1>4
    <3>3. CASE \E i \in want[d] : children[i] = p
      <4>1. PICK i \in want[d] : children[i] = p
        BY <3>3
      <4>2. i \in Ids
        BY <1>0, <1>3 DEF TypeOK
      <4> QED
        BY <2>1, <3>1, <4>1, <4>2, <1>5
    <3> QED
      BY <2>1, <3>2, <3>3, <1>0 DEF ListedStored
  <2>2. \A d \in ReapAlls : pc'[d] = "done" => want[d] = {}
    BY <1>0, <1>1, <1>3 DEF ListedStored
  <2> QED
    BY <2>1, <2>2, <1>1 DEF ListedStored
<1> QED
  BY <1>6, <1>7, <1>8, <1>9, <1>10, <1>11, <1>12 DEF Safe

\* shutdown_instance names the id it is about to reap.
LEMMA ShutdownInstanceSafe ==
    ASSUME IInv, NEW c \in Calls, NEW id \in Ids, shutdown_instance(c, id)
    PROVE  Safe'
<1> USE SpawnAssumption DEF TypeOK, Pids, Calls, Goto, Finish, shutdown_instance, supervisorVars,
        processVars, callVars, reapVars
<1>0. TypeOK /\ Fresh /\ OneId /\ OwnChild /\ NoOrphan /\ NoStuckReservation /\ ReapedStart
      /\ ListedStored
  BY DEF IInv, Safe
<1>1. \A q \in Pids : AboutToKill(q) => AboutToKill(q)' \/ proc'[q] # "running"
  BY <1>0 DEF AboutToKill
<1>2. \A q \in Pids : proc'[q] = "running" => proc[q] = "running"
  BY <1>0
<1>3. \A q \in Pids, i \in Ids : children[i] = q /\ proc'[q] = "running" => children'[i] = q
  BY <1>0
<1>4. Fresh'
  BY <1>0 DEF Fresh
<1>5. OneId'
  BY <1>0 DEF OneId, Starting
<1>6. OwnChild'
  BY <1>0 DEF OwnChild, OneId, Fresh, Starting
<1>7. NoOrphan'
  BY <1>0, <1>1, <1>2, <1>3 DEF NoOrphan, OneId, OwnChild, Fresh, Starting
<1>8. NoStuckReservation'
  BY <1>0 DEF NoStuckReservation, OneId, Starting
<1>9. ReapedStart'
  BY <1>0, <1>1, <1>2, <1>3 DEF ReapedStart, OwnChild, OneId, NoOrphan, Fresh, Starting
<1>10. ListedStored'
  BY <1>0, <1>1, <1>2, <1>3 DEF ListedStored, Fresh, OneId
<1> QED
  BY <1>4, <1>5, <1>6, <1>7, <1>8, <1>9, <1>10 DEF Safe

\* reap_all lists children that are stored under the ids it has to come to.
LEMMA ReapAllSafe ==
    ASSUME IInv, NEW c \in Calls, reap_all(c)
    PROVE  Safe'
<1> USE SpawnAssumption DEF TypeOK, Pids, Calls, Goto, Finish, reap_all, supervisorVars,
        processVars, callVars, reapVars
<1>0. TypeOK /\ Fresh /\ OneId /\ OwnChild /\ NoOrphan /\ NoStuckReservation /\ ReapedStart
      /\ ListedStored
  BY DEF IInv, Safe
<1>1. \A q \in Pids : AboutToKill(q) => AboutToKill(q)' \/ proc'[q] # "running"
  BY <1>0 DEF AboutToKill
<1>2. \A q \in Pids : proc'[q] = "running" => proc[q] = "running"
  BY <1>0
<1>3. \A q \in Pids, i \in Ids : children[i] = q /\ proc'[q] = "running" => children'[i] = q
  BY <1>0
<1>4. Fresh'
  BY <1>0 DEF Fresh
<1>5. OneId'
  BY <1>0 DEF OneId, Starting
<1>6. OwnChild'
  BY <1>0 DEF OwnChild, OneId, Fresh, Starting
<1>7. NoOrphan'
  BY <1>0, <1>1, <1>2, <1>3 DEF NoOrphan, OneId, OwnChild, Fresh, Starting
<1>8. NoStuckReservation'
  BY <1>0 DEF NoStuckReservation, OneId, Starting
<1>9. ReapedStart'
  BY <1>0, <1>1, <1>2, <1>3 DEF ReapedStart, OwnChild, OneId, NoOrphan, Fresh, Starting
<1>10. ListedStored'
  BY <1>0, <1>1, <1>2, <1>3 DEF ListedStored, Fresh, OneId
<1> QED
  BY <1>4, <1>5, <1>6, <1>7, <1>8, <1>9, <1>10 DEF Safe

\* reap takes the child out of the map into its own hands; a start has then no id left.
LEMMA ReapSafe ==
    ASSUME IInv, NEW c \in Calls, NEW id \in Ids, reap(c, id)
    PROVE  Safe'
<1> USE SpawnAssumption DEF TypeOK, Pids, Calls, Goto, Finish, reap, supervisorVars,
        processVars, callVars, reapVars
<1>0. TypeOK /\ Fresh /\ OneId /\ OwnChild /\ NoOrphan /\ NoStuckReservation /\ ReapedStart
      /\ ListedStored
  BY DEF IInv, Safe
<1>1. \A q \in Pids : AboutToKill(q) => AboutToKill(q)' \/ proc'[q] # "running"
  BY <1>0 DEF AboutToKill
<1>2. \A q \in Pids : proc'[q] = "running" => proc[q] = "running"
  BY <1>0
<1>3. \A q \in Pids, i \in Ids : children[i] = q => children'[i] = q \/ AboutToKill(q)'
  BY <1>0 DEF AboutToKill
<1>4. Fresh'
  BY <1>0 DEF Fresh
<1>5. OneId'
  <2>1. c \in Starts => want'[c] = {}
    <3> SUFFICES ASSUME c \in Starts PROVE want'[c] = {}
      OBVIOUS
    <3>1. PICK i \in Ids : want[c] = {i}
      BY <1>0 DEF OneId
    <3> QED
      BY <1>0, <3>1
  <2>2. /\ pc'[c] = "kill"
        /\ \A d \in Calls : d # c => pc'[d] = pc[d] /\ want'[d] = want[d]
    BY <1>0
  <2> QED
    BY <1>0, <2>1, <2>2 DEF OneId, Starting
<1>6. OwnChild'
  BY <1>0 DEF OwnChild, OneId, Fresh, Starting
<1>7. NoOrphan'
  BY <1>0, <1>1, <1>2, <1>3 DEF NoOrphan, OneId, OwnChild, Fresh, Starting
<1>8. NoStuckReservation'
  BY <1>0 DEF NoStuckReservation, OneId, Starting
<1>9. ReapedStart'
  BY <1>0, <1>1, <1>2, <1>3 DEF ReapedStart, OwnChild, OneId, NoOrphan, Fresh, Starting
<1>10. ListedStored'
  BY <1>0, <1>1, <1>2, <1>3 DEF ListedStored, Fresh, OneId
<1> QED
  BY <1>4, <1>5, <1>6, <1>7, <1>8, <1>9, <1>10 DEF Safe

\* The kill ends what the reap held.
LEMMA StartKillSafe ==
    ASSUME IInv, NEW c \in Calls, start_kill(c)
    PROVE  Safe'
<1> USE SpawnAssumption DEF TypeOK, Pids, Calls, Goto, Finish, start_kill, supervisorVars,
        processVars, callVars, reapVars
<1>0. TypeOK /\ Fresh /\ OneId /\ OwnChild /\ NoOrphan /\ NoStuckReservation /\ ReapedStart
      /\ ListedStored
  BY DEF IInv, Safe
<1>1. \A q \in Pids : AboutToKill(q) => AboutToKill(q)' \/ proc'[q] # "running"
  BY <1>0 DEF AboutToKill, Kill
<1>2. \A q \in Pids : proc'[q] = "running" => proc[q] = "running"
  BY <1>0 DEF Kill
<1>3. \A q \in Pids, i \in Ids : children[i] = q /\ proc'[q] = "running" => children'[i] = q
  BY <1>0 DEF Kill
<1>4. Fresh'
  BY <1>0 DEF Fresh, Kill
<1>5. OneId'
  BY <1>0 DEF OneId, Starting
<1>6. OwnChild'
  BY <1>0 DEF OwnChild, OneId, Fresh, Starting
<1>7. NoOrphan'
  BY <1>0, <1>1, <1>2, <1>3 DEF NoOrphan, OneId, OwnChild, Fresh, Starting
<1>8. NoStuckReservation'
  BY <1>0 DEF NoStuckReservation, OneId, Starting
<1>9. ReapedStart'
  BY <1>0, <1>1, <1>2, <1>3 DEF ReapedStart, OwnChild, OneId, NoOrphan, Fresh, Starting
<1>10. ListedStored'
  BY <1>0, <1>1, <1>2, <1>3 DEF ListedStored, Fresh, OneId
<1> QED
  BY <1>4, <1>5, <1>6, <1>7, <1>8, <1>9, <1>10 DEF Safe

\* A reap that ends goes on to the next id or is done.
LEMMA ReapedSafe ==
    ASSUME IInv, NEW c \in Calls, reaped(c)
    PROVE  Safe'
<1> USE SpawnAssumption DEF TypeOK, Pids, Calls, Goto, Finish, reaped, supervisorVars,
        processVars, callVars, reapVars
<1>0. TypeOK /\ Fresh /\ OneId /\ OwnChild /\ NoOrphan /\ NoStuckReservation /\ ReapedStart
      /\ ListedStored
  BY DEF IInv, Safe
<1>1. \A q \in Pids : AboutToKill(q) => AboutToKill(q)' \/ proc'[q] # "running"
  BY <1>0 DEF AboutToKill
<1>2. \A q \in Pids : proc'[q] = "running" => proc[q] = "running"
  BY <1>0
<1>3. \A q \in Pids, i \in Ids : children[i] = q /\ proc'[q] = "running" => children'[i] = q
  BY <1>0
<1>4. Fresh'
  BY <1>0 DEF Fresh
<1>5. OneId'
  BY <1>0 DEF OneId, Starting
<1>6. OwnChild'
  BY <1>0 DEF OwnChild, OneId, Fresh, Starting
<1>7. NoOrphan'
  BY <1>0, <1>1, <1>2, <1>3 DEF NoOrphan, OneId, OwnChild, Fresh, Starting
<1>8. NoStuckReservation'
  BY <1>0 DEF NoStuckReservation, OneId, Starting
<1>9. ReapedStart'
  BY <1>0, <1>1, <1>2, <1>3 DEF ReapedStart, OwnChild, OneId, NoOrphan, Fresh, Starting
<1>10. ListedStored'
  BY <1>0, <1>1, <1>2, <1>3 DEF ListedStored, Fresh, OneId
<1> QED
  BY <1>4, <1>5, <1>6, <1>7, <1>8, <1>9, <1>10 DEF Safe

\* An exit takes a running process away and adds none.
LEMMA ExitSafe ==
    ASSUME IInv, NEW p \in Pids, exit(p)
    PROVE  Safe'
<1> USE SpawnAssumption DEF TypeOK, Pids, Calls, Goto, Finish, exit, supervisorVars,
        processVars, callVars, reapVars
<1>0. TypeOK /\ Fresh /\ OneId /\ OwnChild /\ NoOrphan /\ NoStuckReservation /\ ReapedStart
      /\ ListedStored
  BY DEF IInv, Safe
<1>1. \A q \in Pids : AboutToKill(q) => AboutToKill(q)' \/ proc'[q] # "running"
  BY <1>0 DEF AboutToKill
<1>2. \A q \in Pids : proc'[q] = "running" => proc[q] = "running"
  BY <1>0
<1>3. \A q \in Pids, i \in Ids : children[i] = q /\ proc'[q] = "running" => children'[i] = q
  BY <1>0
<1>4. Fresh'
  BY <1>0 DEF Fresh
<1>5. OneId'
  BY <1>0 DEF OneId, Starting
<1>6. OwnChild'
  BY <1>0 DEF OwnChild, OneId, Fresh, Starting
<1>7. NoOrphan'
  BY <1>0, <1>1, <1>2, <1>3 DEF NoOrphan, OneId, OwnChild, Fresh, Starting
<1>8. NoStuckReservation'
  BY <1>0 DEF NoStuckReservation, OneId, Starting
<1>9. ReapedStart'
  BY <1>0, <1>1, <1>2, <1>3 DEF ReapedStart, OwnChild, OneId, NoOrphan, Fresh, Starting
<1>10. ListedStored'
  BY <1>0, <1>1, <1>2, <1>3 DEF ListedStored, Fresh, OneId
<1> QED
  BY <1>4, <1>5, <1>6, <1>7, <1>8, <1>9, <1>10 DEF Safe

----------------------------------------------------------------------------
\* The invariant is inductive.
LEMMA Inductive == IInv /\ [Next]_vars => IInv'
<1> SUFFICES ASSUME IInv, [Next]_vars PROVE IInv'
  OBVIOUS
<1>1. TypeOK'
  BY TypeStep DEF IInv
<1>2. ASSUME NEW c \in Calls, Made(c) PROVE Safe'
  BY <1>2, StartInstanceSafe, ShutdownInstanceSafe, ReapAllSafe DEF Made
<1>3. ASSUME NEW c \in Calls, Call(c) PROVE Safe'
  BY <1>3, StartSafe, ClearStartingSafe, SpawnSafe, StoreSafe, PollRegisterSafe, IsAliveSafe,
     DeadlineSafe, ReapSafe, StartKillSafe, ReapedSafe DEF Call
<1>4. ASSUME NEW p \in Pids, exit(p) PROVE Safe'
  BY <1>4, ExitSafe
<1>5. ASSUME \/ \E c \in Calls : tick(c)
             \/ \E p \in Pids, id \in Ids : register(p, id)
             \/ \E id \in Ids : register_outside(id) \/ disconnect(id)
             \/ UNCHANGED vars
      PROVE  Safe'
  <2>1. UNCHANGED safetyVars
    BY <1>5 DEF tick, register, register_outside, disconnect, safetyVars, vars, supervisorVars,
       processVars, callVars, reapVars
  <2> QED
    BY <2>1, Quiet DEF IInv
<1>6. Safe'
  BY <1>2, <1>3, <1>4, <1>5 DEF Next
<1> QED
  BY <1>1, <1>6 DEF IInv

\* Every state of the supervisor satisfies the invariant.
THEOREM Invariance == Spec => []IInv
  BY InitIInv, Inductive, PTL DEF Spec

\* The state of spawn.rs and of the calls that drive it keeps its shape.
THEOREM TypeCorrect == Spec => []TypeOK
<1>1. IInv => TypeOK
  BY DEF IInv
<1> QED
  BY <1>1, Invariance, PTL

\* However starts, shutdowns and the reap of a closing transport interleave on
\* however many ids, no simulator the proxy started runs untracked.
THEOREM NoOrphanCorrect == Spec => []NoOrphan
<1>1. IInv => NoOrphan
  BY DEF IInv, Safe
<1> QED
  BY <1>1, Invariance, PTL

\* No failed or overtaken start leaves its id reserved.
THEOREM NoStuckReservationCorrect == Spec => []NoStuckReservation
<1>1. IInv => NoStuckReservation
  BY DEF IInv, Safe
<1> QED
  BY <1>1, Invariance, PTL

\* A start_instance that answered with an error leaves no simulator running.
THEOREM FailedStartCorrect == Spec => []FailedStartLeavesNothing
<1>1. IInv => FailedStartLeavesNothing
  BY DEF IInv, Safe, ReapedStart, FailedStartLeavesNothing
<1> QED
  BY <1>1, Invariance, PTL

\* When reap_all is done, every child it listed was killed or has exited.
THEOREM ReapAllCorrect == Spec => []ReapAllKillsListed
<1>1. IInv => ReapAllKillsListed
  BY DEF IInv, Safe, ListedStored, ReapAllKillsListed
<1> QED
  BY <1>1, Invariance, PTL
=============================================================================
