-------------------------- MODULE SpawnSupervisor --------------------------
(***************************************************************************)
(* The simulators the proxy starts itself: SpawnSupervisor (spawn.rs), the *)
(* start_instance and shutdown_instance tools (mcp.rs) that drive it, and  *)
(* the reap of every child when the MCP transport ends.  Tool calls run    *)
(* concurrently; the supervisor's mutex is held for one step at a time,    *)
(* and start_instance polls the instance map and the child between sleeps. *)
(***************************************************************************)
EXTENDS Naturals, FiniteSets

CONSTANTS
    Ids,        \* the valid instance ids
    Starts,     \* start_instance calls, each made once
    Shutdowns,  \* shutdown_instance calls, each made once
    ReapAlls,   \* the reap_all of a transport that ends
    MaxPid      \* bound on the processes started

ASSUME SpawnAssumption ==
    /\ MaxPid \in Nat
    /\ Starts \cap (Shutdowns \cup ReapAlls) = {}
    /\ Shutdowns \cap ReapAlls = {}

Pids    == 1..MaxPid
Outside == MaxPid + 1     \* a simulator someone else started
Calls   == Starts \cup Shutdowns \cup ReapAlls

VARIABLES
    starting,   \* Inner.starting: the ids a start has reserved
    children,   \* Inner.children: the process stored under an id, or 0
    nextPid,    \* the next process to start
    proc,       \* "unused", "running", "killed" (a kill is on its way), "exited"
    procId,     \* the --sim-instance-id a process was started with
    connected,  \* whose Session holds an id: a process, Outside, or 0
    pc,         \* where a call is
    want,       \* the ids a call is about
    sawConnected, \* start_instance: the id was connected when the call looked
    child,      \* start_instance: the process it started, or 0
    late,       \* start_instance: the deadline has passed
    holding,    \* reap: the child taken out and not yet killed, or 0
    listed,     \* history: the children reap_all listed
    result      \* how a call ended

supervisorVars == <<starting, children>>
processVars    == <<nextPid, proc, procId>>
reapVars       == <<holding, listed>>
callVars       == <<pc, want, sawConnected, child, late, reapVars, result>>
vars == <<supervisorVars, processVars, connected, callVars>>

Steps   == {"idle", "start", "spawn", "store", "poll", "alive", "deadline", "reap", "kill",
            "wait", "done"}
Results == {"none", "Started", "Reaped", "AlreadyConnected", "AlreadySpawned",
            "SpawnFailed", "ExitedBeforeRegister", "RegisterTimeout"}

TypeOK ==
    /\ starting \subseteq Ids
    /\ children \in [Ids -> 0..MaxPid]
    /\ nextPid \in 1..MaxPid + 1
    /\ proc \in [Pids -> {"unused", "running", "killed", "exited"}]
    /\ procId \in [Pids -> SUBSET Ids]
    /\ connected \in [Ids -> 0..Outside]
    /\ pc \in [Calls -> Steps]
    /\ want \in [Calls -> SUBSET Ids]
    /\ sawConnected \in [Calls -> BOOLEAN]
    /\ child \in [Calls -> 0..MaxPid]
    /\ late \in [Calls -> BOOLEAN]
    /\ holding \in [Calls -> 0..MaxPid]
    /\ listed \in [Calls -> SUBSET (0..MaxPid)]
    /\ result \in [Calls -> Results]

Init ==
    /\ starting = {}
    /\ children = [id \in Ids |-> 0]
    /\ nextPid = 1
    /\ proc = [p \in Pids |-> "unused"]
    /\ procId = [p \in Pids |-> {}]
    /\ connected = [id \in Ids |-> 0]
    /\ pc = [c \in Calls |-> "idle"]
    /\ want = [c \in Calls |-> {}]
    /\ sawConnected = [c \in Calls |-> FALSE]
    /\ child = [c \in Calls |-> 0]
    /\ late = [c \in Calls |-> FALSE]
    /\ holding = [c \in Calls |-> 0]
    /\ listed = [c \in Calls |-> {}]
    /\ result = [c \in Calls |-> "none"]

----------------------------------------------------------------------------
(* The supervisor.                                                         *)

Goto(c, step) == pc' = [pc EXCEPT ![c] = step]
Finish(c, r)  == Goto(c, "done") /\ result' = [result EXCEPT ![c] = r]

\* The processes after a kill: it takes effect later, and not on an exited one.
Kill(p) == IF p # 0 /\ proc[p] = "running" THEN [proc EXCEPT ![p] = "killed"] ELSE proc

\* try_wait has not seen the stored child exit.
Alive(id) == children[id] # 0 /\ proc[children[id]] # "exited"

\* child_alive forgets a child it finds exited.
child_alive(id) == [children EXCEPT ![id] = IF Alive(id) THEN @ ELSE 0]

\* start_instance reads the instance map, before and outside the lock.
start_instance(c, id) ==
    /\ pc[c] = "idle" /\ c \in Starts
    /\ want' = [want EXCEPT ![c] = {id}]
    /\ sawConnected' = [sawConnected EXCEPT ![c] = connected[id] # 0]
    /\ Goto(c, "start")
    /\ UNCHANGED <<supervisorVars, processVars, connected, child, late, reapVars, result>>

\* SpawnSupervisor::start: refuse, or reserve the id.
start(c, id) ==
    /\ pc[c] = "start" /\ id \in want[c]
    /\ \/ /\ sawConnected[c]
          /\ Finish(c, "AlreadyConnected")
          /\ UNCHANGED supervisorVars
       \/ /\ ~sawConnected[c] /\ id \in starting
          /\ Finish(c, "AlreadySpawned")
          /\ UNCHANGED supervisorVars
       \/ /\ ~sawConnected[c] /\ id \notin starting
          /\ children' = child_alive(id)
          /\ \/ Alive(id) /\ Finish(c, "AlreadySpawned") /\ UNCHANGED starting
             \/ /\ ~Alive(id)
                /\ starting' = starting \cup {id}
                /\ Goto(c, "spawn")
                /\ UNCHANGED result
    /\ UNCHANGED <<processVars, connected, want, sawConnected, child, late, reapVars>>

\* Mutant of clear_starting: an early return that keeps the reservation.
keep_starting(c, id) ==
    /\ pc[c] = "spawn" /\ id \in want[c]
    /\ Finish(c, "SpawnFailed")
    /\ UNCHANGED <<supervisorVars, processVars, connected, want, sawConnected, child, late,
                   reapVars>>

\* The working directory, a seed or the exec fails: the reservation is cleared.
clear_starting(c, id) ==
    /\ pc[c] = "spawn" /\ id \in want[c]
    /\ starting' = starting \ {id}
    /\ Finish(c, "SpawnFailed")
    /\ UNCHANGED <<children, processVars, connected, want, sawConnected, child, late,
                   reapVars>>

\* The binary is started.
spawn(c) ==
    /\ pc[c] = "spawn"
    /\ nextPid <= MaxPid
    /\ nextPid' = nextPid + 1
    /\ proc' = [proc EXCEPT ![nextPid] = "running"]
    /\ procId' = [procId EXCEPT ![nextPid] = want[c]]
    /\ child' = [child EXCEPT ![c] = nextPid]
    /\ Goto(c, "store")
    /\ UNCHANGED <<supervisorVars, connected, want, sawConnected, late, reapVars,
                   result>>

\* Mutant of store: no kill_on_drop.
store_only(c, id) ==
    /\ pc[c] = "store" /\ id \in want[c]
    /\ starting' = starting \ {id}
    /\ children' = [children EXCEPT ![id] = child[c]]
    /\ Goto(c, "poll")
    /\ UNCHANGED <<processVars, connected, want, sawConnected, child, late, reapVars,
                   result>>

\* The child is stored.  A child already there is dropped, and kill_on_drop
\* kills it.
store(c, id) ==
    /\ pc[c] = "store" /\ id \in want[c]
    /\ starting' = starting \ {id}
    /\ children' = [children EXCEPT ![id] = child[c]]
    /\ proc' = Kill(children[id])
    /\ Goto(c, "poll")
    /\ UNCHANGED <<nextPid, procId, connected, want, sawConnected, child, late, reapVars,
                   result>>

\* start_instance's loop: is the id registered, by whichever simulator?
poll_register(c, id) ==
    /\ pc[c] = "poll" /\ id \in want[c]
    /\ \/ connected[id] # 0 /\ Finish(c, "Started")
       \/ connected[id] = 0 /\ Goto(c, "alive") /\ UNCHANGED result
    /\ UNCHANGED <<supervisorVars, processVars, connected, want, sawConnected, child, late,
                   reapVars>>

\* Is the child stored under the id, whichever start it belongs to, still up?
is_alive(c, id) ==
    /\ pc[c] = "alive" /\ id \in want[c]
    /\ children' = child_alive(id)
    /\ \/ Alive(id) /\ Goto(c, "deadline") /\ UNCHANGED result
       \/ /\ ~Alive(id)
          /\ Goto(c, "reap")
          /\ result' = [result EXCEPT ![c] = "ExitedBeforeRegister"]
    /\ UNCHANGED <<starting, processVars, connected, want, sawConnected, child, late, reapVars>>

\* Mutant of deadline: the timeout answers without reaping.
deadline_no_reap(c) ==
    /\ pc[c] = "deadline"
    /\ \/ late[c] /\ Finish(c, "RegisterTimeout")
       \/ ~late[c] /\ Goto(c, "poll") /\ UNCHANGED result
    /\ UNCHANGED <<supervisorVars, processVars, connected, want, sawConnected, child, late,
                   reapVars>>

\* Mutant of deadline: a start waits as long as its child is up.
no_deadline(c) ==
    /\ pc[c] = "deadline"
    /\ Goto(c, "poll")
    /\ UNCHANGED <<supervisorVars, processVars, connected, want, sawConnected, child, late,
                   reapVars, result>>

\* Past the deadline the call gives up; before it, it sleeps and looks again.
deadline(c) ==
    /\ pc[c] = "deadline"
    /\ \/ late[c] /\ Goto(c, "reap") /\ result' = [result EXCEPT ![c] = "RegisterTimeout"]
       \/ ~late[c] /\ Goto(c, "poll") /\ UNCHANGED result
    /\ UNCHANGED <<supervisorVars, processVars, connected, want, sawConnected, child, late,
                   reapVars>>

\* shutdown_instance sends the request, on which the simulator may exit as it
\* may at any time, and goes on to reap the id, sent or not.
shutdown_instance(c, id) ==
    /\ pc[c] = "idle" /\ c \in Shutdowns
    /\ want' = [want EXCEPT ![c] = {id}]
    /\ result' = [result EXCEPT ![c] = "Reaped"]
    /\ Goto(c, "reap")
    /\ UNCHANGED <<supervisorVars, processVars, connected, sawConnected, child, late, reapVars>>

\* Mutant of reap_all: it goes through the processes instead of the ids.
reap_all_values(c) ==
    /\ pc[c] = "idle" /\ c \in ReapAlls
    /\ want' = [want EXCEPT ![c] = {children[id] : id \in Ids} \ {0}]
    /\ listed' = [listed EXCEPT ![c] = want'[c]]
    /\ result' = [result EXCEPT ![c] = "Reaped"]
    /\ Goto(c, IF want'[c] = {} THEN "done" ELSE "reap")
    /\ UNCHANGED <<supervisorVars, processVars, connected, sawConnected, child, late, holding>>

\* reap_all lists the children and reaps one after the other.
reap_all(c) ==
    /\ pc[c] = "idle" /\ c \in ReapAlls
    /\ want' = [want EXCEPT ![c] = {id \in Ids : children[id] # 0}]
    /\ listed' = [listed EXCEPT ![c] = {children[id] : id \in want'[c]}]
    /\ result' = [result EXCEPT ![c] = "Reaped"]
    /\ Goto(c, IF want'[c] = {} THEN "done" ELSE "reap")
    /\ UNCHANGED <<supervisorVars, processVars, connected, sawConnected, child, late, holding>>

\* reap: forget the id, its reservation included, and take the child there was;
reap(c, id) ==
    /\ pc[c] = "reap" /\ id \in want[c]
    /\ starting' = starting \ {id}
    /\ children' = [children EXCEPT ![id] = 0]
    /\ holding' = [holding EXCEPT ![c] = children[id]]
    /\ want' = [want EXCEPT ![c] = @ \ {id}]
    /\ Goto(c, "kill")
    /\ UNCHANGED <<processVars, connected, sawConnected, child, late, listed,
                   result>>

\* the lock released, kill it.
start_kill(c) ==
    /\ pc[c] = "kill"
    /\ proc' = Kill(holding[c])
    /\ holding' = [holding EXCEPT ![c] = 0]
    /\ Goto(c, "wait")
    /\ UNCHANGED <<supervisorVars, nextPid, procId, connected, want, sawConnected, child,
                   late, listed, result>>

\* Mutant of reaped: reap_all stops after the first child.
reaped_one(c) ==
    /\ pc[c] = "wait"
    /\ Goto(c, "done")
    /\ UNCHANGED <<supervisorVars, processVars, connected, want, sawConnected, child, late,
                   reapVars, result>>

\* reap returns when the child was waited for, or two seconds later.
reaped(c) ==
    /\ pc[c] = "wait"
    /\ Goto(c, IF want[c] = {} THEN "done" ELSE "reap")
    /\ UNCHANGED <<supervisorVars, processVars, connected, want, sawConnected, child, late,
                   reapVars, result>>

----------------------------------------------------------------------------
(* Processes, their sessions and the clock.                                *)

\* A process exits by itself, or because it was killed.
exit(p) ==
    /\ proc[p] \in {"running", "killed"}
    /\ proc' = [proc EXCEPT ![p] = "exited"]
    /\ UNCHANGED <<supervisorVars, nextPid, procId, connected, callVars>>

\* A simulator opens its Session, replacing the one under its id.
register(p, id) ==
    /\ proc[p] \in {"running", "killed"} /\ id \in procId[p]
    /\ connected' = [connected EXCEPT ![id] = p]
    /\ UNCHANGED <<supervisorVars, processVars, callVars>>

\* So does one that someone else started.
register_outside(id) ==
    /\ connected' = [connected EXCEPT ![id] = Outside]
    /\ UNCHANGED <<supervisorVars, processVars, callVars>>

\* The Session under an id ends.
disconnect(id) ==
    /\ connected[id] # 0
    /\ connected' = [connected EXCEPT ![id] = 0]
    /\ UNCHANGED <<supervisorVars, processVars, callVars>>

\* A start's deadline passes.
tick(c) ==
    /\ pc[c] \in {"poll", "alive", "deadline"} /\ ~late[c]
    /\ late' = [late EXCEPT ![c] = TRUE]
    /\ UNCHANGED <<supervisorVars, processVars, connected, pc, want, sawConnected, child,
                   reapVars, result>>

\* What a call does by itself once it is made.
Call(c) ==
    \/ \E id \in Ids : \/ start(c, id) \/ clear_starting(c, id) \/ store(c, id)
                       \/ poll_register(c, id) \/ is_alive(c, id) \/ reap(c, id)
    \/ spawn(c) \/ deadline(c) \/ start_kill(c) \/ reaped(c)

Made(c) ==
    \/ \E id \in Ids : start_instance(c, id) \/ shutdown_instance(c, id)
    \/ reap_all(c)

Next ==
    \/ \E c \in Calls : Made(c) \/ Call(c) \/ tick(c)
    \/ \E p \in Pids : exit(p) \/ \E id \in Ids : register(p, id)
    \/ \E id \in Ids : register_outside(id) \/ disconnect(id)

Spec == Init /\ [][Next]_vars

\* The runtime polls its tasks and time passes.
Fairness == \A c \in Calls : WF_vars(Call(c)) /\ WF_vars(tick(c))
FairSpec == Spec /\ Fairness

----------------------------------------------------------------------------
\* A call has taken the child out of the map and is about to kill it.
AboutToKill(p) == \E c \in Calls : pc[c] = "kill" /\ holding[c] = p

\* No process is orphaned: one that runs and was sent no kill is stored under
\* its id, in the hands of the start that is about to store it or in those of
\* a reap that is about to kill it.  A child displaced by another start or
\* belonging to a call that failed is never left running untracked.
NoOrphan ==
    \A p \in Pids : proc[p] = "running" =>
        \/ \E id \in procId[p] : children[id] = p
        \/ \E c \in Starts : pc[c] = "store" /\ child[c] = p
        \/ AboutToKill(p)

\* No reservation outlives its start: an id is reserved only while a start of
\* it is on its way, so that a failed start never locks the id out.
NoStuckReservation ==
    \A id \in starting : \E c \in Starts : pc[c] \in {"spawn", "store"} /\ id \in want[c]

\* A start that fails leaves no simulator behind: when it has answered with an
\* error, the process it started is gone or about to be killed, even if
\* another call took the id over meanwhile and the start's own reap found a
\* different child, or none.
FailedStartLeavesNothing ==
    \A c \in Starts :
        pc[c] = "done" /\ result[c] # "Started" /\ child[c] # 0 =>
            proc[child[c]] # "running" \/ AboutToKill(child[c])

\* The reap_all of a transport that ends goes through with it: when it is done,
\* no child it found is running, although other calls replace and take
\* children while it waits for one after the other.
ReapAllKillsListed ==
    \A c \in ReapAlls : pc[c] = "done" =>
        \A p \in listed[c] : proc[p] # "running" \/ AboutToKill(p)

\* Every call ends: a start gives up at its deadline however often the id is
\* taken and lost, and a reap does not wait for a process that will not die.
CallsEnd == \A c \in Calls : pc[c] # "idle" ~> pc[c] = "done"

\* "Reserve `instance_id`, start the binary, and store the child", with
\* AlreadySpawned for an id that "was already started by this process and is
\* still alive": of one id at most one child is running.
OneLiveChild ==
    \A p, q \in Pids :
        proc[p] = "running" /\ proc[q] = "running" /\ p # q => procId[p] \cap procId[q] = {}
=============================================================================
