------------------------------ MODULE McpTools ------------------------------
(***************************************************************************)
(* The MCP tools that make requests of a simulator or look at the map      *)
(* (mcp.rs): the four injects, inject_batch, set_inject_enabled,           *)
(* request_snapshot, get_instance, list_instances and the resources.  A    *)
(* request is one of module Request, the contract Sessions implements; the *)
(* simulator at the other end accepts or rejects what it is given, settles *)
(* (paints, or misses) and may be replaced or leave at any time.           *)
(***************************************************************************)
EXTENDS Envelopes, FiniteSets

CONSTANTS
    Ids,              \* the valid instance ids
    NoInstance,       \* no id: an unset default, a bad selector
    Omitted,          \* the selector of a call that names no instance
    DefaultInstance,  \* --default-instance: an id, or NoInstance when unset
    Calls,            \* the tool calls, each run once
    Clients,          \* what the calls may be: functions from Calls to Tool records
    OutCap,           \* capacity of an outbound queue
    MaxToken,         \* bound on the Session streams opened
    Breakable,        \* the streams whose response side may break
    MaxSteps          \* bound on the steps of a batch

Absent == "absent"    \* an optional parameter that was not given
Bad    == "bad"       \* a value no parser knows

Looks   == {"get", "list", "resources", "read"}
Injects == {"touch", "key", "home", "swipe"}
Optional(S) == S \cup {Absent}
unwrap_or(v, d) == IF v = Absent THEN d ELSE v

\* One inject step of a batch: its kind and what it overrides.
Step(kind, wait, mode, space) ==
    [kind |-> kind, wait |-> wait, mode |-> mode, space |-> space]
Steps == [kind : STRING, wait : Optional({"yes", "no"}),
          mode : Optional({"paint", "ack", Bad}), space : Optional({"logical", "panel", Bad})]

\* A tool call: which instance it selects, what its steps share, and the steps
\* themselves; a tool that makes one request has one step, a look at the map none.
Tool(name, sel, wait, mode, space, steps) ==
    [tool |-> name, sel |-> sel, wait |-> wait, mode |-> mode, space |-> space,
     steps |-> steps]

ASSUME ToolNamesAssumption ==
    /\ NoInstance \notin Ids
    /\ Omitted \notin Ids \cup {NoInstance}
    /\ DefaultInstance \in Ids \cup {NoInstance}
ASSUME ToolBoundsAssumption ==
    OutCap \in Nat \ {0} /\ MaxToken \in Nat /\ MaxSteps \in Nat
ASSUME ToolsAssumption ==
    \A f \in Clients : \A c \in Calls :
        LET p == f[c] IN
        /\ p.tool \in {"inject", "batch", "enable", "snapshot"} \cup Looks
        /\ p.sel \in Ids \cup {NoInstance, Omitted}
        /\ p.wait \in {"yes", "no"}
        /\ p.steps \in Seq(Steps) /\ Len(p.steps) <= MaxSteps
        /\ p.tool \notin Looks \cup {"batch"} => Len(p.steps) = 1

Tokens   == 1..MaxToken
Requests == Calls \X (1..MaxSteps)

VARIABLES
    nextToken,   \* the next stream
    owner,       \* the stream registered under an id, or 0
    sid,         \* the id a stream registered
    left,        \* the ids a registered stream has left
    rxOpen,      \* the response stream of a stream still takes requests
    stream, queue, taken, answer,   \* the requests: module Request
    did,         \* what the simulator made of a request
    reply,       \* the payload that answered a request
    pc,          \* where a call is
    tool,        \* what it is
    results,     \* the outcome of its steps so far
    told         \* the ids a look at the map has found

R == INSTANCE Request WITH Streams <- Tokens, NoStream <- 0

mapVars  == <<nextToken, owner, sid, left, rxOpen>>
requestVars == <<stream, queue, taken, answer>>
simVars  == <<did, reply>>
callVars == <<pc, tool, results, told>>
vars     == <<mapVars, requestVars, simVars, callVars>>

NoReply  == Payload("none", "", FALSE)
Outcomes == {"ok", "malformed", "rejected", "unexpected"} \cup R!Refusals \cup R!Failures

TypeOK ==
    /\ nextToken \in 1..MaxToken + 1
    /\ owner \in [Ids -> 0..MaxToken]
    /\ sid \in [Tokens -> Ids \cup {NoInstance}]
    /\ left \subseteq Ids
    /\ rxOpen \in [Tokens -> BOOLEAN]
    /\ stream \in [Requests -> 0..MaxToken]
    /\ queue \in [Tokens -> Seq(Requests)] /\ \A t \in Tokens : Len(queue[t]) <= OutCap
    /\ taken \in [Tokens -> SUBSET Requests]
    /\ answer \in [Requests -> R!Answers]
    /\ did \in [Requests -> {"nothing", "accepted", "rejected", "settled"}]
    /\ DOMAIN reply = Requests
    /\ pc \in [Calls -> {"idle", "step", "await", "done"}]
    /\ tool \in Clients
    /\ results \in [Calls -> Seq(Outcomes)]
    /\ told \in [Calls -> SUBSET Ids]

Init ==
    /\ nextToken = 1
    /\ owner = [id \in Ids |-> 0]
    /\ sid = [t \in Tokens |-> NoInstance]
    /\ left = {}
    /\ rxOpen = [t \in Tokens |-> TRUE]
    /\ R!Init
    /\ did = [r \in Requests |-> "nothing"]
    /\ reply = [r \in Requests |-> NoReply]
    /\ pc = [c \in Calls |-> "idle"]
    /\ tool \in Clients
    /\ results = [c \in Calls |-> <<>>]
    /\ told = [c \in Calls |-> {}]

----------------------------------------------------------------------------
(* What the tools make of their parameters.                                *)

\* Mutant of inject_wait_kind: a paint wait takes any reply.
any_wait_kind(mode) == IF unwrap_or(mode, "paint") \in {"paint", "ack"} THEN "Any" ELSE Bad

\* The reply an inject waits for.
inject_wait_kind(mode) ==
    CASE unwrap_or(mode, "paint") = "paint" -> UiResult
      [] unwrap_or(mode, "paint") = "ack"   -> "Any"
      [] unwrap_or(mode, "paint") \notin {"paint", "ack"} -> Bad

parse_coordinate_space(space) ==
    IF unwrap_or(space, "logical") \in {"logical", "panel"}
    THEN unwrap_or(space, "logical") ELSE Bad

\* A step with what it inherits from the call.
Merged(p, s) ==
    [kind |-> s.kind, wait |-> unwrap_or(s.wait, p.wait) = "yes",
     mode |-> unwrap_or(s.mode, p.mode), space |-> unwrap_or(s.space, p.space)]

\* Touches and swipes look at their coordinate space before anything else.
SpaceRefused(s) == s.kind \in {"touch", "swipe"} /\ parse_coordinate_space(s.space) = Bad

\* A step that ends before it makes a request: a batch knows the four kinds,
\* and the wait mode counts only for a step that waits.
Malformed(p, s) ==
    \/ p.tool = "batch" /\ s.kind \notin Injects
    \/ SpaceRefused(s)
    \/ s.kind \in Injects /\ s.wait /\ inject_wait_kind(s.mode) = Bad

\* What the waiter of a step accepts.
KindOf(s) == IF s.kind = "snapshot" THEN Snapshot ELSE inject_wait_kind(s.mode)

\* Mutant of inject_result: an InputAck is an acceptance.
inject_any_ack(m) == IF m.name \in {UiResult, InputAck} THEN "ok" ELSE "unexpected"

\* What the reply to an inject is reported as.
inject_result(m) ==
    CASE m.name = UiResult -> "ok"
      [] m.name = InputAck -> IF m.accepted THEN "ok" ELSE "rejected"
      [] m.name \notin {UiResult, InputAck} -> "unexpected"

\* What the reply to a snapshot request is reported as.
snapshot_result(m) ==
    CASE m.name = Snapshot      -> "ok"
      [] m.name = SnapshotError -> "rejected"
      [] m.name \notin {Snapshot, SnapshotError} -> "unexpected"

\* Mutant of resolve_or_default: an id that is not connected is the default.
resolve_connected(sel) ==
    IF sel \in Ids /\ owner[sel] # 0 THEN sel ELSE DefaultInstance

\* The id a selector stands for, or NoInstance.
resolve_or_default(sel) == IF sel = Omitted THEN DefaultInstance ELSE sel

----------------------------------------------------------------------------
(* Simulators.                                                             *)

\* A stream registers, replacing the one that holds the id.
connect(id) ==
    /\ nextToken <= MaxToken
    /\ nextToken' = nextToken + 1
    /\ owner' = [owner EXCEPT ![id] = nextToken]
    /\ sid' = [sid EXCEPT ![nextToken] = id]
    /\ UNCHANGED <<left, rxOpen, requestVars, simVars, callVars>>

\* The registered stream ends; the calls waiting on the id may be failed.
disconnect(id) ==
    /\ owner[id] # 0
    /\ owner' = [owner EXCEPT ![id] = 0]
    /\ left' = left \cup {id}
    /\ UNCHANGED <<nextToken, sid, rxOpen, requestVars, simVars, callVars>>

deliver(t) == R!Take(t) /\ UNCHANGED <<mapVars, simVars, callVars>>

\* The response stream is dropped and what it holds is lost.  The id it was
\* opened for may still be registered: only the request stream's end unregisters.
hangup(t) ==
    /\ t \in Breakable /\ t < nextToken /\ rxOpen[t]
    /\ rxOpen' = [rxOpen EXCEPT ![t] = FALSE]
    /\ R!Lose(t)
    /\ UNCHANGED <<nextToken, owner, sid, left, simVars, callVars>>

StepOf(r) == Merged(tool[r[1]], tool[r[1]].steps[r[2]])

\* The simulator's envelope with the corr of r reaches the call if it is still
\* waiting and the envelope is of the kind; otherwise it is just an event.
Answered(r, m) ==
    IF R!Pending(r) /\ waiter_matches(KindOf(StepOf(r)), m)
    THEN R!Reply(r) /\ reply' = [reply EXCEPT ![r] = m]
    ELSE UNCHANGED <<requestVars, reply>>

\* What the simulator says when it accepts, rejects or has settled.
Verdict(r, v) ==
    CASE v = "settled"  -> Payload(UiResult, "", FALSE)
      [] v = "accepted" -> IF StepOf(r).kind = "snapshot" THEN Payload(Snapshot, "", FALSE)
                           ELSE Payload(InputAck, "", TRUE)
      [] v = "rejected" -> IF StepOf(r).kind = "snapshot" THEN Payload(SnapshotError, "", FALSE)
                           ELSE Payload(InputAck, "", FALSE)

\* The simulator handles a request it was given: it accepts or rejects it, and
\* once the panel had its chance to paint an accepted inject it says so, a miss
\* (painted: false) included.
simulate(r, v) ==
    /\ \E t \in Tokens : r \in taken[t]
    /\ \/ did[r] = "nothing" /\ v \in {"accepted", "rejected"}
       \/ did[r] = "accepted" /\ v = "settled" /\ StepOf(r).kind \in Injects
    /\ did' = [did EXCEPT ![r] = v]
    /\ Answered(r, Verdict(r, v))
    /\ UNCHANGED <<mapVars, callVars>>

\* An envelope of another payload echoes the corr, which an ack wait takes.
stray(r) ==
    /\ stream[r] # 0 /\ KindOf(StepOf(r)) = "Any"
    /\ R!Reply(r)
    /\ reply' = [reply EXCEPT ![r] = Payload(Log, "", FALSE)]
    /\ UNCHANGED <<mapVars, did, callVars>>

----------------------------------------------------------------------------
(* Tool calls.                                                             *)

Index(c) == Len(results[c]) + 1

\* Mutant of StepEnds: a failed step does not stop the batch.
StepEndsAnyway(c, outcome) ==
    /\ results' = [results EXCEPT ![c] = Append(@, outcome)]
    /\ pc' = [pc EXCEPT ![c] = IF Index(c) < Len(tool[c].steps) THEN "step" ELSE "done"]

\* The step is over.  The call goes on only if it went well and is not the last.
StepEnds(c, outcome) ==
    /\ results' = [results EXCEPT ![c] = Append(@, outcome)]
    /\ pc' = [pc EXCEPT ![c] = IF outcome = "ok" /\ Index(c) < Len(tool[c].steps)
                               THEN "step" ELSE "done"]

\* A call is made.  A batch resolves its instance once before its first step.
call(c) ==
    LET p == tool[c]
        id == resolve_or_default(p.sel)
    IN  /\ pc[c] = "idle"
        /\ p.tool \notin Looks
        /\ pc' = [pc EXCEPT ![c] =
                    IF p.tool = "batch" /\ (id = NoInstance \/ owner[id] = 0 \/ p.steps = <<>>)
                    THEN "done" ELSE "step"]
        /\ UNCHANGED <<mapVars, requestVars, simVars, tool, results, told>>

\* A look at the map finds the ids in S that are connected.
look(c, S) ==
    /\ pc[c] = "idle"
    /\ told' = [told EXCEPT ![c] = {id \in S \cap Ids : owner[id] # 0}]
    /\ pc' = [pc EXCEPT ![c] = "done"]
    /\ UNCHANGED <<mapVars, requestVars, simVars, tool, results>>

get_instance(c)   == tool[c].tool = "get" /\ look(c, {resolve_or_default(tool[c].sel)})
list_instances(c) == tool[c].tool = "list" /\ look(c, Ids)
list_resources(c) == tool[c].tool = "resources" /\ look(c, Ids)

\* csm://instances, csm://instances/{id}, or no resource of an instance.
read_resource(c) ==
    tool[c].tool = "read" /\ look(c, IF tool[c].sel = Omitted THEN Ids ELSE {tool[c].sel})

\* Mutant of Full: one too many.
FullLate(t) == ~rxOpen[t] \/ Len(queue[t]) > OutCap

\* try_send fails: the channel is full, or its receiver is gone.
Full(t) == ~rxOpen[t] \/ Len(queue[t]) = OutCap

\* One request could not be put on a stream.
Refused(r, why) == R!Refuse(r) /\ answer'[r] = why

\* inject, enqueue and enqueue_wait for the next step: refuse what is malformed,
\* resolve the instance, and put the request on the stream that has it now.
step(c) ==
    LET p  == tool[c]
        s  == Merged(p, p.steps[Index(c)])
        r  == <<c, Index(c)>>
        id == resolve_or_default(p.sel)
    IN  /\ pc[c] = "step"
        /\ \/ Malformed(p, s) /\ StepEnds(c, "malformed") /\ UNCHANGED requestVars
           \/ /\ ~Malformed(p, s)
              /\ \/ id = NoInstance /\ Refused(r, "EmptyId") /\ StepEnds(c, "EmptyId")
                 \/ /\ id # NoInstance /\ owner[id] = 0
                    /\ Refused(r, "UnknownInstance") /\ StepEnds(c, "UnknownInstance")
                 \/ /\ id # NoInstance /\ owner[id] # 0 /\ Full(owner[id])
                    /\ Refused(r, "QueueFull") /\ StepEnds(c, "QueueFull")
                 \/ /\ id # NoInstance /\ owner[id] # 0 /\ ~Full(owner[id])
                    /\ \/ /\ s.wait
                          /\ R!Send(r, owner[id])
                          /\ pc' = [pc EXCEPT ![c] = "await"]
                          /\ UNCHANGED results
                       \/ ~s.wait /\ R!Fire(r, owner[id]) /\ StepEnds(c, "ok")
        /\ UNCHANGED <<mapVars, simVars, tool, told>>

\* Mutant of give_up: without a timer only a stream that leaves ends a wait.
give_up_left(c) ==
    LET r == <<c, Index(c)>> IN
    /\ pc[c] = "await"
    /\ R!GiveUp(r)
    /\ resolve_or_default(tool[c].sel) \in left
    /\ UNCHANGED <<mapVars, simVars, callVars>>

\* The timer fires, or the id's stream has left and its waiters are failed.
give_up(c) ==
    LET r == <<c, Index(c)>> IN
    /\ pc[c] = "await"
    /\ R!GiveUp(r)
    /\ answer'[r] = "Disconnected" => resolve_or_default(tool[c].sel) \in left
    /\ UNCHANGED <<mapVars, simVars, callVars>>

\* The wait is over; the call looks at what ended it.
receive(c) ==
    LET r == <<c, Index(c)>> IN
    /\ pc[c] = "await"
    /\ answer[r] # "none"
    /\ StepEnds(c, IF answer[r] # "reply" THEN answer[r]
                   ELSE IF StepOf(r).kind = "snapshot" THEN snapshot_result(reply[r])
                   ELSE inject_result(reply[r]))
    /\ UNCHANGED <<mapVars, requestVars, simVars, tool, told>>

\* What a call does by itself once it is made.
Call(c) == step(c) \/ give_up(c) \/ receive(c)

Next ==
    \/ \E id \in Ids : connect(id) \/ disconnect(id)
    \/ \E t \in Tokens : deliver(t) \/ hangup(t)
    \/ \E r \in Requests : stray(r) \/ \E v \in {"accepted", "rejected", "settled"} : simulate(r, v)
    \/ \E c \in Calls : \/ get_instance(c) \/ list_instances(c)
                         \/ list_resources(c) \/ read_resource(c)
                         \/ call(c) \/ Call(c)

Spec == Init /\ [][Next]_vars

\* The runtime polls a call that can go on, and its timer fires.
FairSpec == Spec /\ \A c \in Calls : WF_vars(Call(c))

----------------------------------------------------------------------------
\* "Stops on the first rejection": a step reaches a stream only when every
\* step before it has been reported as done, whatever happened to the session
\* in between; so when a batch stops at a step, no later one is ever applied,
\* not even by a simulator that takes the id over (inject_batch_json).
StopsOnFirstFailure ==
    \A r \in Requests : stream[r] # 0 =>
        \A j \in 1..r[2] - 1 : j <= Len(results[r[1]]) /\ results[r[1]][j] = "ok"

\* A step that waits for paint has settled on the panel before the next step of
\* its batch is sent: an accepted InputAck alone does not let the batch go on.
SettledBeforeNext ==
    \A r \in Requests : stream[r] # 0 =>
        \A j \in 1..r[2] - 1 :
            LET s == StepOf(<<r[1], j>>) IN
            s.wait /\ s.mode \in {Absent, "paint"} => did[<<r[1], j>>] = "settled"

\* What a caller is told is what happened: a step it waited for and that went
\* well was accepted by the simulator that was given it, a rejected one was
\* rejected, and one that was refused or malformed was never sent and can be
\* tried again (inject, request_snapshot_result).
ReportIsTrue ==
    \A c \in Calls : \A i \in DOMAIN results[c] :
        LET r == <<c, i>> IN
        /\ results[c][i] = "ok" /\ StepOf(r).wait => did[r] \in {"accepted", "settled"}
        /\ results[c][i] = "rejected" => did[r] = "rejected"
        /\ results[c][i] \in R!Refusals \cup {"malformed"} => stream[r] = 0 /\ did[r] = "nothing"

\* A call reaches the instance it names, or the default one if it names none,
\* and no other when that one is gone or has never been there.
RightInstance ==
    \A c \in Calls :
        LET asked == IF tool[c].sel = Omitted THEN DefaultInstance ELSE tool[c].sel IN
        /\ \A i \in 1..MaxSteps : stream[<<c, i>>] # 0 => sid[stream[<<c, i>>]] = asked
        /\ tool[c].tool = "get" => told[c] \subseteq {asked}
        /\ tool[c].tool = "read" /\ tool[c].sel # Omitted => told[c] \subseteq {tool[c].sel}

\* Every call ends: a step waits at most until its timer fires, and a batch has
\* no more steps than it was given.
CallsEnd == \A c \in Calls : pc[c] # "idle" ~> pc[c] = "done"

=============================================================================
