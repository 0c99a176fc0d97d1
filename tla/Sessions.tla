------------------------------ MODULE Sessions ------------------------------
(***************************************************************************)
(* The session hop of the proxy: the InstanceMap (instances.rs), the read  *)
(* loop of every Session stream (session.rs) and the MCP calls that send   *)
(* to a simulator and wait for its reply (mcp.rs).  The proxy runs on a    *)
(* multi-threaded runtime: a reader or a call may be preempted between any *)
(* two lock acquisitions, so one action is one critical section.           *)
(*                                                                         *)
(* A Session stream is named by the token it was given.  The entry of the  *)
(* map under an id is spread over functions of the id: `owner`, the        *)
(* entry's token or 0 for no entry, and a function per field.              *)
(***************************************************************************)
EXTENDS Envelopes, FiniteSets

CONSTANTS
    Ids,              \* the valid instance ids
    NoInstance,       \* no id: an absent entry, an unset default, a bad selector
    Omitted,          \* the selector of a call that names no instance
    DefaultInstance,  \* --default-instance: an id, or NoInstance when unset
    Calls,            \* the MCP calls, each run once
    NoCall,           \* no call: an absent waiter
    Ops,              \* what a call may ask for
    Payloads,         \* the payloads a simulator may send
    Cap,              \* capacity of an inbound queue
    OutCap,           \* capacity of an outbound queue
    Breakable,        \* the streams whose connection may break unnoticed
    Observed,         \* the ids a client observes
    MaxToken,         \* bound on the Session streams opened
    MaxCorr,          \* bound on the correlation ids issued
    MaxItems          \* bound on the messages a stream, or two together, carry

Tokens == 1..MaxToken
Corrs  == 1..MaxCorr

\* An operation: enqueue and forget, enqueue and wait for a reply of a kind,
\* or set the session view to a mask and a list of excluded log components.
Op(tag, kind, mask, exclude) ==
    [tag |-> tag, kind |-> kind, mask |-> mask, exclude |-> exclude]
OpTypes == [tag : {"send", "wait", "view"}, kind : WaitKind,
            mask : SUBSET STRING, exclude : SUBSET STRING]

ASSUME NamesAssumption ==
    /\ NoInstance \notin Ids
    /\ Omitted \notin Ids \cup {NoInstance}
    /\ DefaultInstance \in Ids \cup {NoInstance}
    /\ NoCall \notin Calls
ASSUME BoundsAssumption ==
    /\ Cap \in Nat \ {0} /\ OutCap \in Nat \ {0}
    /\ MaxToken \in Nat /\ MaxCorr \in Nat /\ MaxItems \in Nat
ASSUME OpsAssumption == Ops \subseteq OpTypes
ASSUME PayloadsAssumption ==
    Payloads \subseteq [name : STRING, component : STRING, accepted : BOOLEAN]

VARIABLES
    nextToken,       \* InstanceMap.next_token
    nextCorr,        \* InstanceMap.next_corr
    owner,           \* InstanceMap.inner: the token registered under an id, or 0
    heartbeat,       \* Instance.last_heartbeat
    inbound,         \* Instance.inbound
    mask,            \* Instance.read_mask
    exclude,         \* Instance.exclude_log_components
    outbound,        \* the bounded channel to the simulator: corrs
    rxOpen,          \* the response stream still holds the channel's receiver
    delivered,       \* the corrs the simulator was sent
    waiters,         \* InstanceMap.waiters: the call waiting on a corr
    waiterInstance,  \* InstanceMap.waiter_instance
    rpc,             \* where the task of a stream is
    sid,             \* the id the stream registered
    item,            \* the envelope the read loop is handling
    count,           \* how many items the stream carried
    tx,              \* the waiter complete_waiter took, not yet notified
    failing,         \* the corrs fail_waiters collected and has not taken
    taking,          \* the corr take_waiter is between its two locks for
    cpc,             \* where a call is
    op,              \* what the call asked for
    cid,             \* the id it resolved
    corr,            \* its correlation id, 0 before it has one
    slot,            \* its oneshot: "empty", "reply" or "closed"
    reply,           \* the envelope in the oneshot
    result,          \* how the call ended
    sentOn           \* history: the stream that took the call's envelope, or 0

mapVars     == <<nextToken, owner, sid>>
fieldVars   == <<heartbeat, inbound>>
viewVars    == <<mask, exclude>>
channelVars == <<outbound, rxOpen, delivered>>
waiterVars  == <<waiters, waiterInstance>>
readerVars  == <<item, count, tx, failing, taking>>
requestVars == <<nextCorr, op, cid, corr>>
replyVars   == <<slot, reply>>
callVars    == <<cpc, result, sentOn>>
vars == <<mapVars, fieldVars, viewVars, channelVars, waiterVars, rpc, readerVars,
          requestVars, replyVars, callVars>>

----------------------------------------------------------------------------
\* An envelope on a stream: a payload, the corr it echoes, and, as history,
\* the stream that carried it.
Message(p, k, t) ==
    [name |-> p.name, component |-> p.component, accepted |-> p.accepted,
     corr |-> k, stream |-> t]
Names      == {"none", "error"} \cup {p.name : p \in Payloads}
Components == {""} \cup {p.component : p \in Payloads}
Messages == [name : Names, component : Components, accepted : BOOLEAN,
             corr : 0..MaxCorr, stream : 0..MaxToken]
NoItem  == Message(Payload("none", "", FALSE), 0, 0)
ErrItem == Message(Payload("error", "", FALSE), 0, 0)

ReaderSteps == {"unused", "insert", "next", "owns", "heartbeat", "complete", "notify",
                "push", "leave", "collect", "fail", "drop", "removed", "replaced"}
CallSteps   == {"idle", "enqueue", "get", "register", "tag", "send", "await", "untag",
                "unregister", "read_mask", "exclude", "done"}
Results     == {"none", "queued", "reply", "EmptyId", "UnknownInstance", "QueueFull",
                "Timeout", "Disconnected"}

MapTypes ==
    /\ nextToken \in 1..MaxToken + 1
    /\ owner \in [Ids -> 0..MaxToken]
    /\ sid \in [Tokens -> Ids \cup {NoInstance}]
    /\ rpc \in [Tokens -> ReaderSteps]
FieldTypes ==
    /\ heartbeat \in [Ids -> Messages]
    /\ inbound \in [Ids -> Seq(Messages)]
    /\ mask \in [Ids -> SUBSET STRING]
    /\ exclude \in [Ids -> SUBSET STRING]
ChannelTypes ==
    /\ outbound \in [Tokens -> Seq(Corrs)]
    /\ rxOpen \in [Tokens -> BOOLEAN]
    /\ delivered \in [Tokens -> SUBSET Corrs]
WaiterTypes ==
    /\ waiters \in [Corrs -> Calls \cup {NoCall}]
    /\ waiterInstance \in [Corrs -> Ids \cup {NoInstance}]
    /\ tx \in [Tokens -> Calls \cup {NoCall}]
    /\ failing \in [Tokens -> SUBSET Corrs]
    /\ taking \in [Tokens -> 0..MaxCorr]
ItemTypes ==
    /\ item \in [Tokens -> Messages]
    /\ count \in [Tokens -> 0..MaxItems]
    /\ reply \in [Calls -> Messages]
    /\ slot \in [Calls -> {"empty", "reply", "closed"}]
CallTypes ==
    /\ nextCorr \in 1..MaxCorr + 1
    /\ cpc \in [Calls -> CallSteps]
    /\ op \in [Calls -> Ops]
    /\ cid \in [Calls -> Ids \cup {NoInstance}]
    /\ corr \in [Calls -> 0..MaxCorr]
    /\ result \in [Calls -> Results]
    /\ sentOn \in [Calls -> 0..MaxToken]

TypeOK == MapTypes /\ FieldTypes /\ ChannelTypes /\ WaiterTypes /\ ItemTypes /\ CallTypes

Init ==
    /\ nextToken = 1 /\ nextCorr = 1
    /\ owner = [id \in Ids |-> 0]
    /\ heartbeat = [id \in Ids |-> NoItem]
    /\ inbound = [id \in Ids |-> <<>>]
    /\ mask = [id \in Ids |-> {}]
    /\ exclude = [id \in Ids |-> {}]
    /\ outbound = [t \in Tokens |-> <<>>]
    /\ rxOpen = [t \in Tokens |-> TRUE]
    /\ delivered = [t \in Tokens |-> {}]
    /\ waiters = [k \in Corrs |-> NoCall]
    /\ waiterInstance = [k \in Corrs |-> NoInstance]
    /\ rpc = [t \in Tokens |-> "unused"]
    /\ sid = [t \in Tokens |-> NoInstance]
    /\ item = [t \in Tokens |-> NoItem]
    /\ count = [t \in Tokens |-> 0]
    /\ tx = [t \in Tokens |-> NoCall]
    /\ failing = [t \in Tokens |-> {}]
    /\ taking = [t \in Tokens |-> 0]
    /\ cpc = [c \in Calls |-> "idle"]
    /\ op \in [Calls -> Ops]
    /\ cid = [c \in Calls |-> NoInstance]
    /\ corr = [c \in Calls |-> 0]
    /\ slot = [c \in Calls |-> "empty"]
    /\ reply = [c \in Calls |-> NoItem]
    /\ result = [c \in Calls |-> "none"]
    /\ sentOn = [c \in Calls |-> 0]

----------------------------------------------------------------------------
(* The Session handler and its read loop (session.rs).                     *)

\* A stream whose first message is a Register with a valid id takes a token.
\* Any other first message is refused before the map is touched.
session(id) ==
    LET t == nextToken IN
    /\ nextToken <= MaxToken
    /\ nextToken' = nextToken + 1
    /\ sid' = [sid EXCEPT ![t] = id]
    /\ rpc' = [rpc EXCEPT ![t] = "insert"]
    /\ UNCHANGED <<owner, fieldVars, viewVars, channelVars, waiterVars, readerVars,
                   requestVars, replyVars, callVars>>

\* The fields of a new Instance; an entry that is dropped takes its own along.
ResetFields(id) ==
    /\ heartbeat' = [heartbeat EXCEPT ![id] = NoItem]
    /\ inbound' = [inbound EXCEPT ![id] = <<>>]
    /\ mask' = [mask EXCEPT ![id] = {}]
    /\ exclude' = [exclude EXCEPT ![id] = {}]

\* Mutant of insert: the entry is given the counter, not the token taken.
insert_counter(t) ==
    /\ rpc[t] = "insert"
    /\ owner' = [owner EXCEPT ![sid[t]] = nextToken]
    /\ ResetFields(sid[t])
    /\ rpc' = [rpc EXCEPT ![t] = "next"]
    /\ UNCHANGED <<nextToken, sid, channelVars, waiterVars,
                   readerVars, requestVars, replyVars, callVars>>

\* The stream registers, replacing whichever stream holds the id.  Tokens are
\* taken before the lock, so a smaller token may replace a larger one.
insert(t) ==
    /\ rpc[t] = "insert"
    /\ owner' = [owner EXCEPT ![sid[t]] = t]
    /\ ResetFields(sid[t])
    /\ rpc' = [rpc EXCEPT ![t] = "next"]
    /\ UNCHANGED <<nextToken, sid, channelVars, waiterVars,
                   readerVars, requestVars, replyVars, callVars>>

\* The corrs some simulator was sent, on whichever stream.
Handed == {k \in Corrs : \E t \in Tokens : k \in delivered[t]}

\* The simulator sends an envelope, on its own account (corr 0) or echoing a
\* corr, or the stream yields an error.  Nothing ties the corr to the stream:
\* a simulator that opened a new stream answers there what it was sent before,
\* and may answer it again.
next(t) ==
    /\ rpc[t] = "next"
    /\ count[t] < MaxItems
    /\ \A u \in Tokens \ {t} : count[t] + count[u] < MaxItems
    /\ count' = [count EXCEPT ![t] = @ + 1]
    /\ \/ \E p \in Payloads, k \in {0} \cup Handed :
             item' = [item EXCEPT ![t] = Message(p, k, t)]
       \/ item' = [item EXCEPT ![t] = ErrItem]
    /\ rpc' = [rpc EXCEPT ![t] = "owns"]
    /\ UNCHANGED <<mapVars, fieldVars, viewVars, channelVars, waiterVars, tx, failing,
                   taking, requestVars, replyVars, callVars>>

\* Mutant of end_of_stream: the task returns without remove_if.
end_without_remove(t) ==
    /\ rpc[t] = "next"
    /\ rpc' = [rpc EXCEPT ![t] = "replaced"]
    /\ UNCHANGED <<mapVars, fieldVars, viewVars, channelVars, waiterVars, readerVars,
                   requestVars, replyVars, callVars>>

\* The request stream ends.
end_of_stream(t) ==
    /\ rpc[t] = "next"
    /\ rpc' = [rpc EXCEPT ![t] = "leave"]
    /\ UNCHANGED <<mapVars, fieldVars, viewVars, channelVars, waiterVars, readerVars,
                   requestVars, replyVars, callVars>>

\* Mutant of owns: the loop does not look whether it was replaced.
owns_unasked(t) ==
    /\ rpc[t] = "owns"
    /\ rpc' = [rpc EXCEPT ![t] =
                 IF item[t] = ErrItem THEN "leave"
                 ELSE IF is_heartbeat(item[t]) THEN "heartbeat" ELSE "complete"]
    /\ UNCHANGED <<mapVars, fieldVars, viewVars, channelVars, waiterVars, readerVars,
                   requestVars, replyVars, callVars>>

\* A replaced stream leaves its loop at the next item, and so does a stream
\* whose item is an error.
owns(t) ==
    /\ rpc[t] = "owns"
    /\ rpc' = [rpc EXCEPT ![t] =
                 IF owner[sid[t]] # t \/ item[t] = ErrItem THEN "leave"
                 ELSE IF is_heartbeat(item[t]) THEN "heartbeat" ELSE "complete"]
    /\ UNCHANGED <<mapVars, fieldVars, viewVars, channelVars, waiterVars, readerVars,
                   requestVars, replyVars, callVars>>

\* Mutant of set_heartbeat: no look at the token.
set_any_heartbeat(t) ==
    /\ rpc[t] = "heartbeat"
    /\ heartbeat' = [heartbeat EXCEPT ![sid[t]] = item[t]]
    /\ rpc' = [rpc EXCEPT ![t] = "complete"]
    /\ UNCHANGED <<mapVars, inbound, viewVars, channelVars, waiterVars, readerVars,
                   requestVars, replyVars, callVars>>

set_heartbeat(t) ==
    /\ rpc[t] = "heartbeat"
    /\ heartbeat' = IF owner[sid[t]] = t
                    THEN [heartbeat EXCEPT ![sid[t]] = item[t]]
                    ELSE heartbeat
    /\ rpc' = [rpc EXCEPT ![t] = "complete"]
    /\ UNCHANGED <<mapVars, inbound, viewVars, channelVars, waiterVars, readerVars,
                   requestVars, replyVars, callVars>>

\* Mutant of Completes: the kind of the waiter is not looked at.
CompletesAny(m) == m.corr # 0 /\ waiters[m.corr] # NoCall

\* The waiter an envelope completes: the one on its corr, if the kind matches.
Completes(m) ==
    /\ m.corr # 0
    /\ waiters[m.corr] # NoCall
    /\ waiter_matches(op[waiters[m.corr]].kind, m)

\* push_inbound, first lock: take the waiter out of the map.
complete_waiter(t) ==
    /\ rpc[t] = "complete"
    /\ \/ /\ Completes(item[t])
          /\ waiters' = [waiters EXCEPT ![item[t].corr] = NoCall]
          /\ tx' = [tx EXCEPT ![t] = waiters[item[t].corr]]
          /\ rpc' = [rpc EXCEPT ![t] = "notify"]
       \/ /\ ~Completes(item[t])
          /\ rpc' = [rpc EXCEPT ![t] = "push"]
          /\ UNCHANGED <<waiters, tx>>
    /\ UNCHANGED <<mapVars, fieldVars, viewVars, channelVars, waiterInstance, item, count,
                   failing, taking, requestVars, replyVars, callVars>>

\* The call still holds the receiving half of its oneshot.
RxAlive(c) == cpc[c] \in {"tag", "send", "await"}

\* push_inbound, second lock: forget the waiter's instance and send the reply,
\* which is lost when the call has given up.
notify(t) ==
    /\ rpc[t] = "notify"
    /\ waiterInstance' = [waiterInstance EXCEPT ![item[t].corr] = NoInstance]
    /\ \/ /\ RxAlive(tx[t])
          /\ slot' = [slot EXCEPT ![tx[t]] = "reply"]
          /\ reply' = [reply EXCEPT ![tx[t]] = item[t]]
       \/ ~RxAlive(tx[t]) /\ UNCHANGED replyVars
    /\ tx' = [tx EXCEPT ![t] = NoCall]
    /\ rpc' = [rpc EXCEPT ![t] = "push"]
    /\ UNCHANGED <<mapVars, fieldVars, viewVars, channelVars, waiters, item, count,
                   failing, taking, requestVars, callVars>>

\* The view of the instance lets an envelope into its queue.
Shown(id, m) ==
    /\ inbound_visible(mask[id], m)
    /\ ~(m.name = Log /\ m.component \in exclude[id])

\* push_inbound, third lock: queue the envelope under the id, whoever now
\* holds it.  After a Goodbye the stream leaves; otherwise it reads on.
push_inbound(t) ==
    LET id == sid[t] IN
    /\ rpc[t] = "push"
    /\ inbound' = IF owner[id] # 0 /\ Shown(id, item[t])
                  THEN [inbound EXCEPT ![id] = push(inbound[id], item[t], Cap)]
                  ELSE inbound
    /\ rpc' = [rpc EXCEPT ![t] = IF item[t].name = Goodbye THEN "leave" ELSE "next"]
    /\ item' = [item EXCEPT ![t] = NoItem]
    /\ UNCHANGED <<mapVars, heartbeat, viewVars, channelVars, waiterVars, count, tx,
                   failing, taking, requestVars, replyVars, callVars>>

\* Mutant of remove_if: whoever holds the id is unregistered.
remove(t) ==
    /\ rpc[t] = "leave"
    /\ owner' = [owner EXCEPT ![sid[t]] = 0]
    /\ ResetFields(sid[t])
    /\ rpc' = [rpc EXCEPT ![t] = "collect"]
    /\ UNCHANGED <<nextToken, sid, channelVars, waiterVars,
                   readerVars, requestVars, replyVars, callVars>>

\* The end of the loop: a stream that still owns its id unregisters it.  After
\* a Goodbye the loop's own remove_if did, and the one behind it finds nothing.
remove_if(t) ==
    /\ rpc[t] = "leave"
    /\ \/ /\ owner[sid[t]] = t
          /\ owner' = [owner EXCEPT ![sid[t]] = 0]
          /\ ResetFields(sid[t])
          /\ rpc' = [rpc EXCEPT ![t] = "collect"]
       \/ /\ owner[sid[t]] # t
          /\ rpc' = [rpc EXCEPT ![t] = "replaced"]
          /\ UNCHANGED <<owner, fieldVars, viewVars>>
    /\ UNCHANGED <<nextToken, sid, channelVars, waiterVars,
                   readerVars, requestVars, replyVars, callVars>>

\* Mutant of fail_waiters: an unregistered id leaves its waiters to the timer.
fail_no_waiters(t) ==
    /\ rpc[t] = "collect"
    /\ rpc' = [rpc EXCEPT ![t] = "fail"]
    /\ UNCHANGED <<mapVars, fieldVars, viewVars, channelVars, waiterVars, readerVars,
                   requestVars, replyVars, callVars>>

\* fail_waiters, once the map's lock is released: the corrs waiting on the id...
fail_waiters(t) ==
    /\ rpc[t] = "collect"
    /\ failing' = [failing EXCEPT ![t] =
                     {k \in Corrs : waiterInstance[k] = sid[t]}]
    /\ rpc' = [rpc EXCEPT ![t] = "fail"]
    /\ UNCHANGED <<mapVars, fieldVars, viewVars, channelVars, waiterVars, item, count, tx,
                   taking, requestVars, replyVars, callVars>>

\* ... are taken one after the other: out of waiter_instance,
take_waiter_instance(t, k) ==
    /\ rpc[t] = "fail"
    /\ k \in failing[t]
    /\ failing' = [failing EXCEPT ![t] = @ \ {k}]
    /\ taking' = [taking EXCEPT ![t] = k]
    /\ waiterInstance' = [waiterInstance EXCEPT ![k] = NoInstance]
    /\ rpc' = [rpc EXCEPT ![t] = "drop"]
    /\ UNCHANGED <<mapVars, fieldVars, viewVars, channelVars, waiters, item, count, tx,
                   requestVars, replyVars, callVars>>

\* and out of waiters; the dropped sender closes the call's oneshot.
take_waiter(t) ==
    LET c == waiters[taking[t]] IN
    /\ rpc[t] = "drop"
    /\ waiters' = [waiters EXCEPT ![taking[t]] = NoCall]
    /\ slot' = IF c # NoCall /\ RxAlive(c) THEN [slot EXCEPT ![c] = "closed"] ELSE slot
    /\ taking' = [taking EXCEPT ![t] = 0]
    /\ rpc' = [rpc EXCEPT ![t] = "fail"]
    /\ UNCHANGED <<mapVars, fieldVars, viewVars, channelVars, waiterInstance, item, count,
                   tx, failing, requestVars, reply, callVars>>

\* The task ends.
reader_done(t) ==
    /\ rpc[t] = "fail"
    /\ failing[t] = {}
    /\ rpc' = [rpc EXCEPT ![t] = "removed"]
    /\ UNCHANGED <<mapVars, fieldVars, viewVars, channelVars, waiterVars, readerVars,
                   requestVars, replyVars, callVars>>

----------------------------------------------------------------------------
(* The response stream of a Session.                                       *)

\* The simulator is sent the next envelope of its channel.
deliver(t) ==
    /\ rxOpen[t]
    /\ outbound[t] # <<>>
    /\ delivered' = [delivered EXCEPT ![t] = @ \cup {Head(outbound[t])}]
    /\ outbound' = [outbound EXCEPT ![t] = Tail(@)]
    /\ UNCHANGED <<mapVars, fieldVars, viewVars, rxOpen, waiterVars, rpc,
                   readerVars, requestVars, replyVars, callVars>>

\* The connection breaks: the response stream and its receiver are dropped,
\* and the queued envelopes with them, before the reader hears of it.
hangup(t) ==
    /\ t \in Breakable
    /\ rpc[t] \notin {"unused", "insert"}
    /\ rxOpen[t]
    /\ rxOpen' = [rxOpen EXCEPT ![t] = FALSE]
    /\ outbound' = [outbound EXCEPT ![t] = <<>>]
    /\ UNCHANGED <<mapVars, fieldVars, viewVars, delivered, waiterVars, rpc,
                   readerVars, requestVars, replyVars, callVars>>

----------------------------------------------------------------------------
(* The MCP calls (mcp.rs).                                                 *)

\* The id a selector stands for: the default when omitted, NoInstance when
\* the selector is not a valid id or there is no default.
Selectors == Ids \cup {NoInstance, Omitted}
Target(sel) == IF sel = Omitted THEN DefaultInstance ELSE sel

\* A call ends with a result.
Finish(c, r) ==
    /\ cpc' = [cpc EXCEPT ![c] = "done"]
    /\ result' = [result EXCEPT ![c] = r]

\* The call is given the next correlation id.
next_corr(c) ==
    /\ nextCorr <= MaxCorr
    /\ nextCorr' = nextCorr + 1
    /\ corr' = [corr EXCEPT ![c] = nextCorr]

\* resolve_or_default, and for a send or a wait the next_corr behind it.
resolve_or_default(c, sel) ==
    LET id == Target(sel) IN
    /\ cpc[c] = "idle"
    /\ \/ /\ id = NoInstance
          /\ Finish(c, "EmptyId")
          /\ UNCHANGED requestVars
       \/ /\ id # NoInstance /\ owner[id] = 0
          /\ Finish(c, "UnknownInstance")
          /\ UNCHANGED requestVars
       \/ /\ id # NoInstance /\ owner[id] # 0
          /\ cid' = [cid EXCEPT ![c] = id]
          /\ \/ /\ op[c].tag = "view"
                /\ cpc' = [cpc EXCEPT ![c] = "enqueue"]
                /\ UNCHANGED <<nextCorr, corr>>
             \/ /\ op[c].tag # "view"
                /\ next_corr(c)
                /\ cpc' = [cpc EXCEPT ![c] = IF op[c].tag = "wait" THEN "get" ELSE "send"]
          /\ UNCHANGED <<op, result>>
    /\ UNCHANGED <<mapVars, fieldVars, viewVars, channelVars, waiterVars, rpc, readerVars,
                   replyVars, sentOn>>

\* set_session_view resolves the id it found once more, inside enqueue.
enqueue(c) ==
    /\ cpc[c] = "enqueue"
    /\ \/ /\ owner[cid[c]] = 0
          /\ Finish(c, "UnknownInstance")
          /\ UNCHANGED <<nextCorr, corr>>
       \/ /\ owner[cid[c]] # 0
          /\ next_corr(c)
          /\ cpc' = [cpc EXCEPT ![c] = "send"]
          /\ UNCHANGED result
    /\ UNCHANGED <<mapVars, fieldVars, viewVars, channelVars, waiterVars, rpc, readerVars,
                   op, cid, replyVars, sentOn>>

\* Mutant of get: the waiter is not registered before the envelope is sent.
get_and_send(c) ==
    /\ cpc[c] = "get"
    /\ \/ owner[cid[c]] = 0 /\ Finish(c, "UnknownInstance")
       \/ /\ owner[cid[c]] # 0
          /\ cpc' = [cpc EXCEPT ![c] = "send"]
          /\ UNCHANGED result
    /\ UNCHANGED <<mapVars, fieldVars, viewVars, channelVars, waiterVars, rpc, readerVars,
                   requestVars, replyVars, sentOn>>

\* send_and_wait_for looks before it registers a waiter.
get(c) ==
    /\ cpc[c] = "get"
    /\ \/ owner[cid[c]] = 0 /\ Finish(c, "UnknownInstance")
       \/ /\ owner[cid[c]] # 0
          /\ cpc' = [cpc EXCEPT ![c] = "register"]
          /\ UNCHANGED result
    /\ UNCHANGED <<mapVars, fieldVars, viewVars, channelVars, waiterVars, rpc, readerVars,
                   requestVars, replyVars, sentOn>>

\* register_waiter, first lock and second lock.
register_waiter(c) ==
    /\ cpc[c] = "register"
    /\ waiters' = [waiters EXCEPT ![corr[c]] = c]
    /\ cpc' = [cpc EXCEPT ![c] = "tag"]
    /\ UNCHANGED <<mapVars, fieldVars, viewVars, channelVars, waiterInstance, rpc,
                   readerVars, requestVars, replyVars, result, sentOn>>

tag_waiter(c) ==
    /\ cpc[c] = "tag"
    /\ waiterInstance' = [waiterInstance EXCEPT ![corr[c]] = cid[c]]
    /\ cpc' = [cpc EXCEPT ![c] = "send"]
    /\ UNCHANGED <<mapVars, fieldVars, viewVars, channelVars, waiters, rpc, readerVars,
                   requestVars, replyVars, result, sentOn>>

\* Mutant of Refused: a view that could not be sent is stored all the same.
RefusedAnyway(c) ==
    CASE op[c].tag = "wait" -> "untag"
      [] op[c].tag = "view" -> "read_mask"
      [] op[c].tag = "send" -> "done"

\* Where a call goes when its envelope could not be sent, and when it could.
Refused(c) == IF op[c].tag = "wait" THEN "untag" ELSE "done"
Accepted(c) ==
    CASE op[c].tag = "wait" -> "await"
      [] op[c].tag = "view" -> "read_mask"
      [] op[c].tag = "send" -> "done"

\* Mutant of try_send: the envelope is queued before the capacity is looked at.
try_send_then_look(c) ==
    LET t == owner[cid[c]] IN
    /\ cpc[c] = "send"
    /\ t # 0
    /\ outbound' = [outbound EXCEPT ![t] = Append(@, corr[c])]
    /\ sentOn' = [sentOn EXCEPT ![c] = t]
    /\ result' = [result EXCEPT ![c] = "QueueFull"]
    /\ cpc' = [cpc EXCEPT ![c] = Refused(c)]
    /\ UNCHANGED <<mapVars, fieldVars, viewVars, rxOpen, delivered, waiterVars,
                   rpc, readerVars, requestVars, replyVars>>

\* A closed channel and a full one are the same error to try_send.
try_send(c) ==
    LET t == owner[cid[c]] IN
    /\ cpc[c] = "send"
    /\ \/ /\ t = 0
          /\ result' = [result EXCEPT ![c] = "UnknownInstance"]
          /\ cpc' = [cpc EXCEPT ![c] = Refused(c)]
          /\ UNCHANGED <<outbound, sentOn>>
       \/ /\ t # 0 /\ (~rxOpen[t] \/ Len(outbound[t]) = OutCap)
          /\ result' = [result EXCEPT ![c] = "QueueFull"]
          /\ cpc' = [cpc EXCEPT ![c] = Refused(c)]
          /\ UNCHANGED <<outbound, sentOn>>
       \/ /\ t # 0 /\ rxOpen[t] /\ Len(outbound[t]) # OutCap
          /\ outbound' = [outbound EXCEPT ![t] = Append(@, corr[c])]
          /\ sentOn' = [sentOn EXCEPT ![c] = t]
          /\ cpc' = [cpc EXCEPT ![c] = Accepted(c)]
          /\ result' = IF op[c].tag = "send" THEN [result EXCEPT ![c] = "queued"] ELSE result
    /\ UNCHANGED <<mapVars, fieldVars, viewVars, rxOpen, delivered, waiterVars, rpc,
                   readerVars, requestVars, replyVars>>

\* The oneshot resolves: with a reply, or because its sender was dropped.
receive(c) ==
    /\ cpc[c] = "await"
    /\ slot[c] # "empty"
    /\ Finish(c, IF slot[c] = "reply" THEN "reply" ELSE "Disconnected")
    /\ UNCHANGED <<mapVars, fieldVars, viewVars, channelVars, waiterVars, rpc, readerVars,
                   requestVars, replyVars, sentOn>>

\* Mutant of expire: the timeout branch forgets take_waiter.
expire_and_leave(c) ==
    /\ cpc[c] = "await"
    /\ slot[c] = "empty"
    /\ Finish(c, "Timeout")
    /\ UNCHANGED <<mapVars, fieldVars, viewVars, channelVars, waiterVars, rpc, readerVars,
                   requestVars, replyVars, sentOn>>

\* Mutant of expire: the timer runs only while the stream is registered.
expire_connected(c) ==
    /\ cpc[c] = "await"
    /\ slot[c] = "empty"
    /\ owner[cid[c]] = sentOn[c]
    /\ result' = [result EXCEPT ![c] = "Timeout"]
    /\ cpc' = [cpc EXCEPT ![c] = "untag"]
    /\ UNCHANGED <<mapVars, fieldVars, viewVars, channelVars, waiterVars, rpc, readerVars,
                   requestVars, replyVars, sentOn>>

\* Mutant of expire: a request that was not answered in time is sent again.
expire_and_resend(c) ==
    /\ cpc[c] = "await"
    /\ slot[c] = "empty"
    /\ cpc' = [cpc EXCEPT ![c] = "send"]
    /\ UNCHANGED <<mapVars, fieldVars, viewVars, channelVars, waiterVars, rpc, readerVars,
                   requestVars, replyVars, result, sentOn>>

\* Mutant of expire: the timer is polled before the receiver.
expire_first(c) ==
    /\ cpc[c] = "await"
    /\ result' = [result EXCEPT ![c] = "Timeout"]
    /\ cpc' = [cpc EXCEPT ![c] = "untag"]
    /\ UNCHANGED <<mapVars, fieldVars, viewVars, channelVars, waiterVars, rpc, readerVars,
                   requestVars, replyVars, sentOn>>

\* The timer fires first; the receiver is dropped with the future.
expire(c) ==
    /\ cpc[c] = "await"
    /\ slot[c] = "empty"
    /\ result' = [result EXCEPT ![c] = "Timeout"]
    /\ cpc' = [cpc EXCEPT ![c] = "untag"]
    /\ UNCHANGED <<mapVars, fieldVars, viewVars, channelVars, waiterVars, rpc, readerVars,
                   requestVars, replyVars, sentOn>>

\* take_waiter by the call itself, first lock and second lock.
untag_waiter(c) ==
    /\ cpc[c] = "untag"
    /\ waiterInstance' = [waiterInstance EXCEPT ![corr[c]] = NoInstance]
    /\ cpc' = [cpc EXCEPT ![c] = "unregister"]
    /\ UNCHANGED <<mapVars, fieldVars, viewVars, channelVars, waiters, rpc, readerVars,
                   requestVars, replyVars, result, sentOn>>

unregister_waiter(c) ==
    /\ cpc[c] = "unregister"
    /\ waiters' = [waiters EXCEPT ![corr[c]] = NoCall]
    /\ cpc' = [cpc EXCEPT ![c] = "done"]
    /\ UNCHANGED <<mapVars, fieldVars, viewVars, channelVars, waiterInstance, rpc,
                   readerVars, requestVars, replyVars, result, sentOn>>

\* set_session_view, behind the enqueue: whichever Instance now has the id is
\* given the mask,
set_read_mask(c) ==
    /\ cpc[c] = "read_mask"
    /\ mask' = IF owner[cid[c]] # 0 THEN [mask EXCEPT ![cid[c]] = op[c].mask] ELSE mask
    /\ cpc' = [cpc EXCEPT ![c] = "exclude"]
    /\ UNCHANGED <<mapVars, fieldVars, exclude, channelVars, waiterVars, rpc, readerVars,
                   requestVars, replyVars, result, sentOn>>

\* and then the excluded log components.
set_exclude_log_components(c) ==
    /\ cpc[c] = "exclude"
    /\ exclude' = IF owner[cid[c]] # 0
                  THEN [exclude EXCEPT ![cid[c]] = op[c].exclude]
                  ELSE exclude
    /\ Finish(c, "queued")
    /\ UNCHANGED <<mapVars, fieldVars, mask, channelVars, waiterVars, rpc, readerVars,
                   requestVars, replyVars, sentOn>>

\* observe pops one envelope of a connected instance.
try_recv_inbound(id) ==
    /\ id \in Observed
    /\ owner[id] # 0
    /\ inbound[id] # <<>>
    /\ inbound' = [inbound EXCEPT ![id] = Tail(inbound[id])]
    /\ UNCHANGED <<mapVars, heartbeat, viewVars, channelVars, waiterVars, rpc, readerVars,
                   requestVars, replyVars, callVars>>

----------------------------------------------------------------------------
\* What the task of a stream does by itself once it has an item or an end.
Reader(t) ==
    \/ insert(t) \/ owns(t) \/ set_heartbeat(t) \/ complete_waiter(t) \/ notify(t)
    \/ push_inbound(t) \/ remove_if(t) \/ fail_waiters(t)
    \/ (\E k \in Corrs : take_waiter_instance(t, k)) \/ take_waiter(t) \/ reader_done(t)

\* What the simulator at the other end and its connection do.
Peer(t) == next(t) \/ end_of_stream(t) \/ deliver(t) \/ hangup(t)

\* What a call does by itself once it is made.
Call(c) ==
    \/ enqueue(c) \/ get(c) \/ register_waiter(c) \/ tag_waiter(c) \/ try_send(c)
    \/ receive(c) \/ expire(c) \/ untag_waiter(c) \/ unregister_waiter(c)
    \/ set_read_mask(c) \/ set_exclude_log_components(c)

Next ==
    \/ \E id \in Ids : session(id) \/ try_recv_inbound(id)
    \/ \E t \in Tokens : Reader(t) \/ Peer(t)
    \/ \E c \in Calls : Call(c) \/ (\E sel \in Selectors : resolve_or_default(c, sel))

Spec == Init /\ [][Next]_vars

\* The runtime polls a task that can run, and a reply timer fires: neither a
\* reader nor a call stops halfway.  Simulators and clients owe nothing.
Fairness ==
    /\ \A t \in Tokens : WF_vars(Reader(t))
    /\ \A c \in Calls : WF_vars(Call(c))

FairSpec == Spec /\ Fairness

----------------------------------------------------------------------------
(* What the session hop guarantees.                                        *)

\* A call that ends with a reply was given the reply to its own envelope: a
\* simulator had been sent that envelope, the corr is the call's and the
\* payload of the kind it waits for, on whichever stream the reply came and
\* however often it was repeated.  And no reply is lost to a timer or a
\* disconnect: a call that was handed one ends with it (send_and_wait_for,
\* complete_waiter).
ReplyBelongsToCall ==
    \A c \in Calls :
        /\ result[c] = "reply" =>
              /\ reply[c].corr = corr[c]
              /\ waiter_matches(op[c].kind, reply[c])
              /\ sentOn[c] # 0 /\ corr[c] \in delivered[sentOn[c]]
        /\ slot[c] = "reply" /\ cpc[c] = "done" => result[c] = "reply"

\* A finished call leaves nothing behind in waiters or waiter_instance,
\* whichever of reply, disconnect, timeout and failed send came first and
\* whatever a reader was doing to the same entry (take_waiter's two locks).
NoWaiterLeak ==
    \A c \in Calls : cpc[c] = "done" /\ corr[c] # 0 =>
        /\ waiters[corr[c]] = NoCall
        /\ waiterInstance[corr[c]] = NoInstance

\* No call is left waiting for a stream that is gone: once the stream that took
\* its envelope has unregistered the id and its task has ended, the oneshot
\* is resolved, or another stream is about to drop its sender or to notify it
\* of a reply; the call need not wait for the timer (remove_if, fail_waiters).
NotStranded ==
    \A c \in Calls :
        cpc[c] = "await" /\ slot[c] = "empty" /\ rpc[sentOn[c]] = "removed" =>
            \E t \in Tokens : \/ rpc[t] = "drop" /\ taking[t] = corr[c]
                              \/ rpc[t] = "notify" /\ tx[t] = c

\* While a call waits its reply can still reach it: its waiter is in the map,
\* or a reader has taken it out and is about to notify the call.
ReplyCanStillArrive ==
    \A c \in Calls : cpc[c] = "await" /\ slot[c] = "empty" =>
        \/ waiters[corr[c]] = c
        \/ \E t \in Tokens : rpc[t] = "notify" /\ tx[t] = c

\* A registered id has a running reader, and the reader is of that id: no
\* entry of the map outlives its stream, even when streams of one id take
\* their tokens in one order and register in the other.
RegisteredHasReader ==
    \A id \in Ids : owner[id] # 0 =>
        /\ sid[owner[id]] = id
        /\ rpc[owner[id]] \in {"next", "owns", "heartbeat", "complete", "notify",
                               "push", "leave"}

\* Sessions are kept apart: the heartbeat an instance reports came on its own
\* stream, so a replaced stream's last one never overwrites its successor's
\* (set_heartbeat); an observer sees only events of streams that registered
\* its id, and a simulator is sent only what was meant for its id.
Isolation ==
    /\ \A id \in Ids : heartbeat[id] # NoItem => heartbeat[id].stream = owner[id]
    /\ \A id \in Ids : \A m \in ToSet(inbound[id]) : sid[m.stream] = id
    /\ \A t \in Tokens, c \in Calls :
          corr[c] \in delivered[t] \cup ToSet(outbound[t]) => cid[c] = sid[t]

\* An id is unregistered by no stream but the one that holds it: a stream that
\* was replaced leaves its successor alone (remove_if).
OnlyOwnerUnregisters ==
    [][ \A id \in Ids : owner[id] # 0 /\ owner'[id] = 0 =>
          rpc[owner[id]] = "leave" /\ rpc'[owner[id]] = "collect" ]_vars

\* A set_session_view that could not be sent leaves the host's view alone: a
\* view the map holds for an id is one some call has sent, also when streams of
\* the id replace each other or break halfway (set_session_view_json's `?`).
StoredViewWasSent ==
    \A id \in Ids : mask[id] # {} =>
        \E c \in Calls : cid[c] = id /\ sentOn[c] # 0 /\ op[c].mask = mask[id]

\* The session hop as its callers see it: the call that carries a corr is the
\* request, an answer counts once the call has ended.
CallOf(k) == CHOOSE c \in Calls : corr[c] = k
RequestQueue  == [t \in Tokens |-> [i \in DOMAIN outbound[t] |-> CallOf(outbound[t][i])]]
RequestTaken  == [t \in Tokens |-> {c \in Calls : corr[c] \in delivered[t]}]
RequestAnswer == [c \in Calls |-> IF cpc[c] = "done" THEN result[c] ELSE "none"]
R == INSTANCE Request WITH
        Requests <- Calls, Streams <- Tokens, NoStream <- 0, stream <- sentOn,
        queue <- RequestQueue, taken <- RequestTaken, answer <- RequestAnswer

\* The map, the waiters and the readers keep the contract of Request: sent at
\* most once and in order, refused only if never sent (so a retry of a refused
\* call is safe), answered at most once and never before it was delivered.
ImplementsRequest == R!Spec

\* Every call that is made comes to an end: no reader, stream or other call
\* can keep it (send_and_wait_for's timeout).
CallsEnd == \A c \in Calls : cpc[c] # "idle" ~> cpc[c] = "done"

\* A stream that ends, fails, says goodbye or carries anything after it was
\* replaced is eventually out of the map for good, and its task ends: a
\* replaced stream handles at most the item it was at (owns).  A replaced
\* stream that carries nothing more is not ended by the code.
StreamsEnd ==
    \A t \in Tokens : rpc[t] = "leave" \/ (rpc[t] = "owns" /\ owner[sid[t]] # t) ~>
        [](rpc[t] \in {"removed", "replaced"} /\ \A id \in Ids : owner[id] # t)

----------------------------------------------------------------------------
(* What the code's own comments say, and the code does not keep.           *)

\* WaitError::Disconnected, "The instance disconnected while waiting.": the
\* stream that took the call's envelope no longer holds the id.
DisconnectedMeansGone ==
    \A c \in Calls : result[c] = "Disconnected" => owner[cid[c]] # sentOn[c]

=============================================================================
