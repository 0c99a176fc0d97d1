# crosspoint-simulator-mcp in TLA+

`crosspoint-simulator-mcp-proxy` stands between MCP clients (agents) and
CrossPoint simulators.  Simulators dial in over gRPC and keep one `Session`
stream open; clients call MCP tools that send to a simulator, wait for its
reply, read its events, or start and stop simulator processes.  All of it runs
on a multi-threaded tokio runtime over a handful of mutex-protected maps.  This
directory models that core and the life of the process around it, from the
developer's `cargo xtask` down to the simulators, checks it with TLC and proves
its safety properties with TLAPS.

## The system and its parts

| part | state | operations | talks to |
| --- | --- | --- | --- |
| inbound queue (`instances.rs`, `InboundQueue`) | a deque of envelopes, capacity 128 | `push` with eviction, `try_recv` | filled by the session reader, drained by `observe` |
| instance map (`instances.rs`, `InstanceMap`) | id -> `Instance` (token, heartbeat, inbound queue, outbound channel, view); token and corr counters; `waiters` and `waiter_instance` by corr | `insert`, `owns`, `set_heartbeat`, `remove_if`, `push_inbound`, `try_send`, `send_and_wait_for`, `set_read_mask`, ... | shared by every task |
| Session service (`session.rs`) | one task per stream | register, read loop, response stream | the instance map |
| MCP request tools (`mcp.rs`) | one task per call | `enqueue`, `enqueue_wait`, `inject_*`, `inject_batch`, `set_inject_enabled`, `request_snapshot`, `set_session_view`, `get_instance`, `list_instances`, resources | the instance map |
| MCP observe (`mcp.rs`) | one task per call | drain, until-conditions, deadline, echo | the instance map |
| spawn supervisor (`spawn.rs`) and `start_instance`, `shutdown_instance` (`mcp.rs`) | `children` and `starting` by id, processes | `start`, `reap`, `reap_all`, `is_alive` | the instance map, the operating system |
| working directories, seeds, argv (`spawn.rs`) | the files of a directory | `default_cwd`, `seed_sample_book`, `seed_never_sleep_settings`, `spawn_argv` | the simulators that run there |
| the process (`main.rs`, `lib.rs`, `cli.rs`, transports of `mcp.rs`) | flags, two listeners | `run`, `serve`, `serve_mcp_stdio`, `serve_mcp_http`, `reap_spawned` | the operator, the runtime, the supervisor |
| `xtask` | binaries, the coverage report | `start-csm-proxy`, `coverage`, `generate-sim-cpp` | cargo, pio, buf; becomes the proxy |
| protocol bindings, logging, `scripts/e2e-session.py` | | | not modelled |

What is hard about it: `InstanceMap` uses one mutex per map and never holds two
at once, so every operation that touches two maps can be interrupted in
between; streams of one id replace each other while the old stream's task is
still running; replies, disconnects and timers race for one oneshot; and the
start of a simulator spans two critical sections and a polling loop while other
calls reap by id.  What makes each part correct:

- queue: order, bound, envelopes go in the order the agent guide gives, nothing
  durable is lost once queued;
- map and sessions: a reply reaches the call it answers and no other; no waiter
  leaks; no call is left to a stream that is gone; an id in the map has a live
  reader; a replaced stream does no harm to its successor; everything ends;
- observe: each event once and in order, an echo that is not older than the
  match, an end unless the simulator keeps it draining;
- request tools: a batch stops at its first failure whoever holds the id by
  then, an ack is not taken for a paint, what the caller is told is what
  happened, and to the instance it named;
- process: the end of either listener ends it, a simulator outlives it only if
  it was killed, and simulators run where, what and as they were asked to;
- xtask: the proxy that runs is the one this invocation built, no stale report
  passes (a firmware program an earlier invocation built is used again unless
  `--build-firmware` is given);
- supervisor: no process runs untracked, no id stays reserved, a failed start
  leaves nothing behind, everything ends.

`PROJECT.json` lists the hazards at their lines, with the properties aimed at
each.

## Modules

| module | models |
| --- | --- |
| `Envelopes` | what the proxy tells apart in a `SimToServer` envelope; the eviction policy and `push`; `waiter_matches`; visibility under a view |
| `EventLog` | abstract: what an observer may rely on, whatever the queue does |
| `InboundQueue` | the queue as a machine of its own; implements `EventLog` |
| `EnvelopesProofs` | what `push`, `eviction_index` and removals do to a queue; used by the next two |
| `InboundQueueProofs` | theorems about the queue |
| `Sessions` | the instance map, the read loop of every stream, and the MCP calls that send, wait and set the view |
| `SessionsProofs`, `SessionsRefinement` | theorems about it; that it implements `Request` |
| `Request` | abstract: a request is put on one stream at most once, taken at most once, and its caller told one thing, which a reply is only if a simulator took it; implemented by `Sessions`, used by `McpTools` |
| `McpTools` | the request tools, `inject_batch` and the looks at the map, over `Request` |
| `McpToolsProofs` | theorems about it |
| `Flags`, `Xtask`, `Proxy`, `WorkDirs` | command lines; the developer's tasks; the proxy as a process; what a start does to the disk |
| `Deployment` | their composition: an operator's commands, the proxies they become, the simulators those start |
| `DeploymentProofs` | theorems about it |
| `SpawnSupervisor` | the supervisor, the start and shutdown tools, reap_all, processes |
| `SpawnSupervisorProofs` | theorems about it |
| `ObserveWait` | the observe tool over one instance |
| `ObserveWaitProofs` | theorems about it |
| `MC*` | small instances for TLC |

Conventions.  Definitions carry the names of the functions they model.  One
action is one critical section (or one atomic operation) together with the
local code up to the next one; a task's program counter (`rpc`, `cpc`, `pc`)
says where it is.  An operation whose code takes two locks is two actions, for
example `take_waiter`, which is `take_waiter_instance`/`take_waiter` in the
reader and `untag_waiter`/`unregister_waiter` in the call.  Definitions marked
"Mutant of" are plausible bugs; they are not part of the model, and each shows
that some property notices it.

`Sessions`.  A stream is its token.  The `Instance` under an id is spread over
functions of the id (`owner`, `heartbeat`, `inbound`, `mask`, `exclude`), reset
by `insert` and `remove_if`.  `session` takes the token (`fetch_add` before the
lock) and `insert` registers it, so tokens may register out of order.  The read
loop is `next`, `owns`, `set_heartbeat`, then `push_inbound` in its three
critical sections (`complete_waiter`, `notify`, `push_inbound`), and at its end
`remove_if`, `fail_waiters` and the takes.  After a Goodbye the loop calls
`remove_if` twice; the second finds a foreign token or nothing and changes
nothing, so it is not a step.  A call is `resolve_or_default`, then for a wait `get`,
`register_waiter`, `tag_waiter`, `try_send`, and `receive` or `expire`; for a
view `enqueue`, `try_send`, `set_read_mask`, `set_exclude_log_components`.
`timeout` polls the receiver before the timer, so `expire` needs an empty
oneshot.  `sentOn` and the `stream` of a message are history.  A simulator may
echo any corr a simulator was sent, on any stream and any number of times
(`Handed`): `complete_waiter` looks at the corr alone, and a simulator re-opens
its stream after a disconnect (`session.proto:10`).  That it echoes no corr it was
not sent by this proxy is assumed (`session.proto:22`); one that answers a proxy's
requests after a restart of the proxy, whose corrs start over, is not modelled.  A
first message that is not a valid `Register` is refused before any state
exists.

`Request` and `Sessions`.  `ImplementsRequest` maps a call to a request: its
stream is the one `try_send` used, its queue the outbound channel, and its
answer the call's result once the call has ended.  A step of the map, of a
reader or of a waiter map that changes none of these is a stutter.

`McpTools`.  A tool call is a record: which instance it selects (an id, omitted,
or an invalid one), what its steps share and the steps; a tool that makes one
request has one step, a look at the map none.  `Merged` is the inheritance of
`wait`, `wait_mode` and `space`, `Malformed` what is refused before a request
exists, in the code's order.  `step` resolves and sends on the stream that has
the id now, `give_up` is the timer or the `fail_waiters` of an id that was left
(whichever stream left it: see `DisconnectedMeansGone`), `receive` reports.
`hangup` breaks a response stream, whether its id is still registered or not, and
a request to a registered id whose channel is closed is refused as by a full one.  The
simulator accepts, rejects and settles (a `UiResult`, whether `painted` or a
miss) in any order with all of that, and an envelope of any other payload may
echo a corr.

`Deployment`.  `Xtask` runs one task after the other in one terminal on the
files earlier ones left; a compiler leaves the binary or not, whether it
succeeds or not.  The exec makes the task the proxy, with `proxy_argv` and the
inherited environment; `Flags` is clap (argv, else environment, else default;
a repeated single-value flag, and one without the value it needs, is an error).  `Proxy` has the two listeners, the
`select!` over them (`run`), the reap after the end of stdin, the drop of the
runtime (calls stop at their next await, so a start finishes its synchronous
section, then `kill_on_drop` kills what the supervisor holds), the thread that
may still be blocked on stdin, and `crash`: the proxy handles no signal.
`axum::serve` does not return, so with HTTP only a failed bind ends the transport.
`WorkDirs` has the synchronous section of `start` file by file; ids are byte
sequences, so that `safe_dir_name` is what it computes.  Whether an id is
connected is left open there (`start` may always be refused), and `reap` takes
and kills in one step, because dropping the child in between kills it as well;
`SpawnSupervisor` has those steps apart.  Simulators save settings of their own
and exit when they like.

`SpawnSupervisor`.  `starting` and `children` are `Inner`'s maps.  A process is
running, killed (the signal is on its way) or exited; `kill_on_drop` makes
`store` kill the child it displaces.  `connected` is the part of the instance
map start_instance looks at.  The model assumes `--simulator` is set and ids are
valid; otherwise `start` refuses before it touches anything.  Creating the
working directory, seeding it and the exec may each fail; all failures take the
same path, `clear_starting`.

`ObserveWait`.  A log event is reduced to which conditions its text can match; the
events that have an identity are bounded, and beside them the simulator may go on
for ever queueing envelopes no condition reads (`push_other`), which the drain has
to pop as well.
`set_heartbeat` assumes a simulator does not decrease its framebuffer
generation within a session (`EchoCoversMatch` depends on it).

## Runs

| run | instance | shows |
| --- | --- | --- |
| `inbound_queue` | capacity 3, 6 pushes, 6 payloads | bound, order, eviction policy, refinement of `EventLog` |
| `sessions_wait` | 2 calls that wait for paint, 1 id, 2 streams, 2 results on either stream | replies, leaks, disconnects and timeouts at every interleaving |
| `sessions_streams` | 1 call, 2 ids, 2 streams, heartbeats, logs, goodbyes, errors, a broken connection | ownership, isolation, heartbeats; a stored view was sent; refinement of `Request` |
| `sessions_live` | 1 call (waits for any reply or for paint, or a view), 2 streams, 2 replies, matching or not, repeated or on either stream | the reply is the call's; refinement of `Request`; calls end, and streams that leave or carry something after they were replaced |
| `mcp_tools` | a batch of up to 2 steps (5 kinds) beside one of 9 other calls, 2 ids, 2 streams, one of which may break, outbound capacity 1 | where a batch stops, what is reported, which instance, that calls end |
| `deployment` | 5 scripts of up to 5 commands, 2 starts on 3 ids, 2 simulators, coverage of 89.99, 90 and 90.01 % | builds, flags, seeds, directories, orphans, the end of the process |
| `spawn` | 2 starts, 1 reap_all, 2 ids | reservations are released; reap_all kills what it found |
| `spawn_live` | 2 starts, 1 shutdown, 1 id | no orphan; a failed start leaves nothing; every call ends |
| `observe_drain` | 2 observers, 2 sessions, 2 events | each event once, in order |
| `observe_until` | 1 observer, every condition, 2 sessions, a simulator that may never stop sending | echo covers match; observe ends unless it drains for ever |
| `disconnected_means_gone`, `one_live_child` | as above, or smaller | violated: the findings below |

Bounds.  Two streams of one id are what a replacement needs, two calls are what
a race for the waiter maps needs, and the actions of a third would only repeat
one of theirs; capacity 3 lets an eviction take the first, a middle or the last
position, and six pushes fill the queue and evict as often as it is long.
`MaxToken`, `MaxCorr`, `MaxItems`, `MaxPush`, `MaxPid`, `MaxPushes`, `MaxGen`,
`MaxPage`, `MaxSessions` and `MaxSteps` bound counters the code leaves unbounded;
`MaxNoise` is the room of the queue for envelopes no condition reads, whose number
is not bounded.  `MaxItems` is two, for a stream and for two of them together: a
reply behind an ack, a reply that comes again on its stream, and one on each.
A batch of two steps has a step that fails before another; two commands that
launch a proxy are a crash and a restart; the three ids are two that are written
in hexadecimal and one that is the hexadecimal form of another.  `sessions_wait`
does not check `ImplementsRequest`, which `sessions_streams` and `sessions_live`
check on every kind of call, one call at a time; that two requests keep their order
in one channel is `SessionsRefinement`'s, for every number of calls.  `Breakable`
and `Observed` say which streams may break and which ids are read, to keep
apart what a run is not about.  Deadlock checking is off where the bounds make the model stop.

Fairness.  The runtime keeps polling a task that can make progress, mutexes are
held for a few instructions, and timers fire: weak fairness of each reader's,
each call's and each clock's steps.  Nothing is assumed of simulators, clients
or the network.  In `Deployment` the fair steps are those of the runtime: binding,
the select, the reap, a start between two awaits, the drop and the exit; not the
end of stdin, of a listener, or a crash.  `ProxyEnds` therefore ends in the exit
or in the wait for the thread that reads stdin.  `ObserveEnds` says that
an observe ends or is for ever in its drain, which has no deadline.  `StreamsEnd` starts where a
replaced stream carries something: one that stays connected and silent keeps its
task for as long, and nothing in the code would end it.

## Findings

- `DisconnectedMeansGone` (`instances.rs:222`): `remove_if` drops the map's
  lock before `fail_waiters` collects waiters by id.  A stream that registers
  in between, and a call sent on it, share the id; the call is told
  "instance disconnected" although its simulator is connected and has the
  request.
- `OneLiveChild` (`spawn.rs:341`): `reap` clears a reservation that belongs to
  another call's `start`, and two children of one id run at once.  `NoOrphan`
  shows that the displaced one is killed when the second is stored.

Read off the code, without a run of their own.

- Of several queued heartbeats the oldest is evicted (`instances.rs:469`), where the
  agent guide says "Eviction drops newest heartbeats first" (`SKILL.md:355`).
  `EvictsLeastValuable` states the order of ranks, on which the two agree, and leaves
  out which of equals goes.
- The "Per-instance working directory" (`spawn.rs:139`) of the id `/` is that of the
  id `2f` (`spawn.rs:174`), because a plain id may look like the hexadecimal form of
  another.  `DirsApart` shows that this is the only way two ids share one.
- `drain_observe` pops until the queue is empty (`mcp.rs:471`), so a simulator that
  sends as fast as the loop pops holds an observe past its deadline, where the tool is
  described to wait "until any condition matches or wait_ms elapses" (`mcp.rs:1496`).
  `ObserveEnds` names the case.
- `push_inbound` has no token (`instances.rs:403`), so a stream replaced between
  `owns` and `push_inbound` queues its event on its successor; the sink `insert`
  returns for the purpose ("Push side of the inbound queue, held by the Session
  read loop", `instances.rs:606`) is dropped at `session.rs:82`.  `Isolation`
  shows that `set_heartbeat`, which has the token, does not have the problem, and
  that the event stays within the id.
- `set_session_view` enqueues and stores under different locks (`mcp.rs:781`), so
  two concurrent calls can leave host and simulator with different views,
  although the stored mask is the "Last `SetSessionView.read_mask` enqueued by
  MCP" (`instances.rs:125`).  `StoredViewWasSent` is what holds.
- With `start-csm-proxy --mode stdio`, a `CSM_MCP_HTTP` in the environment is
  inherited by the proxy, which then serves HTTP; the flag is documented as
  "(http mode only)" (`start.rs:46`).  Likewise `CSM_SIMULATOR` reaches the proxy
  when start-csm-proxy logs that "start_instance will be unset" (`start.rs:228`).
- `cargo build` and `pio run` inherit stdout (`start.rs:163`, `192`); pio writes its progress
  there also in stdio mode, where stdout is to carry JSON-RPC only.
- `sample_book: false` and `auto_sleep: true` write nothing, so what an earlier
  start seeded in the same directory stays, where the instructions promise "an
  empty library" and "firmware's 10-minute idle sleep" (`mcp.rs:52`, `54`).
- The default directories of the ids `.` and `..` are `csm-spawn` itself and its
  parent (`spawn.rs:143`).
- `--listen` with port 0 passes port 0 to the simulator (`spawn.rs:130`).
- A stdio proxy whose Session listener cannot bind returns from `run`, but its
  exit waits for the thread that reads stdin.

And about the queue and observe: a full queue of never-drop
envelopes refuses the next one (`instances.rs:105-109`, both branches return),
while the agent guide says they are never dropped (what does hold, that none is
evicted once queued, is `ImplementsEventLog`); `try_send` reports a closed channel as a full one
(`instances.rs:317`); `until_progress_page` 0 matches an instance that has sent
no heartbeat (`mcp.rs:438`, `994`).  `start_instance` looks whether the id is
connected before it takes the supervisor's lock (`mcp.rs:812`), and answers with
its own pid whichever simulator registers the id (`mcp.rs:831`).

## Proofs

Every invariant and every action property that a run checks is also proved, for
every value of the constants.  A proof of `Spec => []Inv` goes through an
inductive invariant, the conjunction of the named parts below; TLC finds each to
hold on the instances of the runs as well.  One lemma per action shows
that the action keeps the parts it can disturb.

`InboundQueueProofs`, for every set of payloads, every capacity and every
number of pushes.

- `Invariance`: `IInv`, the conjunction of `TypeOK` (which has the bound),
  `InOrder` and `received <= pushed`, is inductive.  They need each other: that a push extends the order needs
  the numbers to be at most `pushed`, that it keeps the bound needs the length
  to be exactly the capacity when something is evicted.
- `TypeCorrect` and `OrderCorrect` follow.
- `Refinement`: `Spec => ImplementsEventLog`.  `PushCases` shows that `push`
  does one of three things: nothing, append, or append after removing one
  position whose rank is not 0.  That `CHOOSE` finds such a position needs a
  worst-ranked, oldest evictable position to exist (`WorstFirst`), which rests
  on `LeastNatural`; that removing a position removes exactly one event of the
  set needs the numbers to be distinct, which is `InOrder`.
- `EvictionCorrect`: `Spec => EvictsLeastValuable`.  A push loses at most what
  `eviction_index` names (`PushLoses`), and the ranks are the names of the
  guide's order (`RankNames`).

`SessionsProofs`, for every set of ids, every number of streams and calls, every
capacity and every envelope (`NamesAssumption`, `BoundsAssumption`,
`OpsAssumption`, `PayloadsAssumption`: names are distinct from the ids, bounds are
natural numbers, operations and payloads have their types).  `IInv` is `TypeOK`
with two halves.

- `Routing` says who owns an id and where an envelope is.  Streams are numbered
  as they open (`Opened`), a reader works on an envelope of its own stream that
  echoes only what some simulator was sent (`Items`), a corr is one call's
  (`Numbered`), and what a channel holds or has delivered was sent on it by the
  call of that corr (`Sent`, `Channels`).  `EntriesHaveReaders`, `SessionsApart`,
  `ViewWasSent` and `OwnerUnregisters` follow.
- `Replies` says, for every corr, which of the call and the readers holds the
  waiter.  The code takes two locks to file a waiter and two to take it out, so
  that "a call that waits has its waiter in the map" is false between them;
  what holds is `Known` (it is in the map, or a reader is about to notify the
  call) and `Filed` (it is filed under the id, or a reader or a leaving stream
  is at it, and a leaving stream of the call has it on its list).  Replies may be
  repeated and come on any stream, so it takes `Notifying` to say that no two
  readers are about to notify one call.  `Waiters`,
  `Tagged`, `Notifying`, `Failing` and `Slots` say the same from the side of the
  maps, the readers and the oneshot, and `Outcome` what a call ends with.
  `OwnReply`, `NoLeak`, `NobodyStranded` and `StillAnswerable` follow.

`SessionsRefinement`: `Spec => ImplementsRequest`.  The mapping takes the outbound
channel of corrs to a queue of calls (`RequestQueue`), what was delivered to what
was taken (`RequestTaken`), and a call's result to an answer once the call has
ended (`RequestAnswer`).  That a corr names one call, and goes on naming it, is
`Numbered` and `Channels`; that a reply is answered only to a request that was
taken is `Slots`.  Every action is one step of `Request` or changes none of these.

`ObserveWaitProofs`, for every number of observers, events and sessions: `SharedOnce`
and `EchoPastFloor`.  The queue is numbered and everything drained precedes
everything queued (`Numbering`), which is why two observers that drain one queue
between each other's pops have different events (`Distinct`); and between the
match and the report the heartbeat of the session that matched stays past the
floor (`Past`), which uses that generations do not decrease within a session.

`McpToolsProofs`, for every set of tool calls and batches of every length up to
`MaxSteps` (`ToolsAssumption`: a call is one of the tools, a tool that is neither a
batch nor a look has one step).  `Registered` and `Given` say that a request is on
the stream of the instance its call names, `Order` that a call goes on only after
an ok, `Awaiting` and `Truthful` that a reply is of the awaited kind and says what
the simulator did, `Told` and `Looked` what was reported.  `BatchStops`,
`PaintSettles`, `ReportsTrue` and `ReachesRightInstance` follow.

`SpawnSupervisorProofs`, for every set of ids, every number of calls and
every bound on processes; it assumes only `SpawnAssumption` (the bound is a
natural number, no call is of two kinds).

- `Invariance`: `IInv` is `TypeOK` with `Safe`.  The properties are not inductive by
  themselves.  `Fresh` (the processes to come are unused and nothing refers to
  them) is why a new process cannot be one a map entry or a call already names;
  `OneId` and `OwnChild` (a start works on one id, and its process is its own and
  was started with that id) are why storing the process puts it where
  `NoOrphan` looks for it; `ReapedStart` carries `FailedStartLeavesNothing`
  through the steps between a start's reap and its answer: the start's process is either
  the child the reap took, or was displaced and killed, or was taken by another
  call; `ListedStored` says that a child `reap_all` listed and has not come to is
  still stored under an id on its list.
- The steps that touch only sessions and the clock share one lemma (`Quiet`).
- `TypeCorrect`, `NoOrphanCorrect`, `NoStuckReservationCorrect`,
  `FailedStartCorrect` and `ReapAllCorrect` follow.

`DeploymentProofs`, for every script, every set of ids, starts, directories and
files, and every number of simulators.  It assumes that commands are one of the
three tasks with sequences of arguments (`ScriptsAssumption`), that no path is
both a file and a directory (`FilesAssumption`), that ids are byte sequences
(`WorkDirsAssumption`), that a value that was not given is told from one that was
left empty (`FlagsAssumption`), and that the default of a bare `--mcp-http` is an
address (`ProxyAssumption`).  The invariant is in layers, each proved from the
ones before it; `Invariance` puts them together.

- `TaskOK`, `PlanOK`, `ReportOK`: what a task has made sure of when it gets to a
  step.  `OwnArtefactsCorrect` follows.
- `ProxyOK`: a proxy that serves has the address and the simulator of the plan,
  whatever follows `--` and whatever the environment says.  `ProxyArgv` shows
  where in the argv they are, `FirstGiven` that the first flag of a name counts;
  a second one is refused.
- `WorkOK`: the shape of maps, calls, disk and processes, and that a process is
  where its start works.  `TypeCorrect` follows, and with `NamesApart` (two
  hexadecimal digits are one byte, so two names in hexadecimal are apart)
  `DirsApartCorrect`.
- `OwnOK`: calls are in progress only in a proxy that serves, a start has at most
  one process, and a running process is `Held`: its proxy was killed, or the
  proxy that serves has it in `children`, or the start that made it is about to
  store it.  `OrphanCorrect` follows.
- `LaunchOK`: the processes of the proxy that runs were started with its flags.
  With `SpawnArgvTaken` (the Session flags come last, and the last flag of a name
  is the one the firmware takes), `LaunchedCorrect` follows.
- `SeedOK`: what a start has seeded is there until its process has found it, or
  another simulator has run in the directory meanwhile.  `SeededCorrect` follows.

Only model-checked: the liveness properties (`CallsEnd` of three modules,
`StreamsEnd`, `ObserveEnds`, `ProxyEnds`); fairness and `ENABLED` are out of the
prover's reach.  The two violations are TLC's as well.

## Plan

1. Done: all the modules above, and proofs of every safety property and both
   refinements.
2. Models that would add something: `Sessions`' map under `SpawnSupervisor`
   (whose pid does `start_instance` report), and the queue's eviction inside
   `ObserveWait`.
3. Next proofs: that `McpTools` uses its requests as `Request` allows, as a
   second refinement next to that of `Sessions`; what `SpawnSupervisor` and
   `WorkDirs` say in common of one start, as a refinement of an abstract start.

## Not modelled

The rendering of answers as JSON, coordinates, keys and the payload fields a
property does not tell apart; the third-party HTTP and gRPC stacks under the
transports; logging, and the `DISPLAY` and library paths `start-csm-proxy` sets,
which reach no state of the program; the generated protocol bindings; the
end-to-end script, a test driver; poisoned mutexes (a panic under a lock ends the
proxy's usefulness altogether); the wrap-around of the 64-bit counters; two
proxies or two coverage tasks at the same time.
