-------------------------------- MODULE Proxy --------------------------------
(***************************************************************************)
(* The proxy as a process (main.rs, lib.rs, cli.rs and the transports of   *)
(* mcp.rs): it reads its flags, serves Session and one MCP transport until *)
(* either ends, and goes, by returning from main or by being killed.  The  *)
(* next one knows nothing of the one before.                               *)
(***************************************************************************)
EXTENDS WorkDirs

CONSTANTS ProxyListen, ProxyHttp   \* the defaults of --listen and --mcp-http

ASSUME ProxyAssumption == ProxyHttp # Bare

VARIABLES
    inc,      \* the proxies there have been
    state,    \* of the last: "none", "running", "returned", "dropped", "exited", "crashed"
    crashed,  \* history: the ones that were killed
    conf,     \* its flags
    session,  \* the Session listener: "binding", "serving", "ended"
    mcp,      \* the transport: "binding", "handshake", "serving", "reaping", "ended", "failed"
    toReap,   \* reap_all: the ids left
    reading   \* a thread is blocked reading stdin

listenVars == <<session, mcp, toReap, reading>>
proxyVars  == <<inc, state, crashed, conf, listenVars>>

Singles == {"listen", "mcp-http", "default-instance", "simulator", "auto-sleep"}

\* Mutant of given: a bare --mcp-http has no address.
given_as_is(v, name) == v

\* What a flag stands for when it is given without a value.
given(v, name) ==
    IF v # Bare THEN v ELSE IF name = "mcp-http" THEN ProxyHttp ELSE "yes"

Parsed(argv, env, name, default) == given(arg(argv, env, name, default), name)

\* cli::Args, of which SpawnConfig::from_args takes the last four.
from_args(argv, env) ==
    [mcp_http         |-> Parsed(argv, env, "mcp-http", Absent),
     default_instance |-> Parsed(argv, env, "default-instance", Absent),
     listen           |-> Parsed(argv, env, "listen", ProxyListen),
     simulator        |-> Parsed(argv, env, "simulator", Absent),
     simulator_arg    |-> args(argv, env, "simulator-arg"),
     auto_sleep       |-> Parsed(argv, env, "auto-sleep", "no")]

\* clap refuses a repeated flag, one without the value it needs, an instance id
\* that is not valid and an auto-sleep that is no boolean.
parse_error(argv, env) ==
    \/ Repeated(argv, Singles)
    \/ \E n \in {"listen", "default-instance", "simulator"} : arg(argv, env, n, Absent) = Bare
    \/ from_args(argv, env).default_instance \notin Ids \cup {Absent}
    \/ from_args(argv, env).auto_sleep \notin {"yes", "no"}

\* The flags of a proxy that is given none.
Defaults ==
    [mcp_http |-> Absent, default_instance |-> Absent, listen |-> ProxyListen,
     simulator |-> Absent, simulator_arg |-> <<>>, auto_sleep |-> "no"]

\* What csm://capabilities says of this process.
capabilities_document ==
    [configured |-> conf.simulator # Absent, autoSleepDefault |-> conf.auto_sleep,
     sampleBookDefault |-> TRUE]

ProxyInit ==
    /\ inc = 0 /\ state = "none" /\ crashed = {}
    /\ conf = Defaults
    /\ session = "ended" /\ mcp = "failed" /\ toReap = {} /\ reading = FALSE

----------------------------------------------------------------------------
(* The process.                                                            *)

\* main and run: parse, then begin to serve.
main(argv, env) ==
    /\ state \in {"none", "exited", "crashed"}
    /\ inc' = inc + 1
    /\ \/ /\ parse_error(argv, env)
          /\ state' = "exited" /\ UNCHANGED <<conf, listenVars>>
       \/ /\ ~parse_error(argv, env)
          /\ state' = "running"
          /\ conf' = from_args(argv, env)
          /\ session' = "binding" /\ mcp' = "binding"
          /\ UNCHANGED <<toReap, reading>>
    /\ UNCHANGED <<crashed, workVars>>

\* serve: the address is bound and connections are accepted, or not.
serve ==
    /\ state = "running"
    /\ session = "binding" /\ session' \in {"serving", "ended"}
    /\ UNCHANGED <<inc, state, crashed, conf, mcp, toReap, reading, workVars>>

\* The Session listener may fail later.
serve_ends ==
    /\ state = "running"
    /\ session = "serving" /\ session' = "ended"
    /\ UNCHANGED <<inc, state, crashed, conf, mcp, toReap, reading, workVars>>

\* HTTP: bound or not; axum::serve does not return.
serve_mcp_http ==
    /\ state = "running" /\ conf.mcp_http # Absent
    /\ mcp = "binding" /\ mcp' \in {"serving", "failed"}
    /\ UNCHANGED <<inc, state, crashed, conf, session, toReap, reading, workVars>>

\* stdio: the client's initialize, and serving until stdin ends; then every
\* child there is listed and reaped, one after the other.
serve_mcp_stdio ==
    /\ state = "running" /\ conf.mcp_http = Absent
    /\ \/ /\ mcp = "binding" /\ mcp' = "handshake"
          /\ reading' = TRUE /\ UNCHANGED toReap
       \/ /\ mcp = "handshake" /\ mcp' = "serving"
          /\ UNCHANGED <<toReap, reading>>
       \/ /\ mcp = "handshake" /\ mcp' = "failed"
          /\ reading' = FALSE /\ UNCHANGED toReap
       \/ /\ mcp = "serving" /\ mcp' = "reaping"
          /\ reading' = FALSE
          /\ toReap' = {id \in Ids : children[id] # 0}
    /\ UNCHANGED <<inc, state, crashed, conf, session, workVars>>

reap_spawned ==
    /\ state = "running" /\ mcp = "reaping"
    /\ \/ \E id \in toReap :
            /\ reap(id)
            /\ toReap' = toReap \ {id}
            /\ UNCHANGED mcp
       \/ toReap = {} /\ mcp' = "ended" /\ UNCHANGED <<toReap, workVars>>
    /\ UNCHANGED <<inc, state, crashed, conf, session, reading>>

\* Mutant of run: it waits for both.
run_join ==
    /\ state = "running"
    /\ session = "ended" /\ mcp \in {"ended", "failed"}
    /\ state' = "returned" /\ toReap' = {}
    /\ UNCHANGED <<inc, crashed, conf, session, mcp, reading, workVars>>

\* run: when either has ended the other is dropped, a reap in progress included.
run ==
    /\ state = "running"
    /\ session = "ended" \/ mcp \in {"ended", "failed"}
    /\ state' = "returned" /\ toReap' = {}
    /\ UNCHANGED <<inc, crashed, conf, session, mcp, reading, workVars>>

Busy == {c \in Starts : call[c] \notin {"idle", "done"}}
Gone == [c \in Starts |-> IF c \in Busy THEN "done" ELSE call[c]]

\* Mutant of drop_runtime: no kill_on_drop.
drop_runtime_only ==
    /\ state = "returned" /\ Busy = {}
    /\ state' = "dropped"
    /\ children' = [id \in Ids |-> 0]
    /\ UNCHANGED <<inc, crashed, conf, listenVars, disk, starting, startVars, proc>>

\* The runtime is dropped: tasks stop at their next await, the supervisor goes
\* with the last of them, and kill_on_drop kills the children it holds.
drop_runtime ==
    /\ state = "returned" /\ Busy = {}
    /\ state' = "dropped"
    /\ children' = [id \in Ids |-> 0]
    /\ proc' = Killed({children[id] : id \in Ids})
    /\ UNCHANGED <<inc, crashed, conf, listenVars, disk, starting, startVars>>

\* The process exits when no thread reads stdin any more.
exits ==
    /\ state = "dropped" /\ ~reading
    /\ state' = "exited"
    /\ UNCHANGED <<inc, crashed, conf, listenVars, workVars>>

\* stdin gives the blocked thread something, or ends.
stdin_yields ==
    /\ state \in {"returned", "dropped"} /\ reading
    /\ reading' = FALSE
    /\ UNCHANGED <<inc, state, crashed, conf, session, mcp, toReap, workVars>>

\* The process is killed; it has no handler for any signal.
crash ==
    /\ state \in {"running", "returned", "dropped"}
    /\ state' = "crashed" /\ crashed' = crashed \cup {inc}
    /\ starting' = {} /\ children' = [id \in Ids |-> 0]
    /\ call' = Gone /\ toReap' = {} /\ reading' = FALSE
    /\ UNCHANGED <<inc, conf, session, mcp, disk, params, alone, proc>>

----------------------------------------------------------------------------
(* Tool calls in the process.                                              *)

\* Calls the transport has handed over go on until the runtime is dropped.
Serving == state \in {"running", "returned"} /\ mcp \in {"serving", "reaping", "ended"}

start_instance(c) == Serving /\ start(c, conf) /\ UNCHANGED proxyVars
starts(c)         == Started(c, conf, inc) /\ UNCHANGED proxyVars
shutdown_instance(id) ==
    Serving /\ (id \in starting \/ children[id] # 0) /\ reap(id) /\ UNCHANGED proxyVars
simulator_step(p) == (exit(p) \/ save_settings(p)) /\ UNCHANGED proxyVars

Ends == serve \/ run \/ reap_spawned \/ drop_runtime \/ exits

ProxyStep ==
    \/ Ends \/ serve_ends \/ serve_mcp_http \/ serve_mcp_stdio \/ stdin_yields \/ crash
    \/ \E c \in Starts : start_instance(c) \/ starts(c)
    \/ \E id \in Ids : shutdown_instance(id)
    \/ \E p \in Pids : simulator_step(p)
=============================================================================
