----------------------------- MODULE Deployment -----------------------------
(***************************************************************************)
(* The whole deployment: an operator runs xtask tasks, start-csm-proxy     *)
(* becomes a proxy, the proxy starts simulators, and what one invocation   *)
(* leaves on disk and among the processes meets the next one.              *)
(***************************************************************************)
EXTENDS Xtask, Proxy

vars == <<xtaskVars, proxyVars, workVars>>

TypeOK ==
    /\ script \in Scripts /\ tasks \in 0..Len(script)
    /\ status \in {"none", "SUCCESS", "FAILURE"}
    /\ built \subseteq {"cargo", "pio"}
    /\ measured \in Percents \cup {0} /\ report \in Percents \cup {0}
    /\ DOMAIN disk = Dirs /\ starting \subseteq Ids
    /\ children \in [Ids -> 0..Len(proc)] /\ Len(proc) <= MaxPid
    /\ conf.mcp_http # Bare /\ conf.auto_sleep \in {"yes", "no"}
    /\ conf.default_instance \in Ids \cup {Absent}
    /\ toReap \subseteq Ids /\ reading \in BOOLEAN

Init == XtaskInit /\ WorkDirsInit /\ ProxyInit

\* The operator types a command.
type == xtask /\ UNCHANGED <<proxyVars, workVars>>

\* xtask goes on; the step that execs it makes it the proxy.
task ==
    /\ XtaskStep
    /\ IF at' = "proxy" THEN main(proxy_argv, cmd.env) ELSE UNCHANGED <<proxyVars, workVars>>

\* The proxy and its simulators go on, whoever waits for them.
proxy == ProxyStep /\ UNCHANGED xtaskVars

\* The proxy has gone and the terminal is free again.
prompt ==
    /\ at = "proxy" /\ state \in {"exited", "crashed"}
    /\ at' = "idle"
    /\ UNCHANGED <<script, tasks, status, buildVars, coverVars, proxyVars, workVars>>

Next == type \/ task \/ proxy \/ prompt

Spec == Init /\ [][Next]_vars

\* The runtime polls what can go on: the listeners and the select over them,
\* the reap, a start between two awaits, and its own shutdown.
Fairness ==
    /\ WF_vars(Ends /\ UNCHANGED xtaskVars)
    /\ \A c \in Starts : WF_vars(starts(c) /\ UNCHANGED xtaskVars)
FairSpec == Spec /\ Fairness

----------------------------------------------------------------------------
\* What an earlier invocation left is not taken for this one's work.  When the
\* proxy runs, this invocation's cargo build succeeded and, if --build-firmware
\* asks for it, so did its pio run, and the simulator it hands on was there (one
\* that an earlier invocation built, if nothing asks for a build); and a coverage
\* task that succeeds ("require more than 90% line cover") has measured it itself.
OwnArtefacts ==
    /\ at = "proxy" =>
          /\ "cargo" \in built
          /\ cmd.build_firmware /\ cmd.firmware \in Directories => "pio" \in built
          /\ cmd.firmware # Absent => simulator \in files
    /\ status = "SUCCESS" /\ cmd.task = "coverage" => measured > MIN_LINE_COVERAGE_PERCENT

\* The last value an argv gives to a flag, which is the one the firmware takes.
Takes(argv, name) ==
    argv[CHOOSE i \in Positions(argv, name) : \A j \in Positions(argv, name) : j <= i][2]

\* A simulator runs as operator and client asked, whatever the environment and
\* the extra arguments say: the firmware's program, dialling the address its
\* proxy was told to listen on, under the id of the call.
LaunchedAsAsked ==
    \A p \in Pids : Live(p) /\ proc[p].inc = inc /\ state \in {"running", "returned"} =>
        /\ cmd.firmware # Absent => proc[p].binary = simulator
        /\ Takes(proc[p].argv, "sim-grpc-addr") = listen
        /\ Takes(proc[p].argv, "sim-instance-id") = IdOf(proc[p].start)

\* A simulator finds what its client asked for, by parameter or by the defaults
\* csm://capabilities advertises: the book, and the never-sleep settings, which
\* settings saved there by an earlier simulator do not survive; only one that
\* shares the directory meanwhile can overwrite them.
SeededAsAsked ==
    \A p \in Pids : proc[p].inc = inc /\ state \in {"running", "returned"} =>
        LET c == proc[p].start
            capabilities == capabilities_document
        IN  /\ capabilities.configured
            /\ unwrap_or(params[c].sample_book, capabilities.sampleBookDefault)
                    => proc[p].found.book
            /\ unwrap_or(params[c].auto_sleep, capabilities.autoSleepDefault) = "no" /\ alone[c]
                    => proc[p].found.settings = "never"

\* Two live simulators of different ids that run in one default directory.
ShareDefault(p, q) ==
    LET c == proc[p].start
        d == proc[q].start
    IN  /\ Live(p) /\ Live(q) /\ IdOf(c) # IdOf(d)
        /\ params[c].cwd = Absent /\ params[d].cwd = Absent
        /\ proc[p].dir = proc[q].dir

\* default_cwd calls its directory per-instance, and safe_dir_name keeps that but
\* for one case: simulators of different ids share a default directory only if
\* the id of the one is the hexadecimal form of the other's, as "2f" is of "/".
DirsApart ==
    \A p, q \in Pids : ShareDefault(p, q) =>
        \/ IdOf(proc[p].start) = Hexadecimal(IdOf(proc[q].start))
        \/ IdOf(proc[q].start) = Hexadecimal(IdOf(proc[p].start))

\* A simulator outlives its proxy only if the proxy was killed: one that leaves
\* main, for whichever listener's end and in the middle of a reap or a start,
\* has killed every simulator it started.
OrphanMeansCrash ==
    \A p \in Pids :
        /\ proc[p].state = "running"
        /\ proc[p].inc < inc \/ state \in {"dropped", "exited", "crashed"}
        => proc[p].inc \in crashed

\* The end of either listener ends the proxy, which then waits for nothing but
\* the thread that reads stdin.
ProxyEnds ==
    (state = "running" /\ (session = "ended" \/ mcp \in {"ended", "failed"}))
        ~> (state \in {"exited", "crashed"} \/ (state = "dropped" /\ reading))
=============================================================================
