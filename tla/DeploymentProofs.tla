-------------------------- MODULE DeploymentProofs --------------------------
(***************************************************************************)
(* What holds of a deployment for every script, every set of ids, starts   *)
(* and directories, and every number of simulators.  The invariant is in   *)
(* layers, from the tasks of xtask to what a simulator finds on disk; the  *)
(* proof of a layer may use the ones before it.                            *)
(***************************************************************************)
EXTENDS Deployment, FiniteSetTheorems, TLAPS

Launching == {"cargo", "cargo done", "resolve", "pio", "program", "exec", "proxy"}
Covering  == {"tools", "test", "json", "html", "read", "show", "open", "decide"}

\* Where a task can be, and what it is then doing.
TaskOK ==
    /\ script \in Scripts /\ tasks \in 0..Len(script)
    /\ status \in {"none", "SUCCESS", "FAILURE"}
    /\ at \in Launching \cup Covering \cup {"idle", "generate"}
    /\ at # "idle" => tasks > 0 /\ status = "none"
    /\ at \in Launching => cmd.task = "start-csm-proxy"
    /\ at \in Covering => cmd.task = "coverage"
    /\ at = "generate" => cmd.task = "generate-sim-cpp"
    /\ built \subseteq {"cargo", "pio"}
    /\ measured \in Percents \cup {0} /\ report \in Percents \cup {0}

\* What start-csm-proxy has made sure of when it gets to a step.
PlanOK ==
    /\ files \cap (Directories \cup {Absent, Bare}) = {}
    /\ at \in Launching \ {"cargo"} => "cargo" \in built
    /\ at \in {"program", "exec", "proxy"} /\ cmd.build_firmware /\ cmd.firmware \in Directories
            => "pio" \in built
    /\ at \in {"exec", "proxy"} /\ cmd.firmware # Absent => simulator \in files

\* The report a coverage task reads is its own.
ReportOK ==
    /\ at \in {"html", "read", "show", "open", "decide"} => report \in {measured, 0}
    /\ at \in {"show", "open", "decide"} => report # 0
    /\ status = "SUCCESS" /\ cmd.task = "coverage" => measured > MIN_LINE_COVERAGE_PERCENT

\* A proxy that runs is the task in the terminal, and has the flags it was given.
ProxyOK ==
    /\ inc \in Nat
    /\ state \in {"none", "running", "returned", "dropped", "exited", "crashed"}
    /\ state \in {"running", "returned", "dropped"} => at = "proxy"
    /\ toReap \subseteq Ids /\ reading \in BOOLEAN
    /\ conf.mcp_http # Bare /\ conf.auto_sleep \in {"yes", "no"}
    /\ conf.default_instance \in Ids \cup {Absent}
    /\ IsSequence(conf.simulator_arg)
    /\ state \in {"running", "returned"} =>
          /\ conf.listen = listen
          /\ cmd.firmware # Absent => conf.simulator = simulator

\* A start is a record of what it asks for; a process one of what it was given.
Contents  == [book : BOOLEAN, settings : {"none", "never", "own"}]
IsProcess(r) ==
    /\ r = [state |-> r.state, inc |-> r.inc, start |-> r.start, dir |-> r.dir,
            binary |-> r.binary, argv |-> r.argv, found |-> r.found]
    /\ r.state \in {"running", "killed", "exited"}
    /\ r.inc \in Nat /\ r.start \in Starts

Made    == {"dir", "book", "settings", "exec", "store"}   \* a start in progress
Before  == {"idle", "dir", "book", "settings", "exec"}    \* it has no process yet

WorkOK ==
    /\ params \in Clients
    /\ disk \in [Dirs -> Contents] /\ starting \subseteq Ids
    /\ call \in [Starts -> Made \cup {"idle", "done"}]
    /\ alone \in [Starts -> BOOLEAN]
    /\ IsSequence(proc) /\ Len(proc) <= MaxPid
    /\ children \in [Ids -> 0..Len(proc)]
    /\ \A p \in Pids : IsProcess(proc[p]) /\ proc[p].dir = workdir(proc[p].start)

\* A process is that of a killed proxy, or is stored or about to be stored in the
\* proxy that runs.
Held(p) ==
    \/ proc[p].inc \in crashed
    \/ /\ proc[p].inc = inc /\ state \in {"running", "returned"}
       /\ children[IdOf(proc[p].start)] = p \/ call[proc[p].start] = "store"

\* Calls are in progress only in a proxy that serves, each start has at most one
\* process, and a running process is held.
OwnOK ==
    /\ \A c \in Starts : call[c] \in Made =>
          state \in {"running", "returned"} /\ conf.simulator # Absent
    /\ \A p \in Pids : proc[p].inc <= inc /\ call[proc[p].start] \notin Before
    /\ \A p, q \in Pids : proc[p].start = proc[q].start => p = q
    /\ \A p \in Pids : proc[p].state = "running" => Held(p)

\* The processes of the proxy that runs were started with its flags.
LaunchOK ==
    state \in {"running", "returned"} =>
        \A p \in Pids : proc[p].inc = inc =>
            /\ conf.simulator # Absent
            /\ proc[p].binary = conf.simulator
            /\ proc[p].argv = spawn_argv(conf, IdOf(proc[p].start))

\* What a start has seeded is there until its process has found it.
SeedOK ==
    /\ \A c \in Starts :
          /\ call[c] \in {"settings", "exec"} /\ sample_book(c) => disk[workdir(c)].book
          /\ call[c] = "exec" /\ auto_sleep(c, conf) = "no" /\ alone[c] =>
                /\ disk[workdir(c)].settings = "never"
                /\ \A p \in Pids : Live(p) => proc[p].dir # workdir(c)
    /\ state \in {"running", "returned"} =>
          \A p \in Pids : proc[p].inc = inc =>
              /\ sample_book(proc[p].start) => proc[p].found.book
              /\ auto_sleep(proc[p].start, conf) = "no" /\ alone[proc[p].start]
                    => proc[p].found.settings = "never"

IInv == TaskOK /\ PlanOK /\ ReportOK /\ ProxyOK /\ WorkOK /\ OwnOK /\ LaunchOK /\ SeedOK

----------------------------------------------------------------------------
(* Sequences.                                                              *)

\* What is a sequence has a length and is defined up to it.
LEMMA SequenceFacts ==
    ASSUME NEW s, IsSequence(s)
    PROVE  Len(s) \in Nat /\ DOMAIN s = 1..Len(s)
BY DEF IsSequence

\* A function on 1..n is a sequence of its values.
LEMMA IsSequenceFrom ==
    ASSUME NEW n \in Nat, NEW T, NEW s \in [1..n -> T]
    PROVE  IsSequence(s) /\ Len(s) = n
<1>1. s \in Seq({s[i] : i \in DOMAIN s})
  <2>1. s \in [1..n -> {s[i] : i \in DOMAIN s}]
    OBVIOUS
  <2> QED BY <2>1
<1>2. Len(s) = n
  OBVIOUS
<1> QED BY <1>1, <1>2 DEF IsSequence

\* Every member of Seq(T) is one.
LEMMA SeqIsSequence ==
    ASSUME NEW T, NEW s \in Seq(T)
    PROVE  IsSequence(s) /\ DOMAIN s = 1..Len(s) /\ Len(s) \in Nat
<1>1. Len(s) \in Nat /\ s \in [1..Len(s) -> T]
  OBVIOUS
<1> QED BY <1>1, IsSequenceFrom

\* Append keeps the elements and adds one.
LEMMA AppendFacts ==
    ASSUME NEW s, NEW e, IsSequence(s)
    PROVE  /\ IsSequence(Append(s, e)) /\ Len(Append(s, e)) = Len(s) + 1
           /\ DOMAIN Append(s, e) = 1..(Len(s) + 1)
           /\ \A i \in 1..Len(s) : Append(s, e)[i] = s[i]
           /\ Append(s, e)[Len(s) + 1] = e
<1> DEFINE T == {s[i] : i \in DOMAIN s} \cup {e}
<1>1. s \in Seq(T) /\ e \in T
  <2>1. s \in Seq({s[i] : i \in DOMAIN s})
    BY DEF IsSequence
  <2> QED BY <2>1
<1>2. Append(s, e) \in Seq(T) /\ Len(Append(s, e)) = Len(s) + 1
  BY <1>1
<1> HIDE DEF T
<1>3. IsSequence(Append(s, e)) /\ DOMAIN Append(s, e) = 1..(Len(s) + 1)
  BY <1>2, SeqIsSequence
<1>4. /\ \A i \in 1..Len(s) : Append(s, e)[i] = s[i]
      /\ Append(s, e)[Len(s) + 1] = e
  BY <1>1
<1> QED BY <1>2, <1>3, <1>4

\* Concatenation puts one sequence after the other.
LEMMA ConcatFacts ==
    ASSUME NEW s, NEW t, IsSequence(s), IsSequence(t)
    PROVE  /\ IsSequence(s \o t) /\ Len(s \o t) = Len(s) + Len(t)
           /\ DOMAIN (s \o t) = 1..(Len(s) + Len(t))
           /\ \A i \in 1..Len(s) : (s \o t)[i] = s[i]
           /\ \A i \in 1..Len(t) : (s \o t)[Len(s) + i] = t[i]
<1> DEFINE T == {s[i] : i \in DOMAIN s} \cup {t[i] : i \in DOMAIN t}
<1>1. s \in Seq(T)
  <2>1. s \in Seq({s[i] : i \in DOMAIN s})
    BY DEF IsSequence
  <2> QED BY <2>1
<1>2. t \in Seq(T)
  <2>1. t \in Seq({t[i] : i \in DOMAIN t})
    BY DEF IsSequence
  <2> QED BY <2>1
<1>3. s \o t \in Seq(T) /\ Len(s \o t) = Len(s) + Len(t)
  BY <1>1, <1>2
<1> HIDE DEF T
<1>4. IsSequence(s \o t) /\ DOMAIN (s \o t) = 1..(Len(s) + Len(t))
  BY <1>3, SeqIsSequence
<1>5. /\ \A i \in 1..Len(s) : (s \o t)[i] = s[i]
      /\ \A i \in 1..Len(t) : (s \o t)[Len(s) + i] = t[i]
  BY <1>1, <1>2
<1> QED BY <1>3, <1>4, <1>5

----------------------------------------------------------------------------
(* The tasks of xtask.                                                     *)

LEMMA TasksInit == Init => TaskOK /\ PlanOK /\ ReportOK
<1> SUFFICES ASSUME Init PROVE TaskOK /\ PlanOK /\ ReportOK
  OBVIOUS
<1>1. IsSequence(script)
  BY ScriptsAssumption DEF Init, XtaskInit
<1>2. Len(script) \in Nat
  BY <1>1, SequenceFacts
<1>3. TaskOK
  BY <1>2 DEF Init, XtaskInit, TaskOK, Launching, Covering
<1>4. PlanOK
  BY FilesAssumption DEF Init, XtaskInit, PlanOK, Launching
<1>5. ReportOK
  BY DEF Init, XtaskInit, ReportOK
<1> QED BY <1>3, <1>4, <1>5

\* The operator types the next command.
LEMMA TasksType ==
    ASSUME TaskOK, PlanOK, ReportOK, xtask
    PROVE  TaskOK' /\ PlanOK' /\ ReportOK'
<1>1. Len(script) \in Nat /\ DOMAIN script = 1..Len(script)
  BY ScriptsAssumption, SequenceFacts DEF TaskOK
<1>2. tasks' \in 1..Len(script) /\ script' = script
  BY <1>1 DEF TaskOK, xtask
<1>3. script[tasks'].task \in {"start-csm-proxy", "coverage", "generate-sim-cpp"}
  BY <1>1, <1>2, ScriptsAssumption DEF TaskOK
<1>4. /\ script[tasks'].task = "start-csm-proxy" => at' = "cargo"
      /\ script[tasks'].task = "coverage" => at' = "tools"
      /\ script[tasks'].task = "generate-sim-cpp" => at' = "generate"
  BY <1>3 DEF xtask
<1>5. TaskOK'
  <2>1. cmd' = script[tasks'] /\ status' = "none" /\ built' = {} /\ measured' = 0 /\ report' = report
    BY <1>2 DEF xtask, cmd
  <2>2. tasks' \in 0..Len(script') /\ tasks' > 0 /\ script' \in Scripts
    BY <1>1, <1>2 DEF TaskOK
  <2> QED BY <1>3, <1>4, <2>1, <2>2 DEF TaskOK, Launching, Covering
<1>6. PlanOK'
  BY <1>3, <1>4 DEF PlanOK, xtask, Launching
<1>7. ReportOK'
  BY <1>3, <1>4 DEF ReportOK, xtask
<1> QED BY <1>5, <1>6, <1>7

\* A program that pio builds is no directory.
LEMMA ProgramIsFile ==
    ASSUME TaskOK, PlanOK, at \in Launching
    PROVE  Program \notin Directories \cup {Absent, Bare}
<1>1. Len(script) \in Nat /\ DOMAIN script = 1..Len(script)
  BY ScriptsAssumption, SequenceFacts DEF TaskOK
<1>2. tasks \in 0..Len(script) /\ tasks > 0 /\ cmd.task = "start-csm-proxy"
  BY DEF TaskOK, Launching
<1>3. <<cmd.firmware, unwrap_or(cmd.board, DefaultBoard)>> \notin Directories \cup {Absent, Bare}
  <2>1. tasks \in DOMAIN script
    BY <1>1, <1>2
  <2> QED BY <1>2, <2>1, ScriptsAssumption DEF TaskOK, cmd
<1> QED BY <1>3 DEF Program, program_path, PlanOK

\* start-csm-proxy goes on.
LEMMA TasksPlan ==
    ASSUME TaskOK, PlanOK, ReportOK, plan \/ exec_proxy, UNCHANGED <<coverVars, script, tasks>>
    PROVE  TaskOK' /\ PlanOK' /\ ReportOK'
<1>1. Program \notin Directories \cup {Absent, Bare} \/ at # "pio"
  BY ProgramIsFile DEF Launching
<1>2. ProxyBin \notin Directories \cup {Absent, Bare} /\ Absent \notin Directories
  BY FilesAssumption
<1>3. cmd' = cmd
  BY DEF cmd
<1>4. ReportOK'
  BY <1>3 DEF ReportOK, TaskOK, plan, build_proxy, build_firmware, resolve_simulator, exec_proxy,
        run_status, Goto, Exit, coverVars
<1>5. CASE build_proxy
  <2>1. TaskOK'
    BY <1>3, <1>5 DEF TaskOK, build_proxy, run_status, Goto, Exit, coverVars, buildVars,
          Launching, Covering
  <2>2. PlanOK'
    BY <1>2, <1>3, <1>5 DEF PlanOK, build_proxy, run_status, compiles, Goto, Exit, buildVars, Launching
  <2> QED BY <1>4, <2>1, <2>2
<1>6. CASE build_firmware
  <2>1. TaskOK'
    BY <1>3, <1>6 DEF TaskOK, build_firmware, run_status, Goto, Exit, coverVars, Launching, Covering
  <2>2. PlanOK'
    BY <1>1, <1>3, <1>6 DEF PlanOK, build_firmware, run_status, compiles, Goto, Exit, Launching
  <2> QED BY <1>4, <2>1, <2>2
<1>7. CASE resolve_simulator
  <2>1. TaskOK'
    BY <1>3, <1>7 DEF TaskOK, resolve_simulator, Goto, Exit, coverVars, Launching, Covering
  <2>2. PlanOK'
    BY <1>2, <1>3, <1>7 DEF PlanOK, resolve_simulator, Goto, Exit, Launching
  <2> QED BY <1>4, <2>1, <2>2
<1>8. CASE exec_proxy
  <2>1. TaskOK'
    BY <1>3, <1>8 DEF TaskOK, exec_proxy, Goto, Exit, coverVars, buildVars, Launching, Covering
  <2>2. PlanOK'
    BY <1>3, <1>8 DEF PlanOK, exec_proxy, Goto, Exit, buildVars, Launching
  <2> QED BY <1>4, <2>1, <2>2
<1> QED BY <1>5, <1>6, <1>7, <1>8 DEF plan

\* coverage goes on.
LEMMA TasksCoverage ==
    ASSUME TaskOK, PlanOK, ReportOK, run_coverage, UNCHANGED <<buildVars, script, tasks>>
    PROVE  TaskOK' /\ PlanOK' /\ ReportOK'
<1>1. cmd' = cmd
  BY DEF cmd
<1>2. Percents \subseteq Nat \ {0}
  BY PercentsAssumption
<1>3. PlanOK'
  BY <1>1 DEF PlanOK, run_coverage, tool_missing, llvm_cov, line_percent, html_index,
        open_default_browser, decide, Goto, Exit, buildVars, Launching
<1>4. CASE tool_missing \/ line_percent \/ html_index \/ open_default_browser
  <2>1. TaskOK'
    BY <1>1, <1>4 DEF TaskOK, tool_missing, line_percent, html_index, open_default_browser,
          Goto, Exit, coverVars, buildVars, Launching, Covering
  <2>2. ReportOK'
    BY <1>1, <1>4 DEF TaskOK, ReportOK, tool_missing, line_percent, html_index,
          open_default_browser, Goto, Exit, coverVars
  <2> QED BY <1>3, <2>1, <2>2
<1>5. CASE llvm_cov
  <2>1. TaskOK'
    BY <1>1, <1>5 DEF TaskOK, llvm_cov, Goto, Exit, coverVars, buildVars, Launching, Covering
  <2>2. ReportOK'
    BY <1>1, <1>5 DEF TaskOK, ReportOK, llvm_cov, Goto, Exit, coverVars
  <2> QED BY <1>3, <2>1, <2>2
<1>6. CASE decide
  <2>1. TaskOK'
    BY <1>1, <1>6 DEF TaskOK, decide, Exit, coverVars, buildVars, Launching, Covering
  <2>2. report = measured /\ report \in Nat
    BY <1>2, <1>6 DEF ReportOK, TaskOK, decide
  <2>3. ReportOK'
    BY <1>1, <1>6, <2>2 DEF ReportOK, decide, Exit, coverVars, MIN_LINE_COVERAGE_PERCENT
  <2> QED BY <1>3, <2>1, <2>3
<1> QED BY <1>4, <1>5, <1>6 DEF run_coverage

\* Every step keeps what is known of the tasks.
LEMMA TasksNext ==
    ASSUME TaskOK, PlanOK, ReportOK, [Next]_vars
    PROVE  TaskOK' /\ PlanOK' /\ ReportOK'
<1>1. CASE type
  BY <1>1, TasksType DEF type
<1>2. CASE task
  <2>1. UNCHANGED <<script, tasks>>
    BY <1>2 DEF task, XtaskStep
  <2>2. CASE (plan \/ exec_proxy) /\ UNCHANGED coverVars
    BY <2>1, <2>2, TasksPlan
  <2>3. CASE run_coverage /\ UNCHANGED buildVars
    BY <2>1, <2>3, TasksCoverage
  <2>4. CASE run_generate_sim_cpp /\ UNCHANGED <<buildVars, coverVars>>
    <3>1. cmd' = cmd
      BY <2>1 DEF cmd
    <3>2. TaskOK'
      BY <2>1, <2>4, <3>1 DEF TaskOK, run_generate_sim_cpp, Exit, buildVars, coverVars, Launching, Covering
    <3>3. PlanOK'
      BY <2>4, <3>1 DEF PlanOK, run_generate_sim_cpp, Exit, buildVars, Launching
    <3>4. ReportOK'
      BY <2>4, <3>1 DEF TaskOK, ReportOK, run_generate_sim_cpp, Exit, coverVars
    <3> QED BY <3>2, <3>3, <3>4
  <2> QED BY <1>2, <2>2, <2>3, <2>4 DEF task, XtaskStep
<1>3. CASE prompt
  <2>1. cmd' = cmd
    BY <1>3 DEF prompt, cmd
  <2>2. TaskOK'
    BY <1>3, <2>1 DEF TaskOK, prompt, buildVars, coverVars, Launching, Covering
  <2>3. PlanOK'
    BY <1>3, <2>1 DEF PlanOK, prompt, buildVars, Launching
  <2>4. ReportOK'
    BY <1>3, <2>1 DEF ReportOK, prompt, coverVars
  <2> QED BY <2>2, <2>3, <2>4
<1>4. CASE UNCHANGED xtaskVars
  <2>1. cmd' = cmd
    BY <1>4 DEF xtaskVars, cmd
  <2>2. TaskOK'
    BY <1>4, <2>1 DEF TaskOK, xtaskVars, taskVars, buildVars, coverVars
  <2>3. PlanOK'
    BY <1>4, <2>1 DEF PlanOK, xtaskVars, taskVars, buildVars
  <2>4. ReportOK'
    BY <1>4, <2>1 DEF ReportOK, xtaskVars, taskVars, coverVars
  <2> QED BY <2>2, <2>3, <2>4
<1>5. UNCHANGED vars => UNCHANGED xtaskVars
  BY DEF vars
<1>6. proxy => UNCHANGED xtaskVars
  BY DEF proxy
<1> QED BY <1>1, <1>2, <1>3, <1>4, <1>5, <1>6 DEF Next

LEMMA Tasks == Spec => [](TaskOK /\ PlanOK /\ ReportOK)
<1>1. TaskOK /\ PlanOK /\ ReportOK /\ [Next]_vars => (TaskOK /\ PlanOK /\ ReportOK)'
  BY TasksNext
<1> QED BY <1>1, TasksInit, PTL DEF Spec

\* Every start-csm-proxy that becomes a proxy has built the binaries it uses, and a
\* coverage task that succeeds has measured more than 90 % itself.
THEOREM OwnArtefactsCorrect == Spec => []OwnArtefacts
<1>1. TaskOK /\ PlanOK /\ ReportOK => OwnArtefacts
  BY DEF PlanOK, ReportOK, OwnArtefacts, Launching
<1> QED BY <1>1, Tasks, PTL

----------------------------------------------------------------------------
(* Command lines.                                                          *)

\* The first flag of a name gives its value.
LEMMA FirstGiven ==
    ASSUME NEW argv, NEW env, NEW name, NEW value, NEW default, NEW k,
           IsSequence(argv), k \in DOMAIN argv, argv[k] = Flag(name, value),
           \A j \in 1..(k - 1) : argv[j][1] # name
    PROVE  arg(argv, env, name, default) = value
<1> DEFINE S == Positions(argv, name)
<1>1. Len(argv) \in Nat /\ DOMAIN argv = 1..Len(argv)
  BY SequenceFacts
<1>2. k \in S
  BY DEF Positions, Flag
<1>3. \A j \in S : j \in Nat /\ k \in Nat /\ k <= j
  BY <1>1 DEF Positions
<1>4. \A i \in S : (\A j \in S : i <= j) => i = k
  BY <1>2, <1>3
<1> HIDE DEF S
<1>5. First(S) = k
  BY <1>2, <1>3, <1>4 DEF First
<1>6. argv[k][2] = value
  BY DEF Flag
<1> QED BY <1>2, <1>5, <1>6 DEF arg, S

\* A flag that repeats gives a sequence.
LEMMA ArgsSequence ==
    ASSUME NEW argv, NEW env, NEW name, IsSequence(argv), IsSequence(unwrap_or(env[name], <<>>))
    PROVE  IsSequence(args(argv, env, name))
<1> DEFINE S == Positions(argv, name)
           N == Cardinality(S)
           f == Values(argv, name)
<1>1. Len(argv) \in Nat /\ DOMAIN argv = 1..Len(argv)
  BY SequenceFacts
<1>2. IsFiniteSet(1..Len(argv))
  BY <1>1, FS_Interval
<1>3. IsFiniteSet(S)
  BY <1>1, <1>2, FS_Subset DEF Positions
<1>4. N \in Nat
  BY <1>3, FS_CardinalityType
<1>5. f \in [1..N -> {f[n] : n \in 1..N}]
  BY DEF Values
<1>6. IsSequence(f)
  <2> HIDE DEF f, N
  <2> QED BY <1>4, <1>5, IsSequenceFrom
<1> QED BY <1>6 DEF args

\* The proxy's argv starts with its address; a simulator, when there is one, comes
\* before anything the operator adds.
LEMMA ProxyArgv ==
    ASSUME TaskOK, at = "exec"
    PROVE  /\ IsSequence(proxy_argv)
           /\ 1 \in DOMAIN proxy_argv /\ proxy_argv[1] = Flag("listen", listen)
           /\ simulator # Absent => \E k \in DOMAIN proxy_argv :
                 /\ proxy_argv[k] = Flag("simulator", simulator)
                 /\ \A j \in 1..(k - 1) : proxy_argv[j][1] # "simulator"
<1> DEFINE A == <<Flag("listen", listen)>>
           B == IF cmd.mode = "http" THEN <<Flag("mcp-http", mcp_http)>> ELSE <<>>
           C == IF simulator # Absent THEN <<Flag("simulator", simulator)>> ELSE <<>>
           E == cmd.extra
           AB == A \o B
           ABC == AB \o C
<1>1. IsSequence(A) /\ Len(A) = 1 /\ A[1] = Flag("listen", listen)
  BY SeqIsSequence, A \in Seq({Flag("listen", listen)})
<1>2. IsSequence(B) /\ Len(B) \in {0, 1} /\ (Len(B) = 1 => B[1][1] = "mcp-http")
  <2>1. B \in Seq({Flag("mcp-http", mcp_http)})
    <3>1. <<Flag("mcp-http", mcp_http)>> \in Seq({Flag("mcp-http", mcp_http)}) /\ <<>> \in Seq({Flag("mcp-http", mcp_http)})
      OBVIOUS
    <3> QED BY <3>1
  <2>2. Len(B) \in {0, 1} /\ (Len(B) = 1 => B[1][1] = "mcp-http")
    BY DEF Flag
  <2> QED BY <2>1, <2>2, SeqIsSequence
<1>3. /\ IsSequence(C) /\ Len(C) \in {0, 1}
      /\ simulator # Absent => Len(C) = 1 /\ C[1] = Flag("simulator", simulator)
  <2>1. C \in Seq({Flag("simulator", simulator)})
    <3>1. <<Flag("simulator", simulator)>> \in Seq({Flag("simulator", simulator)}) /\ <<>> \in Seq({Flag("simulator", simulator)})
      OBVIOUS
    <3> QED BY <3>1
  <2>2. Len(C) \in {0, 1} /\ (simulator # Absent => Len(C) = 1 /\ C[1] = Flag("simulator", simulator))
    OBVIOUS
  <2> QED BY <2>1, <2>2, SeqIsSequence
<1>4. IsSequence(E)
  <2>1. Len(script) \in Nat /\ DOMAIN script = 1..Len(script)
    BY ScriptsAssumption, SequenceFacts DEF TaskOK
  <2>2. tasks \in 0..Len(script) /\ tasks > 0 /\ cmd.task = "start-csm-proxy"
    BY DEF TaskOK, Launching
  <2>3. tasks \in DOMAIN script
    BY <2>1, <2>2
  <2> QED BY <2>2, <2>3, ScriptsAssumption DEF TaskOK, cmd
<1>5. proxy_argv = ABC \o E
  BY DEF proxy_argv
<1> HIDE DEF A, B, C, E
<1>6. /\ IsSequence(AB) /\ Len(AB) = 1 + Len(B) /\ AB[1] = A[1]
      /\ Len(B) = 1 => AB[2] = B[1]
  <2>1. /\ IsSequence(AB) /\ Len(AB) = Len(A) + Len(B)
        /\ \A i \in 1..Len(A) : AB[i] = A[i]
        /\ \A i \in 1..Len(B) : AB[Len(A) + i] = B[i]
    <3>1. IsSequence(A) /\ IsSequence(B)
      BY <1>1, <1>2
    <3> QED BY <3>1, ConcatFacts
  <2>2. 1 \in 1..Len(A) /\ (Len(B) = 1 => 1 \in 1..Len(B))
    BY <1>1
  <2>3. Len(B) = 1 => AB[Len(A) + 1] = B[1]
    BY <2>1, <2>2
  <2>4. Len(A) + 1 = 2
    BY <1>1
  <2> QED BY <1>1, <2>1, <2>2, <2>3, <2>4
<1> HIDE DEF AB
<1>7. /\ IsSequence(ABC) /\ Len(ABC) = Len(AB) + Len(C) /\ ABC[1] = A[1]
      /\ Len(B) = 1 => ABC[2] = B[1]
      /\ Len(C) = 1 => ABC[Len(AB) + 1] = C[1]
  <2>1. \A i \in 1..Len(AB) : ABC[i] = AB[i]
    BY <1>6, <1>3, ConcatFacts
  <2>2. Len(C) = 1 => ABC[Len(AB) + 1] = C[1]
    <3>1. \A i \in 1..Len(C) : ABC[Len(AB) + i] = C[i]
      BY <1>6, <1>3, ConcatFacts
    <3> QED BY <3>1
  <2>3. IsSequence(ABC) /\ Len(ABC) = Len(AB) + Len(C)
    BY <1>6, <1>3, ConcatFacts
  <2>4. 1 \in 1..Len(AB) /\ (Len(B) = 1 => 2 \in 1..Len(AB))
    BY <1>2, <1>6
  <2> QED BY <1>6, <2>1, <2>2, <2>3, <2>4
<1> HIDE DEF ABC
<1>8. /\ IsSequence(proxy_argv) /\ DOMAIN proxy_argv = 1..(Len(ABC) + Len(E))
      /\ \A i \in 1..Len(ABC) : proxy_argv[i] = ABC[i]
  BY <1>4, <1>5, <1>7, ConcatFacts
<1>9. Len(E) \in Nat
  BY <1>4, SequenceFacts
<1>10. 1 \in DOMAIN proxy_argv /\ proxy_argv[1] = Flag("listen", listen)
  BY <1>1, <1>2, <1>3, <1>6, <1>7, <1>8, <1>9
<1>11. ASSUME simulator # Absent
       PROVE  \E k \in DOMAIN proxy_argv :
                 /\ proxy_argv[k] = Flag("simulator", simulator)
                 /\ \A j \in 1..(k - 1) : proxy_argv[j][1] # "simulator"
  <2> DEFINE k == Len(AB) + 1
  <2>1. k \in {2, 3} /\ k = Len(ABC) /\ (k = 3 => Len(B) = 1)
    <3>1. Len(C) = 1 /\ Len(AB) = 1 + Len(B) /\ Len(ABC) = Len(AB) + Len(C) /\ Len(B) \in {0, 1}
      BY <1>2, <1>3, <1>6, <1>7, <1>11
    <3>2. CASE Len(B) = 0
      <4>1. Len(AB) = 1 /\ Len(ABC) = 2
        BY <3>1, <3>2
      <4> QED BY <3>2, <4>1
    <3>3. CASE Len(B) = 1
      <4>1. Len(AB) = 2 /\ Len(ABC) = 3
        BY <3>1, <3>3
      <4> QED BY <3>3, <4>1
    <3> QED BY <3>1, <3>2, <3>3
  <2>2. k \in DOMAIN proxy_argv
    BY <1>8, <1>9, <2>1
  <2>3. proxy_argv[k] = Flag("simulator", simulator)
    BY <1>3, <1>7, <1>8, <1>11, <2>1
  <2>4. proxy_argv[1][1] # "simulator"
    BY <1>10 DEF Flag
  <2>5. k = 3 => proxy_argv[2][1] # "simulator"
    BY <1>2, <1>7, <1>8, <2>1
  <2>6. \A j \in 1..(k - 1) : j = 1 \/ (j = 2 /\ k = 3)
    BY <2>1
  <2> HIDE DEF k
  <2> QED BY <2>2, <2>3, <2>4, <2>5, <2>6
<1> QED BY <1>8, <1>10, <1>11

\* The proxy reads from it the address and the simulator that the plan decided on.
LEMMA MainConf ==
    ASSUME TaskOK, PlanOK, at = "exec", NEW c, c = from_args(proxy_argv, cmd.env),
           ~parse_error(proxy_argv, cmd.env)
    PROVE  /\ c.mcp_http # Bare /\ c.auto_sleep \in {"yes", "no"}
           /\ c.default_instance \in Ids \cup {Absent}
           /\ IsSequence(c.simulator_arg)
           /\ c.listen = listen
           /\ cmd.firmware # Absent => c.simulator = simulator
<1>1. c.auto_sleep \in {"yes", "no"} /\ c.default_instance \in Ids \cup {Absent}
  BY DEF parse_error
<1>2. c.mcp_http # Bare
  BY ProxyAssumption DEF from_args, Parsed, given
<1>3. IsSequence(unwrap_or(cmd.env["simulator-arg"], <<>>))
  <2>1. Len(script) \in Nat /\ DOMAIN script = 1..Len(script)
    BY ScriptsAssumption, SequenceFacts DEF TaskOK
  <2>2. tasks \in 0..Len(script) /\ tasks > 0 /\ cmd.task = "start-csm-proxy"
    BY DEF TaskOK, Launching
  <2>3. tasks \in DOMAIN script
    BY <2>1, <2>2
  <2> QED BY <2>2, <2>3, ScriptsAssumption DEF TaskOK, cmd
<1>4. IsSequence(c.simulator_arg)
  <2>1. IsSequence(args(proxy_argv, cmd.env, "simulator-arg"))
    BY <1>3, ProxyArgv, ArgsSequence
  <2> QED BY <2>1 DEF from_args
<1>5. c.listen = listen
  <2>1. \A j \in 1..(1 - 1) : proxy_argv[j][1] # "listen"
    OBVIOUS
  <2>2. \A default : arg(proxy_argv, cmd.env, "listen", default) = listen
    BY <2>1, ProxyArgv, FirstGiven
  <2>3. listen # Bare
    BY <2>2 DEF parse_error
  <2> QED BY <2>2, <2>3 DEF from_args, Parsed, given
<1>6. ASSUME cmd.firmware # Absent PROVE c.simulator = simulator
  <2>1. simulator \notin {Absent, Bare}
    BY <1>6 DEF PlanOK
  <2>2. PICK k \in DOMAIN proxy_argv :
           /\ proxy_argv[k] = Flag("simulator", simulator)
           /\ \A j \in 1..(k - 1) : proxy_argv[j][1] # "simulator"
    BY <2>1, ProxyArgv
  <2>3. arg(proxy_argv, cmd.env, "simulator", Absent) = simulator
    BY <2>2, ProxyArgv, FirstGiven
  <2> QED BY <2>1, <2>3 DEF from_args, Parsed, given
<1> QED BY <1>1, <1>2, <1>4, <1>5, <1>6

----------------------------------------------------------------------------
(* The proxy as a process.                                                 *)

\* What a step can be to the proxy: another task, the exec, or its own.
LEMMA StepCases ==
    ASSUME [Next]_vars
    PROVE  \/ UNCHANGED <<proxyVars, workVars>> /\ (UNCHANGED xtaskVars \/ at # "proxy" \/ prompt)
           \/ /\ at = "exec" /\ at' = "proxy" /\ UNCHANGED <<script, tasks, simulator>>
              /\ main(proxy_argv, cmd.env)
           \/ ProxyStep /\ UNCHANGED xtaskVars
<1>1. CASE type
  BY <1>1 DEF type, xtask
<1>2. CASE task
  <2>1. at # "proxy"
    BY <1>2 DEF task, XtaskStep, plan, exec_proxy, build_proxy, build_firmware, resolve_simulator,
          run_coverage, tool_missing, llvm_cov, line_percent, html_index, open_default_browser,
          decide, run_generate_sim_cpp
  <2>2. CASE at' # "proxy"
    BY <1>2, <2>1, <2>2 DEF task
  <2>3. CASE at' = "proxy"
    <3>1. exec_proxy /\ UNCHANGED <<script, tasks>>
      BY <1>2, <2>3 DEF task, XtaskStep, plan, build_proxy, build_firmware, resolve_simulator,
            run_coverage, tool_missing, llvm_cov, line_percent, html_index, open_default_browser,
            decide, run_generate_sim_cpp, run_status, Goto, Exit
    <3>2. main(proxy_argv, cmd.env)
      BY <1>2, <2>3 DEF task
    <3> QED BY <2>3, <3>1, <3>2 DEF exec_proxy, buildVars
  <2> QED BY <2>2, <2>3
<1>3. CASE proxy
  BY <1>3 DEF proxy
<1>4. CASE prompt
  BY <1>4 DEF prompt
<1>5. CASE UNCHANGED vars
  BY <1>5 DEF vars
<1> QED BY <1>1, <1>2, <1>3, <1>4, <1>5 DEF Next

\* A step of the listeners or of the shutdown that touches no simulator.
Quiet ==
    /\ UNCHANGED <<inc, crashed, conf, workVars>>
    /\ \/ state' = state
       \/ state = "running" /\ state' = "returned"
       \/ state = "dropped" /\ state' = "exited"

\* What a step of the proxy does to its simulators.
LEMMA ProxyCases ==
    ASSUME ProxyStep, ProxyOK
    PROVE  \/ Quiet
           \/ drop_runtime
           \/ crash
           \/ \E id \in Ids : reap(id) /\ UNCHANGED <<inc, state, crashed, conf>>
           \/ \E c \in Starts : /\ start(c, conf) /\ state \in {"running", "returned"}
                                /\ UNCHANGED <<inc, state, crashed, conf>>
           \/ \E c \in Starts : Started(c, conf, inc) /\ UNCHANGED <<inc, state, crashed, conf>>
           \/ \E p \in Pids : (exit(p) \/ save_settings(p)) /\ UNCHANGED <<inc, state, crashed, conf>>
<1>1. CASE serve \/ run \/ exits \/ serve_ends \/ serve_mcp_http \/ serve_mcp_stdio \/ stdin_yields
  BY <1>1 DEF Quiet, serve, run, exits, serve_ends, serve_mcp_http, serve_mcp_stdio, stdin_yields
<1>2. CASE reap_spawned
  <2>1. CASE \E id \in toReap : reap(id)
    BY <1>2, <2>1 DEF reap_spawned, ProxyOK
  <2>2. CASE UNCHANGED workVars
    BY <1>2, <2>2 DEF reap_spawned, Quiet
  <2> QED BY <1>2, <2>1, <2>2 DEF reap_spawned
<1>3. CASE \E c \in Starts : start_instance(c) \/ starts(c)
  <2>1. PICK c \in Starts : start_instance(c) \/ starts(c)
    BY <1>3
  <2>2. UNCHANGED <<inc, state, crashed, conf>>
    BY <2>1 DEF start_instance, starts, proxyVars
  <2> QED BY <2>1, <2>2 DEF start_instance, starts, Serving
<1>4. CASE \E id \in Ids : shutdown_instance(id)
  BY <1>4 DEF shutdown_instance, proxyVars
<1>5. CASE \E p \in Pids : simulator_step(p)
  <2>1. PICK p \in Pids : simulator_step(p)
    BY <1>5
  <2> QED BY <2>1 DEF simulator_step, proxyVars
<1> QED BY <1>1, <1>2, <1>3, <1>4, <1>5 DEF ProxyStep, Ends

LEMMA ProxyInitially == Init => ProxyOK
<1>1. IsSequence(<<>>)
  BY DEF IsSequence
<1> SUFFICES ASSUME Init PROVE ProxyOK
  OBVIOUS
<1>2. /\ conf.mcp_http = Absent /\ conf.auto_sleep = "no" /\ conf.default_instance = Absent
      /\ conf.simulator_arg = <<>>
  BY DEF Init, ProxyInit, Defaults
<1>3. inc = 0 /\ state = "none" /\ toReap = {} /\ reading = FALSE
  BY DEF Init, ProxyInit
<1> QED BY <1>1, <1>2, <1>3, FlagsAssumption DEF ProxyOK

LEMMA ProxyNext ==
    ASSUME TaskOK, PlanOK, ProxyOK, [Next]_vars
    PROVE  ProxyOK'
<1>1. CASE UNCHANGED <<proxyVars, workVars>> /\ (UNCHANGED xtaskVars \/ at # "proxy" \/ prompt)
  <2>1. UNCHANGED <<inc, state, crashed, conf, toReap, reading>>
    BY <1>1 DEF proxyVars, listenVars
  <2>2. CASE UNCHANGED xtaskVars
    <3>1. listen' = listen /\ cmd' = cmd /\ simulator' = simulator /\ at' = at
      BY <2>2 DEF listen, cmd, xtaskVars, taskVars, buildVars
    <3> QED BY <2>1, <3>1 DEF ProxyOK
  <2>3. CASE at # "proxy" \/ prompt
    <3>1. state \notin {"running", "returned", "dropped"}
      BY <2>3 DEF ProxyOK, prompt
    <3> QED BY <2>1, <3>1 DEF ProxyOK
  <2> QED BY <1>1, <2>2, <2>3
<1>2. CASE /\ at = "exec" /\ at' = "proxy" /\ UNCHANGED <<script, tasks, simulator>>
           /\ main(proxy_argv, cmd.env)
  <2>1. listen' = listen /\ cmd' = cmd /\ simulator' = simulator
    BY <1>2 DEF listen, cmd
  <2>2. CASE parse_error(proxy_argv, cmd.env)
    <3>1. inc' = inc + 1 /\ state' = "exited" /\ UNCHANGED <<conf, toReap, reading>>
      BY <1>2, <2>2 DEF main, listenVars
    <3> QED BY <3>1 DEF ProxyOK
  <2>3. CASE ~parse_error(proxy_argv, cmd.env)
    <3>1. /\ inc' = inc + 1 /\ state' = "running" /\ UNCHANGED <<toReap, reading>>
          /\ conf' = from_args(proxy_argv, cmd.env)
      BY <1>2, <2>3 DEF main
    <3>2. /\ conf'.mcp_http # Bare /\ conf'.auto_sleep \in {"yes", "no"}
          /\ conf'.default_instance \in Ids \cup {Absent}
          /\ IsSequence(conf'.simulator_arg)
          /\ conf'.listen = listen
          /\ cmd.firmware # Absent => conf'.simulator = simulator
      <4>1. PICK c : c = from_args(proxy_argv, cmd.env)
        OBVIOUS
      <4>2. conf' = c
        BY <3>1, <4>1
      <4> QED BY <1>2, <2>3, <4>1, <4>2, MainConf
    <3> QED BY <1>2, <2>1, <3>1, <3>2 DEF ProxyOK
  <2> QED BY <2>2, <2>3
<1>3. CASE ProxyStep /\ UNCHANGED xtaskVars
  <2>1. listen' = listen /\ cmd' = cmd /\ simulator' = simulator /\ at' = at
    BY <1>3 DEF listen, cmd, xtaskVars, taskVars, buildVars
  <2>2. /\ UNCHANGED <<inc, conf>>
        /\ \/ state' = state
           \/ state = "running" /\ state' = "returned"
           \/ state = "returned" /\ state' = "dropped"
           \/ state' \in {"exited", "crashed"}
    BY <1>3, ProxyCases DEF Quiet, drop_runtime, crash
  <2>3. toReap' \subseteq Ids /\ reading' \in BOOLEAN
    BY <1>3 DEF ProxyOK, ProxyStep, Ends, serve, run, reap_spawned, drop_runtime, exits, serve_ends,
          serve_mcp_http, serve_mcp_stdio, stdin_yields, crash, start_instance, starts,
          shutdown_instance, simulator_step, proxyVars, listenVars
  <2> QED BY <2>1, <2>2, <2>3 DEF ProxyOK
<1> QED BY <1>1, <1>2, <1>3, StepCases

LEMMA Proxies == Spec => []ProxyOK
<1>1. TaskOK /\ PlanOK /\ ProxyOK /\ [Next]_vars => ProxyOK'
  BY ProxyNext
<1> QED BY <1>1, ProxyInitially, Tasks, PTL DEF Spec

----------------------------------------------------------------------------
(* Simulators and directories.                                             *)

\* Two records are of one process when only its state differs, which only goes on.
Like(r, s) ==
    /\ s.inc = r.inc /\ s.start = r.start /\ s.dir = r.dir
    /\ s.binary = r.binary /\ s.argv = r.argv /\ s.found = r.found
    /\ s.state = "running" => r.state = "running"
    /\ s.state \in {"running", "killed"} => r.state \in {"running", "killed"}

\* A step that starts no simulator.
Kept ==
    /\ IsSequence(proc') /\ Len(proc') = Len(proc)
    /\ \A p \in Pids : IsProcess(proc'[p]) /\ Like(proc[p], proc'[p])

\* The step of a start that does.
Spawns(c) ==
    /\ call[c] = "exec" /\ Len(proc) < MaxPid
    /\ proc' = Append(proc, [state |-> "running", inc |-> inc, start |-> c,
                             dir |-> workdir(c), binary |-> conf.simulator,
                             argv |-> spawn_argv(conf, IdOf(c)),
                             found |-> disk[workdir(c)]])
    /\ alone' = [d \in Starts |-> alone[d] /\ (d = c \/ workdir(d) # workdir(c))]
    /\ call' = [call EXCEPT ![c] = "store"]
    /\ UNCHANGED <<disk, supervisorVars, params>>

LEMMA Restated ==
    ASSUME NEW r, IsProcess(r), NEW st \in {"killed", "exited"},
           st = "killed" => r.state = "running"
    PROVE  /\ IsProcess([r EXCEPT !.state = st]) /\ Like(r, [r EXCEPT !.state = st])
           /\ [r EXCEPT !.state = st].state = st
<1> DEFINE s == [r EXCEPT !.state = st]
<1>1. r = [state |-> r.state, inc |-> r.inc, start |-> r.start, dir |-> r.dir,
           binary |-> r.binary, argv |-> r.argv, found |-> r.found]
  BY DEF IsProcess
<1>2. DOMAIN r = {"state", "inc", "start", "dir", "binary", "argv", "found"}
  BY <1>1
<1>3. s = [state |-> st, inc |-> r.inc, start |-> r.start, dir |-> r.dir,
           binary |-> r.binary, argv |-> r.argv, found |-> r.found]
  BY <1>2
<1> HIDE DEF s
<1>4. /\ s.state = st /\ s.inc = r.inc /\ s.start = r.start /\ s.dir = r.dir
      /\ s.binary = r.binary /\ s.argv = r.argv /\ s.found = r.found
  BY <1>3
<1>5. s = [state |-> s.state, inc |-> s.inc, start |-> s.start, dir |-> s.dir,
           binary |-> s.binary, argv |-> s.argv, found |-> s.found]
  BY <1>3, <1>4
<1>6. IsProcess(s)
  BY <1>4, <1>5 DEF IsProcess
<1>7. Like(r, s)
  BY <1>4 DEF Like
<1> QED BY <1>4, <1>6, <1>7 DEF s

LEMMA LikeItself == ASSUME NEW r PROVE Like(r, r)
BY DEF Like

\* Nothing happens to the processes.
LEMMA NothingKept == ASSUME WorkOK, proc' = proc PROVE Kept
<1>1. \A p \in Pids : IsProcess(proc[p]) /\ Like(proc[p], proc[p])
  BY LikeItself DEF WorkOK
<1> QED BY <1>1 DEF Kept, WorkOK

\* What a kill does to the processes: none it is sent to goes on running.
LEMMA KilledKept ==
    ASSUME WorkOK, NEW S, proc' = Killed(S)
    PROVE  Kept /\ \A p \in Pids : /\ p \in S => proc'[p].state # "running"
                                   /\ p \notin S => proc'[p] = proc[p]
<1>1. Len(proc) \in Nat /\ DOMAIN proc = 1..Len(proc)
  BY SequenceFacts DEF WorkOK
<1>2. DOMAIN proc' = 1..Len(proc)
  BY <1>1 DEF Killed, Pids
<1>3. IsSequence(proc') /\ Len(proc') = Len(proc)
  <2>1. proc' \in [1..Len(proc) -> {proc'[p] : p \in 1..Len(proc)}]
    <3>1. proc' = [p \in 1..Len(proc) |-> proc'[p]]
      BY <1>1 DEF Killed, Pids
    <3> QED BY <3>1
  <2> QED BY <1>1, <2>1, IsSequenceFrom
<1>4. ASSUME NEW p \in Pids
      PROVE  /\ IsProcess(proc'[p]) /\ Like(proc[p], proc'[p])
             /\ p \in S => proc'[p].state # "running"
             /\ p \notin S => proc'[p] = proc[p]
  <2>1. IsProcess(proc[p])
    BY DEF WorkOK
  <2>2. CASE p \in S /\ proc[p].state = "running"
    <3>1. proc'[p] = [proc[p] EXCEPT !.state = "killed"]
      BY <2>2 DEF Killed
    <3> QED BY <2>1, <2>2, <3>1, Restated
  <2>3. CASE ~(p \in S /\ proc[p].state = "running")
    <3>1. proc'[p] = proc[p]
      BY <2>3 DEF Killed
    <3> QED BY <2>1, <2>3, <3>1, LikeItself
  <2> QED BY <2>2, <2>3
<1> QED BY <1>3, <1>4 DEF Kept

\* One process exits.
LEMMA ExitKept ==
    ASSUME WorkOK, NEW p \in Pids, proc' = [proc EXCEPT ![p].state = "exited"]
    PROVE  Kept
<1>1. Len(proc) \in Nat /\ DOMAIN proc = 1..Len(proc)
  BY SequenceFacts DEF WorkOK
<1>2. proc = [q \in 1..Len(proc) |-> proc[q]]
  BY DEF WorkOK, IsSequence
<1>3. proc' = [q \in 1..Len(proc) |-> IF q = p THEN [proc[p] EXCEPT !.state = "exited"] ELSE proc[q]]
  BY <1>1, <1>2 DEF Pids
<1>4. IsSequence(proc') /\ Len(proc') = Len(proc)
  <2>1. proc' \in [1..Len(proc) -> {proc'[q] : q \in 1..Len(proc)}]
    BY <1>3
  <2> QED BY <1>1, <2>1, IsSequenceFrom
<1>5. ASSUME NEW q \in Pids
      PROVE  IsProcess(proc'[q]) /\ Like(proc[q], proc'[q])
  <2>1. IsProcess(proc[q])
    BY DEF WorkOK
  <2>2. CASE q = p
    <3>1. proc'[q] = [proc[q] EXCEPT !.state = "exited"]
      BY <1>1, <1>3, <2>2 DEF Pids
    <3> QED BY <2>1, <3>1, Restated
  <2>3. CASE q # p
    <3>1. proc'[q] = proc[q]
      BY <1>1, <1>3, <2>3 DEF Pids
    <3> QED BY <2>1, <3>1, LikeItself
  <2> QED BY <2>2, <2>3
<1> QED BY <1>4, <1>5 DEF Kept

\* What a start asks for is well formed.
LEMMA AskFacts ==
    ASSUME params \in Clients, NEW c \in Starts
    PROVE  /\ IdOf(c) \in Ids /\ workdir(c) \in Dirs
           /\ sample_book(c) \in BOOLEAN
<1>1. /\ params[c].id \in Ids /\ params[c].cwd \in Cwds \cup {Absent}
      /\ params[c].sample_book \in BOOLEAN \cup {Absent}
  BY WorkDirsAssumption
<1> QED BY <1>1 DEF IdOf, workdir, sample_book, unwrap_or, Dirs

\* Either the processes are the ones there were, or one start has added its own.
LEMMA ProcSteps ==
    ASSUME WorkOK, ProxyOK, [Next]_vars
    PROVE  /\ params' = params
           /\ \/ Kept
              \/ \E c \in Starts : Spawns(c) /\ UNCHANGED <<inc, state, crashed, conf>>
<1>1. CASE UNCHANGED workVars
  BY <1>1, NothingKept DEF workVars, startVars
<1>2. CASE drop_runtime
  BY <1>2, KilledKept DEF drop_runtime, startVars
<1>3. CASE crash
  BY <1>3, NothingKept DEF crash
<1>4. CASE \E id \in Ids : reap(id)
  BY <1>4, KilledKept DEF reap, startVars
<1>5. CASE \E c \in Starts : start(c, conf)
  BY <1>5, NothingKept DEF start, Goes
<1>6. CASE \E c \in Starts : Started(c, conf, inc) /\ UNCHANGED <<inc, state, crashed, conf>>
  <2>1. PICK c \in Starts : Started(c, conf, inc) /\ UNCHANGED <<inc, state, crashed, conf>>
    BY <1>6
  <2>2. CASE create_dir_all(c) \/ seed_sample_book(c) \/ seed_never_sleep_settings(c, conf)
    BY <2>2, NothingKept DEF create_dir_all, seed_sample_book, seed_never_sleep_settings, Goes, SpawnFailed
  <2>3. CASE spawn(c, conf, inc)
    <3>1. CASE SpawnFailed(c)
      BY <3>1, NothingKept DEF SpawnFailed, Goes
    <3>2. CASE ~SpawnFailed(c)
      BY <2>1, <2>3, <3>2 DEF spawn, Spawns, Goes
    <3> QED BY <3>1, <3>2
  <2>4. CASE store(c)
    BY <2>4, KilledKept DEF store, Goes
  <2> QED BY <2>1, <2>2, <2>3, <2>4 DEF Started
<1>7. CASE \E p \in Pids : exit(p) \/ save_settings(p)
  BY <1>7, ExitKept, NothingKept DEF exit, save_settings, startVars
<1>8. UNCHANGED <<proxyVars, workVars>> => UNCHANGED workVars
  OBVIOUS
<1>9. main(proxy_argv, cmd.env) => UNCHANGED workVars
  BY DEF main
<1>10. Quiet => UNCHANGED workVars
  BY DEF Quiet
<1>11. CASE ProxyStep
  BY <1>11, <1>1, <1>2, <1>3, <1>4, <1>5, <1>6, <1>7, <1>10, ProxyCases
<1> QED BY <1>1, <1>8, <1>9, <1>11, StepCases

LEMMA WorkInit == Init => WorkOK
<1> SUFFICES ASSUME Init PROVE WorkOK
  OBVIOUS
<1>1. IsSequence(<<>>) /\ Len(<<>>) = 0 /\ DOMAIN <<>> = {}
  BY DEF IsSequence
<1>2. proc = <<>> /\ MaxPid \in Nat
  BY WorkDirsAssumption DEF Init, WorkDirsInit
<1>3. IsSequence(proc) /\ Len(proc) <= MaxPid /\ Pids = {} /\ 0 \in 0..Len(proc)
  BY <1>1, <1>2 DEF Pids
<1>4. children \in [Ids -> 0..Len(proc)]
  BY <1>3 DEF Init, WorkDirsInit
<1>5. disk \in [Dirs -> Contents]
  BY DEF Init, WorkDirsInit, Contents
<1>6. /\ params \in Clients /\ starting \subseteq Ids
      /\ call \in [Starts -> Made \cup {"idle", "done"}] /\ alone \in [Starts -> BOOLEAN]
  BY DEF Init, WorkDirsInit
<1> QED BY <1>3, <1>4, <1>5, <1>6 DEF WorkOK

\* The processes stay well formed, and are where their starts work.
LEMMA WorkProcs ==
    ASSUME WorkOK, ProxyOK, [Next]_vars
    PROVE  /\ IsSequence(proc') /\ Len(proc') <= MaxPid /\ Len(proc) <= Len(proc')
           /\ \A p \in DOMAIN proc' : IsProcess(proc'[p]) /\ proc'[p].dir = workdir(proc'[p].start)
<1>1. Len(proc) \in Nat /\ DOMAIN proc = 1..Len(proc) /\ MaxPid \in Nat
  BY SequenceFacts, WorkDirsAssumption DEF WorkOK
<1>2. CASE Kept
  <2>1. DOMAIN proc' = DOMAIN proc
    BY <1>1, <1>2, SequenceFacts DEF Kept
  <2> QED BY <1>1, <1>2, <2>1 DEF Kept, Like, WorkOK, Pids
<1>3. ASSUME NEW c \in Starts, Spawns(c), UNCHANGED <<inc, state, crashed, conf>>
      PROVE  /\ IsSequence(proc') /\ Len(proc') <= MaxPid /\ Len(proc) <= Len(proc')
             /\ \A p \in DOMAIN proc' : IsProcess(proc'[p]) /\ proc'[p].dir = workdir(proc'[p].start)
  <2> DEFINE r == [state |-> "running", inc |-> inc, start |-> c,
                   dir |-> workdir(c), binary |-> conf.simulator,
                   argv |-> spawn_argv(conf, IdOf(c)), found |-> disk[workdir(c)]]
  <2>1. IsProcess(r) /\ r.dir = workdir(r.start)
    BY DEF IsProcess, ProxyOK
  <2>2. proc' = Append(proc, r) /\ Len(proc) < MaxPid
    BY <1>3 DEF Spawns
  <2> HIDE DEF r
  <2>3. /\ IsSequence(proc') /\ Len(proc') = Len(proc) + 1 /\ DOMAIN proc' = 1..(Len(proc) + 1)
        /\ \A p \in 1..Len(proc) : proc'[p] = proc[p]
        /\ proc'[Len(proc) + 1] = r
    BY <2>2, AppendFacts DEF WorkOK
  <2>4. \A p \in DOMAIN proc' : p \in 1..Len(proc) \/ p = Len(proc) + 1
    BY <1>1, <2>3
  <2>5. \A p \in 1..Len(proc) : IsProcess(proc[p]) /\ proc[p].dir = workdir(proc[p].start)
    BY <1>1 DEF WorkOK, Pids
  <2> QED BY <1>1, <2>1, <2>2, <2>3, <2>4, <2>5
<1> QED BY <1>2, <1>3, ProcSteps

\* The maps, the calls and the disk stay well typed.
LEMMA WorkMaps ==
    ASSUME WorkOK, ProxyOK, [Next]_vars
    PROVE  /\ disk' \in [Dirs -> Contents] /\ starting' \subseteq Ids
           /\ call' \in [Starts -> Made \cup {"idle", "done"}]
           /\ alone' \in [Starts -> BOOLEAN]
           /\ children' \in [Ids -> 0..Len(proc)]
<1>1. Len(proc) \in Nat /\ DOMAIN proc = 1..Len(proc) /\ 0 \in 0..Len(proc)
  BY SequenceFacts DEF WorkOK
<1>2. CASE UNCHANGED workVars
  BY <1>2 DEF WorkOK, workVars, supervisorVars, startVars
<1>3. CASE drop_runtime
  BY <1>1, <1>3 DEF drop_runtime, WorkOK, startVars
<1>4. CASE crash
  <2>1. call' \in [Starts -> Made \cup {"idle", "done"}]
    BY <1>4 DEF crash, Gone, WorkOK
  <2> QED BY <1>1, <1>4, <2>1 DEF crash, WorkOK
<1>5. CASE \E id \in Ids : reap(id)
  BY <1>1, <1>5 DEF reap, WorkOK, startVars
<1>6. CASE \E c \in Starts : start(c, conf)
  <2>1. PICK c \in Starts : start(c, conf)
    BY <1>6
  <2>2. IdOf(c) \in Ids
    BY AskFacts DEF WorkOK
  <2>3. call' \in [Starts -> Made \cup {"idle", "done"}]
    BY <2>1 DEF start, Goes, WorkOK, Made
  <2> QED BY <1>1, <2>1, <2>2, <2>3 DEF start, WorkOK, supervisorVars
<1>7. CASE \E c \in Starts : Started(c, conf, inc)
  <2>1. PICK c \in Starts : Started(c, conf, inc)
    BY <1>7
  <2>2. IdOf(c) \in Ids /\ workdir(c) \in Dirs /\ sample_book(c) \in BOOLEAN
    BY AskFacts DEF WorkOK
  <2>3. CASE SpawnFailed(c)
    BY <2>3 DEF SpawnFailed, Goes, WorkOK
  <2>4. CASE create_dir_all(c) /\ ~SpawnFailed(c)
    BY <2>4 DEF create_dir_all, Goes, WorkOK, supervisorVars, Made
  <2>5. CASE seed_sample_book(c) /\ ~SpawnFailed(c)
    <3>1. disk' = [disk EXCEPT ![workdir(c)].book = @ \/ sample_book(c)]
      BY <2>5 DEF seed_sample_book
    <3>2. disk' \in [Dirs -> Contents]
      BY SMTT(20), <2>2, <3>1 DEF WorkOK, Contents
    <3> QED BY <2>5, <3>2 DEF seed_sample_book, Goes, WorkOK, supervisorVars, Made
  <2>6. CASE seed_never_sleep_settings(c, conf) /\ ~SpawnFailed(c)
    <3>1. disk' = [disk EXCEPT ![workdir(c)].settings =
                        IF auto_sleep(c, conf) = "yes" THEN @ ELSE "never"]
      BY <2>6 DEF seed_never_sleep_settings
    <3>2. disk' \in [Dirs -> Contents]
      BY <2>2, <3>1 DEF WorkOK, Contents
    <3>3. alone' \in [Starts -> BOOLEAN]
      BY <2>6 DEF seed_never_sleep_settings, WorkOK
    <3> QED BY <2>6, <3>2, <3>3 DEF seed_never_sleep_settings, Goes, WorkOK, supervisorVars, Made
  <2>7. CASE spawn(c, conf, inc) /\ ~SpawnFailed(c)
    BY <2>7 DEF spawn, Goes, WorkOK, supervisorVars, Made
  <2>8. CASE store(c)
    <3>1. PICK p \in Pids : children' = [children EXCEPT ![IdOf(c)] = p]
      BY <2>8 DEF store
    <3>2. p \in 0..Len(proc)
      BY <1>1 DEF Pids
    <3>3. children' \in [Ids -> 0..Len(proc)]
      BY <3>1, <3>2 DEF WorkOK
    <3> QED BY <2>8, <3>3 DEF store, Goes, WorkOK
  <2> QED BY <2>1, <2>3, <2>4, <2>5, <2>6, <2>7, <2>8 DEF Started
<1>8. CASE \E p \in Pids : exit(p) \/ save_settings(p)
  <2>1. PICK p \in Pids : exit(p) \/ save_settings(p)
    BY <1>8
  <2>2. disk' \in [Dirs -> Contents]
    BY ZenonT(40), <2>1 DEF exit, save_settings, WorkOK, Contents
  <2> QED BY <2>1, <2>2 DEF exit, save_settings, WorkOK, supervisorVars, startVars
<1>9. UNCHANGED <<proxyVars, workVars>> \/ main(proxy_argv, cmd.env) \/ Quiet => UNCHANGED workVars
  BY DEF main, Quiet
<1>10. CASE ProxyStep
  BY <1>10, <1>2, <1>3, <1>4, <1>5, <1>6, <1>7, <1>8, <1>9, ProxyCases
<1> QED BY <1>2, <1>9, <1>10, StepCases

LEMMA WorkNext ==
    ASSUME WorkOK, ProxyOK, [Next]_vars
    PROVE  WorkOK'
<1>1. params' = params
  BY ProcSteps
<1>2. /\ IsSequence(proc') /\ Len(proc') <= MaxPid /\ Len(proc) <= Len(proc')
      /\ \A p \in DOMAIN proc' : IsProcess(proc'[p]) /\ proc'[p].dir = workdir(proc'[p].start)
  BY WorkProcs
<1>3. children' \in [Ids -> 0..Len(proc')]
  <2>1. Len(proc) \in Nat /\ Len(proc') \in Nat
    BY <1>2, SequenceFacts DEF WorkOK
  <2>2. children' \in [Ids -> 0..Len(proc)]
    BY WorkMaps
  <2>3. 0..Len(proc) \subseteq 0..Len(proc')
    BY <1>2, <2>1
  <2> QED BY <2>2, <2>3
<1>4. (\A p \in Pids : IsProcess(proc[p]) /\ proc[p].dir = workdir(proc[p].start))'
  <2>1. \A c : workdir(c) = unwrap_or(params[c].cwd, default_cwd(params[c].id))
    BY DEF workdir, IdOf
  <2> QED BY <1>1, <1>2, <2>1 DEF workdir, IdOf, Pids
<1> QED BY <1>1, <1>2, <1>3, <1>4, WorkMaps DEF WorkOK

LEMMA Work == Spec => []WorkOK
<1>1. WorkOK /\ ProxyOK /\ [Next]_vars => WorkOK'
  BY WorkNext
<1> QED BY <1>1, WorkInit, Proxies, PTL DEF Spec

\* The type invariant.
THEOREM TypeCorrect == Spec => []TypeOK
<1>1. TaskOK /\ ProxyOK /\ WorkOK => TypeOK
  BY DEF TaskOK, ProxyOK, WorkOK, TypeOK
<1> QED BY <1>1, Tasks, Proxies, Work, PTL

----------------------------------------------------------------------------
(* Who holds a simulator.                                                  *)

LEMMA OwnInit == Init => OwnOK
<1> SUFFICES ASSUME Init PROVE OwnOK
  OBVIOUS
<1>1. Pids = {}
  BY DEF Init, WorkDirsInit, Pids
<1>2. \A c \in Starts : call[c] \notin Made
  BY DEF Init, WorkDirsInit, Made
<1> QED BY <1>1, <1>2 DEF OwnOK

\* A start goes forward only, and only in a proxy that serves.
LEMMA CallSteps ==
    ASSUME WorkOK, ProxyOK, OwnOK, [Next]_vars
    PROVE  \A d \in Starts :
              /\ call'[d] \in Before => call[d] \in Before
              /\ call'[d] \in Made => state' \in {"running", "returned"} /\ conf'.simulator # Absent
<1>0. /\ call \in [Starts -> Made \cup {"idle", "done"}]
      /\ \A d \in Starts : call[d] \in Made =>
            state \in {"running", "returned"} /\ conf.simulator # Absent
  BY DEF WorkOK, OwnOK
<1>1. CASE UNCHANGED <<proxyVars, workVars>>
  BY <1>0, <1>1 DEF proxyVars, workVars, startVars
<1>2. CASE main(proxy_argv, cmd.env)
  <2>1. \A d \in Starts : call[d] \notin Made
    BY <1>0, <1>2 DEF main
  <2> QED BY <1>2, <2>1 DEF main, workVars, startVars
<1>3. CASE Quiet
  <2>1. UNCHANGED <<call, conf>> /\ (state \in {"running", "returned"} => state' \in {"running", "returned"})
    BY <1>3 DEF Quiet, workVars, startVars
  <2> QED BY <1>0, <2>1
<1>4. CASE drop_runtime
  <2>1. \A d \in Starts : call[d] \notin Made
    BY <1>4 DEF drop_runtime, Busy, Made
  <2> QED BY <1>4, <2>1 DEF drop_runtime, startVars
<1>5. CASE crash
  <2>1. \A d \in Starts : call'[d] \in {"idle", "done"} /\ (call'[d] = "idle" => call[d] = "idle")
    BY <1>5 DEF crash, Gone, Busy
  <2> QED BY <2>1 DEF Made, Before
<1>6. CASE \E id \in Ids : reap(id) /\ UNCHANGED <<inc, state, crashed, conf>>
  BY <1>0, <1>6 DEF reap, startVars
<1>7. CASE \E c \in Starts : /\ start(c, conf) /\ state \in {"running", "returned"}
                             /\ UNCHANGED <<inc, state, crashed, conf>>
  <2>1. PICK c \in Starts : /\ start(c, conf) /\ state \in {"running", "returned"}
                            /\ UNCHANGED <<inc, state, crashed, conf>>
    BY <1>7
  <2>2. /\ call[c] = "idle"
        /\ \/ call' = [call EXCEPT ![c] = "done"]
           \/ call' = [call EXCEPT ![c] = "dir"] /\ conf.simulator # Absent
    BY <2>1 DEF start, Goes
  <2> QED BY <1>0, <2>1, <2>2 DEF Made, Before
<1>8. CASE \E c \in Starts : Started(c, conf, inc) /\ UNCHANGED <<inc, state, crashed, conf>>
  <2>1. PICK c \in Starts : Started(c, conf, inc) /\ UNCHANGED <<inc, state, crashed, conf>>
    BY <1>8
  <2>2. \/ call[c] = "dir" /\ call' = [call EXCEPT ![c] = "book"]
        \/ call[c] = "book" /\ call' = [call EXCEPT ![c] = "settings"]
        \/ call[c] = "settings" /\ call' = [call EXCEPT ![c] = "exec"]
        \/ call[c] = "exec" /\ call' = [call EXCEPT ![c] = "store"]
        \/ call[c] \in Made /\ call' = [call EXCEPT ![c] = "done"]
    BY <2>1 DEF Started, create_dir_all, seed_sample_book, seed_never_sleep_settings, spawn, store,
          Goes, SpawnFailed, Made
  <2> QED BY <1>0, <2>1, <2>2 DEF Made, Before
<1>9. CASE \E p \in Pids : (exit(p) \/ save_settings(p)) /\ UNCHANGED <<inc, state, crashed, conf>>
  BY <1>0, <1>9 DEF exit, save_settings, startVars
<1>10. CASE ProxyStep
  BY <1>10, <1>3, <1>4, <1>5, <1>6, <1>7, <1>8, <1>9, ProxyCases
<1> QED BY <1>1, <1>2, <1>10, StepCases

\* Proxies and processes only get more, and a start has one process at most.
LEMMA OwnProcs ==
    ASSUME WorkOK, ProxyOK, OwnOK, [Next]_vars
    PROVE  /\ \A p \in DOMAIN proc' : proc'[p].inc <= inc' /\ call'[proc'[p].start] \notin Before
           /\ \A p, q \in DOMAIN proc' : proc'[p].start = proc'[q].start => p = q
<1>1. Len(proc) \in Nat /\ DOMAIN proc = 1..Len(proc)
  BY SequenceFacts DEF WorkOK
<1>2. \A p \in Pids : proc[p].inc \in Nat /\ proc[p].start \in Starts
  BY DEF WorkOK, IsProcess
<1>3. inc' \in {inc, inc + 1} /\ inc \in Nat
  <2>1. inc \in Nat
    BY DEF ProxyOK
  <2>2. CASE UNCHANGED <<proxyVars, workVars>>
    BY <2>1, <2>2 DEF proxyVars
  <2>3. CASE main(proxy_argv, cmd.env)
    BY <2>1, <2>3 DEF main
  <2>4. CASE ProxyStep
    BY <2>1, <2>4, ProxyCases DEF Quiet, drop_runtime, crash
  <2> QED BY <2>2, <2>3, <2>4, StepCases
<1>4. \A p \in Pids : proc[p].inc <= inc'
  BY <1>2, <1>3 DEF OwnOK
<1>5. \A p \in Pids : call'[proc[p].start] \notin Before
  BY <1>2, CallSteps DEF OwnOK
<1>6. CASE Kept
  <2>1. DOMAIN proc' = Pids
    BY <1>1, <1>6, SequenceFacts DEF Kept, Pids
  <2>2. \A p \in Pids : proc'[p].inc = proc[p].inc /\ proc'[p].start = proc[p].start
    BY <1>6 DEF Kept, Like
  <2> QED BY <1>4, <1>5, <2>1, <2>2 DEF OwnOK
<1>7. ASSUME NEW c \in Starts, Spawns(c), UNCHANGED <<inc, state, crashed, conf>>
      PROVE  /\ \A p \in DOMAIN proc' : proc'[p].inc <= inc' /\ call'[proc'[p].start] \notin Before
             /\ \A p, q \in DOMAIN proc' : proc'[p].start = proc'[q].start => p = q
  <2>1. PICK r : /\ proc' = Append(proc, r) /\ r.inc = inc /\ r.start = c
    BY <1>7 DEF Spawns
  <2>2. /\ DOMAIN proc' = 1..(Len(proc) + 1)
        /\ \A p \in 1..Len(proc) : proc'[p] = proc[p]
        /\ proc'[Len(proc) + 1] = r
    BY <2>1, AppendFacts DEF WorkOK
  <2>3. \A p \in DOMAIN proc' : p \in Pids \/ p = Len(proc) + 1
    BY <1>1, <2>2 DEF Pids
  <2>4. \A p \in Pids : proc'[p] = proc[p]
    BY <1>1, <2>2 DEF Pids
  <2>5. call[c] = "exec" /\ call'[c] = "store"
    BY <1>7 DEF Spawns, WorkOK
  <2>6. \A p \in Pids : proc[p].start # c
    BY <2>5 DEF OwnOK, Before
  <2>7. \A p \in DOMAIN proc' : proc'[p].inc <= inc' /\ call'[proc'[p].start] \notin Before
    BY <1>3, <1>4, <1>5, <1>7, <2>1, <2>2, <2>3, <2>4, <2>5 DEF Before
  <2>8. \A p, q \in DOMAIN proc' : proc'[p].start = proc'[q].start => p = q
    BY <2>1, <2>2, <2>3, <2>4, <2>6 DEF OwnOK
  <2> QED BY <2>7, <2>8
<1> QED BY <1>6, <1>7, ProcSteps

\* What is enough for a running process to stay held when none is started.
LEMMA StaysHeld ==
    ASSUME WorkOK, OwnOK, Kept, params' = params, crashed \subseteq crashed',
           \A p \in Pids : proc[p].state = "running" /\ proc'[p].state = "running" /\ Held(p) =>
              \/ proc[p].inc \in crashed'
              \/ /\ proc[p].inc = inc' /\ state' \in {"running", "returned"}
                 /\ children'[IdOf(proc[p].start)] = p \/ call'[proc[p].start] = "store"
    PROVE  (\A p \in Pids : proc[p].state = "running" => Held(p))'
<1>1. DOMAIN proc' = Pids
  <2>1. DOMAIN proc = 1..Len(proc)
    BY SequenceFacts DEF WorkOK
  <2>2. DOMAIN proc' = 1..Len(proc')
    BY SequenceFacts DEF Kept
  <2> QED BY <2>1, <2>2 DEF Kept, Pids
<1>2. ASSUME NEW p \in Pids, proc'[p].state = "running" PROVE Held(p)'
  <2>1. /\ proc'[p].inc = proc[p].inc /\ proc'[p].start = proc[p].start
        /\ proc[p].state = "running"
    BY <1>2 DEF Kept, Like
  <2>2. Held(p)
    BY <2>1 DEF OwnOK
  <2>3. \/ proc[p].inc \in crashed'
        \/ /\ proc[p].inc = inc' /\ state' \in {"running", "returned"}
           /\ children'[IdOf(proc[p].start)] = p \/ call'[proc[p].start] = "store"
    BY <1>2, <2>1, <2>2
  <2>4. IdOf(proc[p].start)' = IdOf(proc[p].start)
    BY <2>1 DEF IdOf
  <2> QED BY <2>1, <2>3, <2>4 DEF Held
<1> QED BY <1>1, <1>2 DEF Pids

\* A step that removes at most the child of one id, and kills it or finds it gone.
LEMMA HeldWithout ==
    ASSUME WorkOK, OwnOK, Kept, UNCHANGED <<params, inc, state, crashed>>, NEW id \in Ids, NEW n,
           children' = [children EXCEPT ![id] = n],
           \A p \in Pids : children[id] = p => proc'[p].state # "running",
           \A c \in Starts : call[c] = "store" => call'[c] = "store"
    PROVE  (\A p \in Pids : proc[p].state = "running" => Held(p))'
<1>1. ASSUME NEW p \in Pids, proc[p].state = "running", proc'[p].state = "running", Held(p)
      PROVE  \/ proc[p].inc \in crashed'
             \/ /\ proc[p].inc = inc' /\ state' \in {"running", "returned"}
                /\ children'[IdOf(proc[p].start)] = p \/ call'[proc[p].start] = "store"
  <2>1. proc[p].start \in Starts
    BY DEF WorkOK, IsProcess
  <2>2. children[id] # p
    BY <1>1
  <2>3. IdOf(proc[p].start) \in Ids
    BY <2>1, AskFacts DEF WorkOK
  <2>4. children[IdOf(proc[p].start)] = p => children'[IdOf(proc[p].start)] = p
    BY <2>2, <2>3 DEF WorkOK
  <2> QED BY <1>1, <2>1, <2>4 DEF Held
<1> QED BY <1>1, StaysHeld

LEMMA OwnHeld ==
    ASSUME WorkOK, ProxyOK, OwnOK, [Next]_vars
    PROVE  (\A p \in Pids : proc[p].state = "running" => Held(p))'
<1>0. /\ call \in [Starts -> Made \cup {"idle", "done"}] /\ children \in [Ids -> 0..Len(proc)]
      /\ \A p \in Pids : proc[p].start \in Starts /\ IdOf(proc[p].start) \in Ids
      /\ \A c \in Starts : IdOf(c) \in Ids
  BY AskFacts DEF WorkOK, IsProcess
<1>1. CASE UNCHANGED <<proxyVars, workVars>>
  BY <1>1, NothingKept, StaysHeld DEF proxyVars, workVars, supervisorVars, startVars, Held
<1>2. CASE main(proxy_argv, cmd.env)
  <2>1. UNCHANGED <<children, call, params, proc, crashed>> /\ state \notin {"running", "returned"}
    BY <1>2 DEF main, workVars, supervisorVars, startVars
  <2> QED BY <2>1, NothingKept, StaysHeld DEF Held
<1>3. CASE Quiet
  <2>1. /\ UNCHANGED <<children, call, params, proc, crashed, inc>>
        /\ state \in {"running", "returned"} => state' \in {"running", "returned"}
    BY <1>3 DEF Quiet, workVars, supervisorVars, startVars
  <2> QED BY <2>1, NothingKept, StaysHeld DEF Held
<1>4. CASE drop_runtime
  <2>1. /\ UNCHANGED <<call, params, crashed, inc>> /\ proc' = Killed({children[id] : id \in Ids})
        /\ \A c \in Starts : call[c] # "store"
    BY <1>4 DEF drop_runtime, startVars, Busy
  <2>2. Kept /\ \A p \in Pids : p \in {children[id] : id \in Ids} => proc'[p].state # "running"
    BY <2>1, KilledKept
  <2>3. ASSUME NEW p \in Pids, proc'[p].state = "running", Held(p) PROVE proc[p].inc \in crashed'
    <3>1. children[IdOf(proc[p].start)] # p
      BY <1>0, <2>2, <2>3
    <3> QED BY <1>0, <2>1, <2>3, <3>1 DEF Held
  <2> QED BY <2>1, <2>2, <2>3, StaysHeld
<1>5. CASE crash
  <2>1. proc' = proc /\ params' = params /\ crashed' = crashed \cup {inc}
    BY <1>5 DEF crash
  <2>2. \A p \in Pids : Held(p) => proc[p].inc \in crashed'
    BY <2>1 DEF Held
  <2> QED BY <2>1, <2>2, NothingKept, StaysHeld
<1>6. CASE \E id \in Ids : reap(id) /\ UNCHANGED <<inc, state, crashed, conf>>
  <2>1. PICK id \in Ids : reap(id) /\ UNCHANGED <<inc, state, crashed, conf>>
    BY <1>6
  <2>2. /\ UNCHANGED <<call, params>> /\ children' = [children EXCEPT ![id] = 0]
        /\ proc' = Killed({children[id]})
    BY <2>1 DEF reap, startVars
  <2>3. Kept /\ \A p \in Pids : children[id] = p => proc'[p].state # "running"
    BY <2>2, KilledKept
  <2> QED BY <2>1, <2>2, <2>3, HeldWithout
<1>7. CASE \E c \in Starts : /\ start(c, conf) /\ state \in {"running", "returned"}
                             /\ UNCHANGED <<inc, state, crashed, conf>>
  <2>1. PICK c \in Starts : start(c, conf) /\ UNCHANGED <<inc, state, crashed, conf>>
    BY <1>7
  <2>2. UNCHANGED <<proc, params>> /\ call[c] = "idle" /\ Kept
    BY <2>1, NothingKept DEF start, Goes
  <2>3. \A d \in Starts : call[d] = "store" => call'[d] = "store"
    BY <1>0, <2>1, <2>2 DEF start, Goes
  <2>4. CASE UNCHANGED children
    BY <1>0, <2>1, <2>2, <2>3, <2>4, StaysHeld DEF Held
  <2>5. CASE ~UNCHANGED children
    <3>1. /\ children' = [children EXCEPT ![IdOf(c)] = 0]
          /\ ~(children[IdOf(c)] # 0 /\ Live(children[IdOf(c)]))
      BY <2>1, <2>5 DEF start, supervisorVars
    <3>2. \A p \in Pids : children[IdOf(c)] = p => proc'[p].state # "running"
      <4>1. 0 \notin Pids
        BY SequenceFacts DEF WorkOK, Pids
      <4> QED BY <2>2, <3>1, <4>1 DEF Live
    <3> QED BY <1>0, <2>1, <2>2, <2>3, <3>1, <3>2, HeldWithout
  <2> QED BY <2>4, <2>5
<1>8. CASE \E c \in Starts : Started(c, conf, inc) /\ UNCHANGED <<inc, state, crashed, conf>>
  <2>1. PICK c \in Starts : Started(c, conf, inc) /\ UNCHANGED <<inc, state, crashed, conf>>
    BY <1>8
  <2>2. ASSUME UNCHANGED <<proc, params, children>>, call[c] # "store",
               \/ call' = [call EXCEPT ![c] = "book"]
               \/ call' = [call EXCEPT ![c] = "settings"]
               \/ call' = [call EXCEPT ![c] = "exec"]
               \/ call' = [call EXCEPT ![c] = "done"]
        PROVE  (\A p \in Pids : proc[p].state = "running" => Held(p))'
    <3>1. \A d \in Starts : call[d] = "store" => call'[d] = "store"
      BY <1>0, <2>2
    <3> QED BY <1>0, <2>1, <2>2, <3>1, NothingKept, StaysHeld DEF Held
  <2>3. CASE create_dir_all(c) \/ seed_sample_book(c) \/ seed_never_sleep_settings(c, conf)
    BY <2>2, <2>3 DEF create_dir_all, seed_sample_book, seed_never_sleep_settings, Goes, SpawnFailed,
          supervisorVars
  <2>4. CASE spawn(c, conf, inc) /\ SpawnFailed(c)
    BY <2>2, <2>4 DEF spawn, Goes, SpawnFailed
  <2>5. CASE spawn(c, conf, inc) /\ ~SpawnFailed(c)
    <3>1. Spawns(c)
      BY <2>5 DEF spawn, Spawns, Goes
    <3>2. PICK r : /\ proc' = Append(proc, r) /\ r.inc = inc /\ r.start = c
      BY <3>1 DEF Spawns
    <3>3. /\ DOMAIN proc' = 1..(Len(proc) + 1)
          /\ \A p \in 1..Len(proc) : proc'[p] = proc[p]
          /\ proc'[Len(proc) + 1] = r
      BY <3>2, AppendFacts DEF WorkOK
    <3>4. Len(proc) \in Nat /\ Pids = 1..Len(proc)
      BY SequenceFacts DEF WorkOK, Pids
    <3>5. UNCHANGED <<children, params>> /\ call[c] = "exec" /\ call' = [call EXCEPT ![c] = "store"]
      BY <3>1 DEF Spawns, supervisorVars
    <3>6. state \in {"running", "returned"}
      BY <3>5 DEF OwnOK, Made
    <3>7. ASSUME NEW p \in Pids, proc'[p].state = "running" PROVE Held(p)'
      <4>1. proc'[p] = proc[p]
        BY <3>3, <3>4
      <4>2. Held(p)
        BY <3>7, <4>1 DEF OwnOK
      <4>3. call[proc[p].start] = "store" => call'[proc[p].start] = "store"
        BY <1>0, <3>5
      <4>4. IdOf(proc[p].start)' = IdOf(proc[p].start)
        BY <3>5, <4>1 DEF IdOf
      <4> QED BY <2>1, <3>5, <4>1, <4>2, <4>3, <4>4 DEF Held
    <3>8. ASSUME NEW p, p = Len(proc) + 1 PROVE Held(p)'
      <4>1. proc'[p].inc = inc' /\ proc'[p].start = c /\ call'[c] = "store"
        BY <1>0, <2>1, <3>2, <3>3, <3>5, <3>8
      <4> QED BY <2>1, <3>6, <4>1 DEF Held
    <3>9. \A p \in DOMAIN proc' : p \in Pids \/ p = Len(proc) + 1
      BY <3>3, <3>4
    <3> QED BY <3>7, <3>8, <3>9 DEF Pids
  <2>6. CASE store(c)
    <3>1. PICK p \in Pids : /\ proc[p].start = c
                            /\ children' = [children EXCEPT ![IdOf(c)] = p]
                            /\ proc' = Killed({children[IdOf(c)]})
      BY <2>6 DEF store
    <3>2. params' = params /\ call' = [call EXCEPT ![c] = "done"]
      BY <2>6 DEF store, Goes
    <3>3. Kept /\ \A q \in Pids : q = children[IdOf(c)] => proc'[q].state # "running"
      BY <3>1, KilledKept
    <3>4. ASSUME NEW q \in Pids, proc'[q].state = "running", Held(q), proc[q].inc \notin crashed
          PROVE  children'[IdOf(proc[q].start)] = q \/ call'[proc[q].start] = "store"
      <4>1. CASE q = p
        BY <1>0, <3>1, <4>1
      <4>2. CASE q # p
        <5>1. proc[q].start # c
          BY <3>1, <4>2 DEF OwnOK
        <5>2. children[IdOf(c)] # q
          BY <3>3, <3>4
        <5> QED BY <1>0, <3>1, <3>2, <3>4, <5>1, <5>2 DEF Held
      <4> QED BY <4>1, <4>2
    <3>5. ASSUME NEW q \in Pids, proc'[q].state = "running", Held(q)
          PROVE  \/ proc[q].inc \in crashed'
                 \/ /\ proc[q].inc = inc' /\ state' \in {"running", "returned"}
                    /\ children'[IdOf(proc[q].start)] = q \/ call'[proc[q].start] = "store"
      BY <2>1, <3>4, <3>5 DEF Held
    <3> QED BY <2>1, <3>2, <3>3, <3>5, StaysHeld
  <2> QED BY <2>1, <2>3, <2>4, <2>5, <2>6 DEF Started
<1>9. CASE \E p \in Pids : (exit(p) \/ save_settings(p)) /\ UNCHANGED <<inc, state, crashed, conf>>
  <2>1. PICK p \in Pids : (exit(p) \/ save_settings(p)) /\ UNCHANGED <<inc, state, crashed, conf>>
    BY <1>9
  <2>2. UNCHANGED <<children, call, params>>
    BY <2>1 DEF exit, save_settings, supervisorVars, startVars
  <2>3. Kept
    BY <2>1, ExitKept, NothingKept DEF exit, save_settings
  <2> QED BY <2>1, <2>2, <2>3, StaysHeld DEF Held
<1>10. CASE ProxyStep
  BY <1>10, <1>3, <1>4, <1>5, <1>6, <1>7, <1>8, <1>9, ProxyCases
<1> QED BY <1>1, <1>2, <1>10, StepCases

LEMMA OwnNext ==
    ASSUME WorkOK, ProxyOK, OwnOK, [Next]_vars
    PROVE  OwnOK'
<1>1. \A c \in Starts : call'[c] \in Made =>
          state' \in {"running", "returned"} /\ conf'.simulator # Absent
  BY CallSteps
<1> QED BY <1>1, OwnProcs, OwnHeld DEF OwnOK, Pids

LEMMA Own == Spec => []OwnOK
<1>1. WorkOK /\ ProxyOK /\ OwnOK /\ [Next]_vars => OwnOK'
  BY OwnNext
<1> QED BY <1>1, OwnInit, Proxies, Work, PTL DEF Spec

\* A simulator outlives its proxy only if the proxy was killed: whatever is running
\* belongs to a killed proxy, or is held by the supervisor of the one that serves.
THEOREM OrphanCorrect == Spec => []OrphanMeansCrash
<1>1. ProxyOK /\ WorkOK /\ OwnOK => OrphanMeansCrash
  <2> SUFFICES ASSUME ProxyOK, WorkOK, OwnOK, NEW p \in Pids, proc[p].state = "running",
                      proc[p].inc < inc \/ state \in {"dropped", "exited", "crashed"}
               PROVE  proc[p].inc \in crashed
    BY DEF OrphanMeansCrash
  <2>1. Held(p)
    BY DEF OwnOK
  <2>2. proc[p].inc \in Nat /\ inc \in Nat
    BY DEF WorkOK, IsProcess, ProxyOK
  <2> QED BY <2>1, <2>2 DEF Held
<1> QED BY <1>1, Proxies, Work, Own, PTL

----------------------------------------------------------------------------
(* What a simulator was started with.                                      *)

\* A proxy keeps its flags; a new one has started nothing yet.
LEMMA FlagsKept ==
    ASSUME ProxyOK, [Next]_vars
    PROVE  \/ /\ UNCHANGED <<inc, conf>>
              /\ state' \in {"running", "returned"} => state \in {"running", "returned"}
           \/ inc' = inc + 1 /\ UNCHANGED workVars
<1>1. CASE UNCHANGED <<proxyVars, workVars>>
  BY <1>1 DEF proxyVars
<1>2. CASE main(proxy_argv, cmd.env)
  BY <1>2 DEF main
<1>3. CASE ProxyStep
  BY <1>3, ProxyCases DEF Quiet, drop_runtime, crash
<1> QED BY <1>1, <1>2, <1>3, StepCases

LEMMA LaunchInit == Init => LaunchOK
BY DEF Init, ProxyInit, LaunchOK

LEMMA LaunchNext ==
    ASSUME WorkOK, ProxyOK, OwnOK, LaunchOK, [Next]_vars
    PROVE  LaunchOK'
<1>1. Len(proc) \in Nat /\ DOMAIN proc = 1..Len(proc)
  BY SequenceFacts DEF WorkOK
<1>2. params' = params
  BY ProcSteps
<1>3. CASE inc' = inc + 1 /\ UNCHANGED workVars
  <2>1. \A p \in Pids : proc[p].inc \in Nat /\ proc[p].inc <= inc /\ inc \in Nat
    BY DEF WorkOK, IsProcess, OwnOK, ProxyOK
  <2>2. \A p \in Pids : proc[p].inc # inc + 1
    BY <2>1
  <2>3. proc' = proc
    BY <1>3 DEF workVars
  <2> QED BY <1>3, <2>2, <2>3 DEF LaunchOK, Pids
<1>4. ASSUME UNCHANGED <<inc, conf>>, state' \in {"running", "returned"}, state \in {"running", "returned"},
             NEW p \in DOMAIN proc', proc'[p].inc = inc'
      PROVE  /\ conf'.simulator # Absent
             /\ proc'[p].binary = conf'.simulator
             /\ proc'[p].argv = spawn_argv(conf, IdOf(proc'[p].start))
  <2>1. CASE Kept
    <3>1. DOMAIN proc' = Pids
      BY <1>1, <2>1, SequenceFacts DEF Kept, Pids
    <3>2. /\ proc'[p].inc = proc[p].inc /\ proc'[p].start = proc[p].start
          /\ proc'[p].binary = proc[p].binary /\ proc'[p].argv = proc[p].argv
      BY <1>4, <2>1, <3>1 DEF Kept, Like
    <3> QED BY <1>4, <3>1, <3>2 DEF LaunchOK
  <2>2. ASSUME NEW c \in Starts, Spawns(c)
        PROVE  /\ conf'.simulator # Absent
               /\ proc'[p].binary = conf'.simulator
               /\ proc'[p].argv = spawn_argv(conf, IdOf(proc'[p].start))
    <3>1. PICK r : /\ proc' = Append(proc, r) /\ r.inc = inc /\ r.start = c
                   /\ r.binary = conf.simulator /\ r.argv = spawn_argv(conf, IdOf(c))
      BY <2>2 DEF Spawns
    <3>2. /\ DOMAIN proc' = 1..(Len(proc) + 1)
          /\ \A q \in 1..Len(proc) : proc'[q] = proc[q]
          /\ proc'[Len(proc) + 1] = r
      BY <3>1, AppendFacts DEF WorkOK
    <3>3. CASE p = Len(proc) + 1
      <4>1. conf.simulator # Absent
        BY <2>2 DEF Spawns, OwnOK, Made
      <4> QED BY <1>4, <3>1, <3>2, <3>3, <4>1
    <3>4. CASE p \in Pids
      <4>1. proc'[p] = proc[p]
        BY <1>1, <3>2, <3>4 DEF Pids
      <4> QED BY <1>4, <3>4, <4>1 DEF LaunchOK
    <3> QED BY <1>1, <1>4, <3>2, <3>3, <3>4 DEF Pids
  <2> QED BY <2>1, <2>2, ProcSteps
<1>5. CASE /\ UNCHANGED <<inc, conf>>
           /\ state' \in {"running", "returned"} => state \in {"running", "returned"}
  <2>1. \A c : params'[c].id = params[c].id
    BY <1>2
  <2> QED BY <1>4, <1>5, <2>1 DEF LaunchOK, Pids, IdOf, spawn_argv
<1> QED BY <1>3, <1>5, FlagsKept

LEMMA Launch == Spec => []LaunchOK
<1>1. WorkOK /\ ProxyOK /\ OwnOK /\ LaunchOK /\ [Next]_vars => LaunchOK'
  BY LaunchNext
<1> QED BY <1>1, LaunchInit, Proxies, Work, Own, PTL DEF Spec

\* The last flag of a name is the one that is taken.
LEMMA LastTaken ==
    ASSUME NEW argv, NEW name, NEW value, NEW k, IsSequence(argv), k \in DOMAIN argv,
           argv[k] = Flag(name, value), \A j \in DOMAIN argv : j > k => argv[j][1] # name
    PROVE  Takes(argv, name) = value
<1> DEFINE S == Positions(argv, name)
<1>1. Len(argv) \in Nat /\ DOMAIN argv = 1..Len(argv)
  BY SequenceFacts
<1>2. k \in S
  BY DEF Positions, Flag
<1>3. \A j \in S : j \in Nat /\ k \in Nat /\ j <= k
  BY <1>1 DEF Positions
<1>4. \A i \in S : (\A j \in S : j <= i) => i = k
  BY <1>2, <1>3
<1> HIDE DEF S
<1>5. (CHOOSE i \in S : \A j \in S : j <= i) = k
  BY <1>2, <1>3, <1>4
<1>6. argv[k][2] = value
  BY DEF Flag
<1> QED BY <1>5, <1>6 DEF Takes, S

\* So the Session flags win over whatever the operator added.
LEMMA SpawnArgvTaken ==
    ASSUME NEW c, NEW id, IsSequence(c.simulator_arg)
    PROVE  /\ Takes(spawn_argv(c, id), "sim-grpc-addr") = c.listen
           /\ Takes(spawn_argv(c, id), "sim-instance-id") = id
<1> DEFINE s == c.simulator_arg
           t == <<Flag("sim-grpc-addr", c.listen), Flag("sim-instance-id", id)>>
           n == Len(s)
           argv == s \o t
<1>1. IsSequence(t) /\ Len(t) = 2 /\ t[1] = Flag("sim-grpc-addr", c.listen) /\ t[2] = Flag("sim-instance-id", id)
  <2>1. t \in Seq({Flag("sim-grpc-addr", c.listen), Flag("sim-instance-id", id)})
    OBVIOUS
  <2>2. Len(t) = 2 /\ t[1] = Flag("sim-grpc-addr", c.listen) /\ t[2] = Flag("sim-instance-id", id)
    OBVIOUS
  <2> QED BY <2>1, <2>2, SeqIsSequence
<1>2. n \in Nat
  BY SequenceFacts
<1>3. spawn_argv(c, id) = argv
  BY DEF spawn_argv
<1> HIDE DEF t
<1>4. IsSequence(s)
  OBVIOUS
<1>5. IsSequence(t)
  BY <1>1
<1> HIDE DEF s
<1>6. /\ IsSequence(argv) /\ DOMAIN argv = 1..(n + Len(t))
      /\ \A i \in 1..Len(t) : argv[n + i] = t[i]
  BY <1>4, <1>5, ConcatFacts
<1> HIDE DEF argv, n
<1>7. argv[n + 1] = Flag("sim-grpc-addr", c.listen) /\ argv[n + 2] = Flag("sim-instance-id", id)
  <2>1. 1 \in 1..Len(t) /\ 2 \in 1..Len(t)
    BY <1>1
  <2> QED BY <1>1, <1>6, <2>1
<1>8. DOMAIN argv = 1..(n + 2)
  BY <1>1, <1>6
<1>9. n + 1 \in DOMAIN argv /\ n + 2 \in DOMAIN argv
  BY <1>2, <1>8
<1>10. \A j \in DOMAIN argv : j > n + 1 => argv[j][1] # "sim-grpc-addr"
  <2>1. \A j \in DOMAIN argv : j > n + 1 => j = n + 2
    BY <1>2, <1>8
  <2>2. argv[n + 2][1] = "sim-instance-id"
    BY <1>7 DEF Flag
  <2> QED BY <2>1, <2>2
<1>11. \A j \in DOMAIN argv : j > n + 2 => argv[j][1] # "sim-instance-id"
  BY <1>2, <1>8
<1>12. Takes(argv, "sim-grpc-addr") = c.listen
  <2>1. PICK k : k = n + 1
    OBVIOUS
  <2>2. k \in DOMAIN argv /\ argv[k] = Flag("sim-grpc-addr", c.listen)
    BY <1>7, <1>9, <2>1
  <2>3. \A j \in DOMAIN argv : j > k => argv[j][1] # "sim-grpc-addr"
    BY <1>10, <2>1
  <2>4. IsSequence(argv)
    BY <1>6
  <2> HIDE DEF argv
  <2> QED BY <2>2, <2>3, <2>4, LastTaken
<1>13. Takes(argv, "sim-instance-id") = id
  <2>1. PICK k : k = n + 2
    OBVIOUS
  <2>2. k \in DOMAIN argv /\ argv[k] = Flag("sim-instance-id", id)
    BY <1>7, <1>9, <2>1
  <2>3. \A j \in DOMAIN argv : j > k => argv[j][1] # "sim-instance-id"
    BY <1>11, <2>1
  <2>4. IsSequence(argv)
    BY <1>6
  <2> HIDE DEF argv
  <2> QED BY <2>2, <2>3, <2>4, LastTaken
<1> QED BY <1>3, <1>12, <1>13

\* Simulators run the program of the firmware, dial the address their proxy was
\* told to listen on and go by the id of their call.
THEOREM LaunchedCorrect == Spec => []LaunchedAsAsked
<1>1. ProxyOK /\ LaunchOK => LaunchedAsAsked
  <2> SUFFICES ASSUME ProxyOK, LaunchOK, NEW p \in Pids, proc[p].inc = inc,
                      state \in {"running", "returned"}
               PROVE  /\ cmd.firmware # Absent => proc[p].binary = simulator
                      /\ Takes(proc[p].argv, "sim-grpc-addr") = listen
                      /\ Takes(proc[p].argv, "sim-instance-id") = IdOf(proc[p].start)
    BY DEF LaunchedAsAsked
  <2>1. /\ proc[p].binary = conf.simulator
        /\ proc[p].argv = spawn_argv(conf, IdOf(proc[p].start))
    BY DEF LaunchOK
  <2>2. /\ conf.listen = listen /\ IsSequence(conf.simulator_arg)
        /\ cmd.firmware # Absent => conf.simulator = simulator
    BY DEF ProxyOK
  <2> QED BY <2>1, <2>2, SpawnArgvTaken
<1> QED BY <1>1, Proxies, Launch, PTL

----------------------------------------------------------------------------
(* Directories.                                                            *)

\* A byte is its two hexadecimal digits.
LEMMA HexByte ==
    ASSUME NEW a \in 0..255, NEW b \in 0..255,
           HexDigit(a \div 16) = HexDigit(b \div 16), HexDigit(a % 16) = HexDigit(b % 16)
    PROVE  a = b
<1>1. /\ a \div 16 \in 0..15 /\ a % 16 \in 0..15
      /\ b \div 16 \in 0..15 /\ b % 16 \in 0..15
  OBVIOUS
<1>2. \A m, n \in 0..15 : HexDigit(m) = HexDigit(n) => m = n
  BY DEF HexDigit
<1>3. a \div 16 = b \div 16 /\ a % 16 = b % 16
  BY <1>1, <1>2
<1> QED BY <1>3

LEMMA SeqElement ==
    ASSUME NEW T, NEW s \in Seq(T), NEW i \in 1..Len(s)
    PROVE  s[i] \in T
OBVIOUS

\* Ids that are both plain, or both written in hexadecimal, have names of their own.
LEMMA NamesApart ==
    ASSUME NEW x \in Seq(0..255), NEW y \in Seq(0..255), PlainId(x) = PlainId(y),
           safe_dir_name(x) = safe_dir_name(y)
    PROVE  x = y
<1>1. CASE PlainId(x)
  BY <1>1 DEF safe_dir_name
<1>2. CASE ~PlainId(x)
  <2> DEFINE h(id) == [i \in 1..2 * Len(id) |->
                HexDigit(IF i % 2 = 1 THEN id[(i + 1) \div 2] \div 16 ELSE id[i \div 2] % 16)]
  <2>1. h(x) = h(y)
    BY <1>2 DEF safe_dir_name, Hexadecimal
  <2>2. Len(x) \in Nat /\ Len(y) \in Nat
    OBVIOUS
  <2>3. 1..2 * Len(x) = 1..2 * Len(y)
    BY <2>1
  <2>4. Len(x) = Len(y)
    BY <2>2, <2>3
  <2>5. ASSUME NEW i \in 1..Len(x) PROVE x[i] = y[i]
    <3>1. /\ (2 * i - 1) % 2 = 1 /\ ((2 * i - 1) + 1) \div 2 = i
          /\ (2 * i) % 2 = 0 /\ (2 * i) \div 2 = i
      BY <2>2
    <3>2. 2 * i - 1 \in 1..2 * Len(x) /\ 2 * i \in 1..2 * Len(x)
      BY <2>2
    <3>3. HexDigit(x[i] \div 16) = HexDigit(y[i] \div 16)
      <4>1. h(x)[2 * i - 1] = HexDigit(x[i] \div 16) /\ h(y)[2 * i - 1] = HexDigit(y[i] \div 16)
        BY <2>4, <3>1, <3>2
      <4> QED BY <2>1, <4>1
    <3>4. HexDigit(x[i] % 16) = HexDigit(y[i] % 16)
      <4>1. h(x)[2 * i] = HexDigit(x[i] % 16) /\ h(y)[2 * i] = HexDigit(y[i] % 16)
        BY <2>4, <3>1, <3>2
      <4> QED BY <2>1, <4>1
    <3>5. x[i] \in 0..255 /\ y[i] \in 0..255
      BY <2>4, SeqElement
    <3> QED BY <3>3, <3>4, <3>5, HexByte
  <2> QED BY <2>4, <2>5
<1> QED BY <1>1, <1>2

\* Live simulators of different ids have different default directories, unless
\* one of them needs no escape and is the hexadecimal form of the other.
THEOREM DirsApartCorrect == Spec => []DirsApart
<1>1. WorkOK => DirsApart
  <2> SUFFICES ASSUME WorkOK, NEW p \in Pids, NEW q \in Pids,
                      IdOf(proc[p].start) # IdOf(proc[q].start),
                      params[proc[p].start].cwd = Absent, params[proc[q].start].cwd = Absent,
                      proc[p].dir = proc[q].dir
               PROVE  \/ IdOf(proc[p].start) = Hexadecimal(IdOf(proc[q].start))
                      \/ IdOf(proc[q].start) = Hexadecimal(IdOf(proc[p].start))
    BY DEF DirsApart, ShareDefault
  <2>1. /\ proc[p].start \in Starts /\ proc[q].start \in Starts /\ params \in Clients
        /\ proc[p].dir = workdir(proc[p].start) /\ proc[q].dir = workdir(proc[q].start)
    BY DEF WorkOK, IsProcess
  <2>2. IdOf(proc[p].start) \in Seq(0..255) /\ IdOf(proc[q].start) \in Seq(0..255)
    BY <2>1, AskFacts, WorkDirsAssumption
  <2>3. default_cwd(IdOf(proc[p].start)) = default_cwd(IdOf(proc[q].start))
    BY <2>1 DEF workdir, unwrap_or
  <2>4. safe_dir_name(IdOf(proc[p].start)) = safe_dir_name(IdOf(proc[q].start))
    BY <2>3 DEF default_cwd
  <2>5. PlainId(IdOf(proc[p].start)) # PlainId(IdOf(proc[q].start))
    BY <2>2, <2>4, NamesApart
  <2> QED BY <2>4, <2>5 DEF safe_dir_name, PlainId
<1> QED BY <1>1, Work, PTL

----------------------------------------------------------------------------
(* What a simulator finds.                                                 *)

\* What a step can do to seeds: a book stays, never-sleep settings are overwritten
\* by a live simulator only, and a start moves on by seeding what it was asked to.
SeedFrame ==
    /\ \A w \in Dirs : disk[w].book => disk'[w].book
    /\ \A w \in Dirs : disk[w].settings = "never" =>
          disk'[w].settings = "never" \/ \E p \in Pids : Live(p) /\ proc[p].dir = w
    /\ \A c \in Starts : alone'[c] => alone[c] \/ call[c] = "settings"
    /\ \A c \in Starts : call'[c] \in {"settings", "exec"} =>
          \/ call[c] \in {"settings", "exec"}
          \/ call[c] = "book" /\ (sample_book(c) => disk'[workdir(c)].book)
    /\ \A c \in Starts : call'[c] = "exec" =>
          \/ call[c] = "exec"
          \/ /\ call[c] = "settings" /\ UNCHANGED <<conf, proc>>
             /\ auto_sleep(c, conf) = "no" => disk'[workdir(c)].settings = "never"
             /\ alone'[c] => \A p \in Pids : Live(p) => proc[p].dir # workdir(c)

LEMMA SeedNothing ==
    ASSUME disk' = disk, \A c \in Starts : alone'[c] => alone[c],
           \A c \in Starts : call'[c] \in {"settings", "exec"} => call'[c] = call[c]
    PROVE  SeedFrame
BY DEF SeedFrame

LEMMA SeedSteps ==
    ASSUME WorkOK, ProxyOK, OwnOK, [Next]_vars
    PROVE  SeedFrame
<1>0. call \in [Starts -> Made \cup {"idle", "done"}] /\ alone \in [Starts -> BOOLEAN]
  BY DEF WorkOK
<1>1. CASE UNCHANGED workVars
  BY <1>1, SeedNothing DEF workVars, startVars
<1>2. CASE drop_runtime
  BY <1>2, SeedNothing DEF drop_runtime, startVars
<1>3. CASE crash
  <2>1. \A c \in Starts : call'[c] \in {"settings", "exec"} => call'[c] = call[c]
    BY <1>3 DEF crash, Gone
  <2> QED BY <1>3, <2>1, SeedNothing DEF crash
<1>4. CASE \E id \in Ids : reap(id)
  BY <1>4, SeedNothing DEF reap, startVars
<1>5. CASE \E c \in Starts : start(c, conf)
  <2>1. PICK c \in Starts : start(c, conf)
    BY <1>5
  <2>2. UNCHANGED <<disk, alone>> /\ \E st \in {"done", "dir"} : call' = [call EXCEPT ![c] = st]
    BY <2>1 DEF start, Goes
  <2>3. \A d \in Starts : call'[d] \in {"settings", "exec"} => call'[d] = call[d]
    BY <1>0, <2>2
  <2> QED BY <2>2, <2>3, SeedNothing
<1>6. CASE \E c \in Starts : Started(c, conf, inc) /\ UNCHANGED <<inc, state, crashed, conf>>
  <2>1. PICK c \in Starts : Started(c, conf, inc) /\ UNCHANGED <<inc, state, crashed, conf>>
    BY <1>6
  <2>2. workdir(c) \in Dirs
    BY AskFacts DEF WorkOK
  <2>3. ASSUME disk' = disk, \A d \in Starts : alone'[d] => alone[d],
               NEW st \in {"done", "book", "store"}, call' = [call EXCEPT ![c] = st]
        PROVE  SeedFrame
    <3>1. \A d \in Starts : call'[d] \in {"settings", "exec"} => call'[d] = call[d]
      BY <1>0, <2>3
    <3> QED BY <2>3, <3>1, SeedNothing
  <2>4. CASE SpawnFailed(c)
    BY <2>3, <2>4 DEF SpawnFailed, Goes
  <2>5. CASE create_dir_all(c) /\ ~SpawnFailed(c)
    BY <2>3, <2>5 DEF create_dir_all, Goes
  <2>6. CASE seed_sample_book(c) /\ ~SpawnFailed(c)
    <3>1. /\ call[c] = "book" /\ call' = [call EXCEPT ![c] = "settings"] /\ alone' = alone
          /\ disk' = [disk EXCEPT ![workdir(c)].book = @ \/ sample_book(c)]
      BY <2>6 DEF seed_sample_book, Goes
    <3>2. \A w \in Dirs : /\ disk[w].book => disk'[w].book
                          /\ disk'[w].settings = disk[w].settings
      BY <2>2, <3>1 DEF WorkOK, Contents
    <3>3. sample_book(c) => disk'[workdir(c)].book
      BY <2>2, <3>1 DEF WorkOK, Contents
    <3>4. \A d \in Starts : d # c => call'[d] = call[d]
      BY <1>0, <3>1
    <3>5. call'[c] = "settings"
      BY <1>0, <3>1
    <3> QED BY <3>1, <3>2, <3>3, <3>4, <3>5 DEF SeedFrame
  <2>7. CASE seed_never_sleep_settings(c, conf) /\ ~SpawnFailed(c)
    <3>1. /\ call[c] = "settings" /\ call' = [call EXCEPT ![c] = "exec"] /\ proc' = proc
          /\ disk' = [disk EXCEPT ![workdir(c)].settings =
                        IF auto_sleep(c, conf) = "yes" THEN @ ELSE "never"]
          /\ alone' = [alone EXCEPT ![c] = ~\E p \in Pids : Live(p) /\ proc[p].dir = workdir(c)]
      BY <2>7 DEF seed_never_sleep_settings, Goes
    <3>2. \A w \in Dirs : /\ disk'[w].book = disk[w].book
                          /\ disk[w].settings = "never" => disk'[w].settings = "never"
      BY <2>2, <3>1 DEF WorkOK, Contents
    <3>3. auto_sleep(c, conf) = "no" => disk'[workdir(c)].settings = "never"
      BY <2>2, <3>1 DEF WorkOK, Contents
    <3>4. \A d \in Starts : d # c => call'[d] = call[d] /\ alone'[d] = alone[d]
      BY <1>0, <3>1
    <3>5. call'[c] = "exec" /\ (alone'[c] => \A p \in Pids : Live(p) => proc[p].dir # workdir(c))
      BY <1>0, <3>1
    <3> QED BY <2>1, <3>1, <3>2, <3>3, <3>4, <3>5 DEF SeedFrame
  <2>8. CASE spawn(c, conf, inc) /\ ~SpawnFailed(c)
    <3>1. /\ disk' = disk /\ call' = [call EXCEPT ![c] = "store"]
          /\ alone' = [d \in Starts |-> alone[d] /\ (d = c \/ workdir(d) # workdir(c))]
      BY <2>8 DEF spawn, Goes
    <3> QED BY <2>3, <3>1
  <2>9. CASE store(c)
    BY <2>3, <2>9 DEF store, Goes
  <2> QED BY <2>1, <2>4, <2>5, <2>6, <2>7, <2>8, <2>9 DEF Started
<1>7. CASE \E p \in Pids : exit(p) \/ save_settings(p)
  <2>1. PICK p \in Pids : exit(p) \/ save_settings(p)
    BY <1>7
  <2>2. CASE exit(p)
    BY <2>2, SeedNothing DEF exit, startVars
  <2>3. CASE save_settings(p)
    <3>1. /\ Live(p) /\ UNCHANGED <<call, alone>>
          /\ disk' = [disk EXCEPT ![proc[p].dir].settings = "own"]
      BY <2>3 DEF save_settings, startVars
    <3>2. \A w \in Dirs : /\ disk[w].book => disk'[w].book
                          /\ w # proc[p].dir => disk'[w] = disk[w]
      BY <3>1 DEF WorkOK, Contents
    <3> QED BY <3>1, <3>2 DEF SeedFrame
  <2> QED BY <2>1, <2>2, <2>3
<1>8. UNCHANGED <<proxyVars, workVars>> \/ main(proxy_argv, cmd.env) \/ Quiet => UNCHANGED workVars
  BY DEF main, Quiet
<1>9. CASE ProxyStep
  BY <1>9, <1>1, <1>2, <1>3, <1>4, <1>5, <1>6, <1>7, <1>8, ProxyCases
<1> QED BY <1>1, <1>8, <1>9, StepCases

LEMMA SeedInit == Init => SeedOK
<1> SUFFICES ASSUME Init PROVE SeedOK
  OBVIOUS
<1>1. \A c \in Starts : call[c] = "idle"
  BY DEF Init, WorkDirsInit
<1>2. state = "none"
  BY DEF Init, ProxyInit
<1> QED BY <1>1, <1>2 DEF SeedOK

\* What the starts have seeded.
LEMMA SeedCalls ==
    ASSUME WorkOK, ProxyOK, OwnOK, SeedOK, [Next]_vars, NEW c \in Starts
    PROVE  /\ call'[c] \in {"settings", "exec"} /\ sample_book(c) => disk'[workdir(c)].book
           /\ call'[c] = "exec" /\ auto_sleep(c, conf') = "no" /\ alone'[c] =>
                /\ disk'[workdir(c)].settings = "never"
                /\ \A p \in DOMAIN proc' : Live(p)' => proc'[p].dir # workdir(c)
<1>1. SeedFrame /\ workdir(c) \in Dirs
  BY SeedSteps, AskFacts DEF WorkOK
<1>2. call'[c] \in {"settings", "exec"} /\ sample_book(c) => disk'[workdir(c)].book
  BY <1>1 DEF SeedFrame, SeedOK
<1>3. ASSUME call'[c] = "exec", auto_sleep(c, conf') = "no", alone'[c]
      PROVE  /\ disk'[workdir(c)].settings = "never"
             /\ \A p \in DOMAIN proc' : Live(p)' => proc'[p].dir # workdir(c)
  <2>1. CASE call[c] = "settings"
    <3>1. /\ UNCHANGED <<conf, proc>>
          /\ auto_sleep(c, conf) = "no" => disk'[workdir(c)].settings = "never"
          /\ \A p \in Pids : Live(p) => proc[p].dir # workdir(c)
      BY <1>1, <1>3, <2>1 DEF SeedFrame
    <3>2. auto_sleep(c, conf) = "no"
      BY <1>3, <3>1
    <3> QED BY <3>1, <3>2 DEF Live, Pids
  <2>2. CASE call[c] = "exec"
    <3>1. UNCHANGED <<inc, conf>>
      <4>1. state \in {"running", "returned"}
        BY <2>2 DEF OwnOK, Made
      <4>2. ~main(proxy_argv, cmd.env)
        BY <4>1 DEF main
      <4>3. CASE ProxyStep
        BY <4>3, ProxyCases DEF Quiet, drop_runtime, crash
      <4> QED BY <4>2, <4>3, StepCases DEF proxyVars
    <3>2. /\ disk[workdir(c)].settings = "never"
          /\ \A p \in Pids : Live(p) => proc[p].dir # workdir(c)
      BY <1>1, <1>3, <2>2, <3>1 DEF SeedFrame, SeedOK
    <3>3. disk'[workdir(c)].settings = "never"
      BY <1>1, <3>2 DEF SeedFrame
    <3>4. CASE Kept
      <4>1. DOMAIN proc' = Pids
        <5>1. DOMAIN proc = 1..Len(proc)
          BY SequenceFacts DEF WorkOK
        <5>2. DOMAIN proc' = 1..Len(proc')
          BY <3>4, SequenceFacts DEF Kept
        <5> QED BY <3>4, <5>1, <5>2 DEF Kept, Pids
      <4>2. \A p \in Pids : proc'[p].dir = proc[p].dir /\ (Live(p)' => Live(p))
        BY <3>4 DEF Kept, Like, Live
      <4> QED BY <3>2, <3>3, <4>1, <4>2
    <3>5. ASSUME NEW d \in Starts, Spawns(d)
          PROVE  \A p \in DOMAIN proc' : Live(p)' => proc'[p].dir # workdir(c)
      <4>1. PICK r : proc' = Append(proc, r) /\ r.dir = workdir(d)
        BY <3>5 DEF Spawns
      <4>2. /\ DOMAIN proc' = 1..(Len(proc) + 1)
            /\ \A p \in 1..Len(proc) : proc'[p] = proc[p]
            /\ proc'[Len(proc) + 1] = r
        BY <4>1, AppendFacts DEF WorkOK
      <4>3. Len(proc) \in Nat /\ Pids = 1..Len(proc)
        BY SequenceFacts DEF WorkOK, Pids
      <4>4. \A p \in DOMAIN proc' : p \in Pids \/ p = Len(proc) + 1
        BY <4>2, <4>3
      <4>5. d # c
        BY <1>3, <3>5 DEF Spawns, WorkOK
      <4>6. workdir(c) # workdir(d)
        BY <1>3, <3>5, <4>5 DEF Spawns
      <4>7. \A p \in Pids : proc'[p] = proc[p] /\ (Live(p)' => Live(p))
        BY <4>2, <4>3 DEF Live
      <4> QED BY <3>2, <4>1, <4>2, <4>4, <4>6, <4>7
    <3> QED BY <3>2, <3>3, <3>4, <3>5, ProcSteps
  <2> QED BY <1>1, <1>3, <2>1, <2>2 DEF SeedFrame
<1> QED BY <1>2, <1>3

\* What the processes have found.
LEMMA SeedProcs ==
    ASSUME WorkOK, ProxyOK, OwnOK, SeedOK, [Next]_vars,
           UNCHANGED <<inc, conf>>, state \in {"running", "returned"},
           NEW p \in DOMAIN proc', proc'[p].inc = inc'
    PROVE  /\ sample_book(proc'[p].start) => proc'[p].found.book
           /\ auto_sleep(proc'[p].start, conf) = "no" /\ alone'[proc'[p].start]
                    => proc'[p].found.settings = "never"
<1>1. Len(proc) \in Nat /\ Pids = 1..Len(proc)
  BY SequenceFacts DEF WorkOK, Pids
<1>2. ASSUME p \in Pids, proc'[p].start = proc[p].start, proc'[p].inc = proc[p].inc,
             proc'[p].found = proc[p].found
      PROVE  /\ sample_book(proc'[p].start) => proc'[p].found.book
             /\ auto_sleep(proc'[p].start, conf) = "no" /\ alone'[proc'[p].start]
                    => proc'[p].found.settings = "never"
  <2>1. proc[p].start \in Starts /\ call[proc[p].start] \notin Before
    BY <1>2 DEF WorkOK, IsProcess, OwnOK
  <2>2. alone'[proc[p].start] => alone[proc[p].start]
    BY <2>1, SeedSteps DEF SeedFrame, Before
  <2> QED BY <1>2, <2>2 DEF SeedOK
<1>3. CASE Kept
  <2>1. DOMAIN proc' = 1..Len(proc')
    BY <1>3, SequenceFacts DEF Kept
  <2>2. p \in Pids
    BY <1>1, <1>3, <2>1 DEF Kept
  <2> QED BY <1>2, <1>3, <2>2 DEF Kept, Like
<1>4. ASSUME NEW c \in Starts, Spawns(c)
      PROVE  /\ sample_book(proc'[p].start) => proc'[p].found.book
             /\ auto_sleep(proc'[p].start, conf) = "no" /\ alone'[proc'[p].start]
                    => proc'[p].found.settings = "never"
  <2>1. PICK r : proc' = Append(proc, r) /\ r.start = c /\ r.found = disk[workdir(c)]
    BY <1>4 DEF Spawns
  <2>2. /\ DOMAIN proc' = 1..(Len(proc) + 1)
        /\ \A q \in 1..Len(proc) : proc'[q] = proc[q]
        /\ proc'[Len(proc) + 1] = r
    BY <2>1, AppendFacts DEF WorkOK
  <2>3. CASE p \in Pids
    BY <1>1, <1>2, <2>2, <2>3
  <2>4. CASE p = Len(proc) + 1
    <3>1. call[c] = "exec" /\ (alone'[c] => alone[c])
      BY <1>4 DEF Spawns
    <3>2. /\ sample_book(c) => disk[workdir(c)].book
          /\ auto_sleep(c, conf) = "no" /\ alone[c] => disk[workdir(c)].settings = "never"
      BY <3>1 DEF SeedOK
    <3> QED BY <2>1, <2>2, <2>4, <3>1, <3>2
  <2> QED BY <1>1, <2>2, <2>3, <2>4
<1> QED BY <1>3, <1>4, ProcSteps

LEMMA SeedNext ==
    ASSUME WorkOK, ProxyOK, OwnOK, SeedOK, [Next]_vars
    PROVE  SeedOK'
<1>1. params' = params
  BY ProcSteps
<1>2. \A c : /\ sample_book(c)' = sample_book(c) /\ workdir(c)' = workdir(c)
             /\ auto_sleep(c, conf)' = auto_sleep(c, conf')
  BY <1>1 DEF sample_book, workdir, auto_sleep, IdOf
<1>3. (\A c \in Starts :
          /\ call[c] \in {"settings", "exec"} /\ sample_book(c) => disk[workdir(c)].book
          /\ call[c] = "exec" /\ auto_sleep(c, conf) = "no" /\ alone[c] =>
                /\ disk[workdir(c)].settings = "never"
                /\ \A p \in Pids : Live(p) => proc[p].dir # workdir(c))'
  <2> SUFFICES ASSUME NEW c \in Starts
               PROVE  (/\ call[c] \in {"settings", "exec"} /\ sample_book(c) => disk[workdir(c)].book
                       /\ call[c] = "exec" /\ auto_sleep(c, conf) = "no" /\ alone[c] =>
                             /\ disk[workdir(c)].settings = "never"
                             /\ \A p \in Pids : Live(p) => proc[p].dir # workdir(c))'
    OBVIOUS
  <2>1. sample_book(c)' = sample_book(c) /\ workdir(c)' = workdir(c)
        /\ auto_sleep(c, conf)' = auto_sleep(c, conf')
    BY <1>2
  <2> QED BY <2>1, SeedCalls DEF Pids
<1>4. ASSUME state' \in {"running", "returned"}, NEW p \in DOMAIN proc', proc'[p].inc = inc'
      PROVE  /\ sample_book(proc'[p].start) => proc'[p].found.book
             /\ auto_sleep(proc'[p].start, conf') = "no" /\ alone'[proc'[p].start]
                    => proc'[p].found.settings = "never"
  <2>1. CASE inc' = inc + 1 /\ UNCHANGED workVars
    <3>1. proc' = proc
      BY <2>1 DEF workVars
    <3>2. proc[p].inc \in Nat /\ proc[p].inc <= inc /\ inc \in Nat
      BY <1>4, <3>1 DEF WorkOK, IsProcess, OwnOK, ProxyOK, Pids
    <3>3. FALSE
      BY <1>4, <2>1, <3>1, <3>2
    <3> QED BY <3>3
  <2>2. CASE /\ UNCHANGED <<inc, conf>>
             /\ state' \in {"running", "returned"} => state \in {"running", "returned"}
    BY <1>4, <2>2, SeedProcs
  <2> QED BY <2>1, <2>2, FlagsKept
<1>5. (state \in {"running", "returned"} =>
          \A p \in Pids : proc[p].inc = inc =>
              /\ sample_book(proc[p].start) => proc[p].found.book
              /\ auto_sleep(proc[p].start, conf) = "no" /\ alone[proc[p].start]
                    => proc[p].found.settings = "never")'
  BY <1>1, <1>4 DEF Pids, sample_book, auto_sleep
<1> QED BY <1>3, <1>5 DEF SeedOK

LEMMA Seed == Spec => []SeedOK
<1>1. WorkOK /\ ProxyOK /\ OwnOK /\ SeedOK /\ [Next]_vars => SeedOK'
  BY SeedNext
<1> QED BY <1>1, SeedInit, Proxies, Work, Own, PTL DEF Spec

\* Simulators find the book and the never-sleep settings they were to find.
THEOREM SeededCorrect == Spec => []SeededAsAsked
<1>1. LaunchOK /\ SeedOK => SeededAsAsked
  <2> SUFFICES ASSUME LaunchOK, SeedOK, NEW p \in Pids, proc[p].inc = inc,
                      state \in {"running", "returned"}
               PROVE  LET c == proc[p].start
                          capabilities == capabilities_document
                      IN  /\ capabilities.configured
                          /\ unwrap_or(params[c].sample_book, capabilities.sampleBookDefault)
                                => proc[p].found.book
                          /\ unwrap_or(params[c].auto_sleep, capabilities.autoSleepDefault) = "no"
                                /\ alone[c] => proc[p].found.settings = "never"
    BY DEF SeededAsAsked
  <2>1. /\ capabilities_document.configured = (conf.simulator # Absent)
        /\ capabilities_document.sampleBookDefault = TRUE
        /\ capabilities_document.autoSleepDefault = conf.auto_sleep
    BY DEF capabilities_document
  <2>2. /\ conf.simulator # Absent
        /\ sample_book(proc[p].start) => proc[p].found.book
        /\ auto_sleep(proc[p].start, conf) = "no" /\ alone[proc[p].start]
              => proc[p].found.settings = "never"
    BY DEF LaunchOK, SeedOK
  <2> QED BY <2>1, <2>2 DEF sample_book, auto_sleep
<1> QED BY <1>1, Launch, Seed, PTL

\* The layers together.
THEOREM Invariance == Spec => []IInv
BY Tasks, Proxies, Work, Own, Launch, Seed, PTL DEF IInv

=============================================================================
