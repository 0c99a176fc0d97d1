-------------------------------- MODULE Xtask --------------------------------
(***************************************************************************)
(* cargo xtask (xtask/src): start-csm-proxy builds the proxy and, if it    *)
(* must, the firmware, and becomes the proxy by exec; coverage runs the    *)
(* tests and reads the report they left; generate-sim-cpp runs buf.  One   *)
(* terminal, one task after the other, on the files earlier tasks left.    *)
(***************************************************************************)
EXTENDS Flags

CONSTANTS
    Scripts,        \* what an operator may type: sequences of commands, each a
                    \* record of a task and its flags
    Directories,    \* the firmware paths that are directories
    Percents,       \* what the tests may cover, in hundredths of a percent
    Prebuilt,       \* the binaries there are before the first task
    ProxyBin,       \* target/debug/crosspoint-simulator-mcp-proxy
    DefaultListen, DefaultHttp, DefaultBoard

ASSUME PercentsAssumption == Percents \subseteq Nat \ {0}

\* A command is one of three tasks; what follows `--` and CSM_SIMULATOR_ARGS are
\* sequences of arguments, and the program that pio builds is a file.
ASSUME ScriptsAssumption ==
    \A s \in Scripts :
        /\ IsSequence(s)
        /\ \A i \in DOMAIN s :
              /\ s[i].task \in {"start-csm-proxy", "coverage", "generate-sim-cpp"}
              /\ s[i].task = "start-csm-proxy" =>
                    /\ IsSequence(s[i].extra)
                    /\ IsSequence(unwrap_or(s[i].env["simulator-arg"], <<>>))
                    /\ <<s[i].firmware, unwrap_or(s[i].board, DefaultBoard)>>
                            \notin Directories \cup {Absent, Bare}
\* No path is both a file and a directory.
ASSUME FilesAssumption ==
    /\ (Prebuilt \cup {ProxyBin}) \cap (Directories \cup {Absent, Bare}) = {}
    /\ Absent \notin Directories

VARIABLES
    script,     \* the commands the operator types
    tasks,      \* how many of them have been run
    at,         \* the step of the task, "idle" between tasks
    status,     \* the exit status of the last task, or "none"
    files,      \* the binaries there are
    built,      \* the builds of this task that succeeded
    simulator,  \* StartPlan.simulator, or Absent
    measured,   \* what this task's tests covered, or 0
    report      \* coverage.json: the percentage in it, or 0 if it has none

taskVars  == <<at, status>>
buildVars == <<files, built, simulator>>
coverVars == <<measured, report>>
xtaskVars == <<script, tasks, taskVars, buildVars, coverVars>>

MIN_LINE_COVERAGE_PERCENT == 9000

XtaskInit ==
    /\ script \in Scripts
    /\ tasks = 0 /\ at = "idle" /\ status = "none"
    /\ files = Prebuilt /\ built = {} /\ simulator = Absent
    /\ measured = 0 /\ report = 0

Goto(step) == at' = step /\ UNCHANGED status
Exit(code) == at' = "idle" /\ status' = code

\* The command that runs, or ran last.
cmd == script[tasks]

\* main: the operator runs the next task.
xtask ==
    /\ at = "idle" /\ tasks < Len(script)
    /\ tasks' = tasks + 1
    /\ status' = "none"
    /\ at' = CASE script[tasks'].task = "start-csm-proxy"  -> "cargo"
               [] script[tasks'].task = "coverage"         -> "tools"
               [] script[tasks'].task = "generate-sim-cpp" -> "generate"
    /\ built' = {} /\ simulator' = Absent /\ measured' = 0
    /\ UNCHANGED <<script, files, report>>

----------------------------------------------------------------------------
(* start-csm-proxy.                                                        *)

\* `program`, or the file itself when the firmware is already a binary.
program_path(firmware, board) ==
    IF firmware \in files THEN firmware ELSE <<firmware, board>>

Program == program_path(cmd.firmware, unwrap_or(cmd.board, DefaultBoard))

\* Mutant of run_status: the exit status is not looked at.
run_anyway(what, next) ==
    /\ Goto(next)
    /\ built' \in {built, built \cup {what}}

\* A tool is run and its exit status decides whether the task goes on.
run_status(what, next) ==
    \/ Goto(next) /\ built' = built \cup {what}
    \/ Exit("FAILURE") /\ UNCHANGED built

\* What a compiler leaves behind, whether it succeeds or not.
compiles(file) == files' \in {files \cup {file}, files \ {file}}

build_proxy ==
    \/ /\ at = "cargo"
       /\ compiles(ProxyBin)
       /\ run_status("cargo", "cargo done")
       /\ UNCHANGED simulator
    \/ /\ at = "cargo done"
       /\ \/ ProxyBin \in files /\ Goto("resolve")
          \/ ProxyBin \notin files /\ Exit("FAILURE")
       /\ UNCHANGED buildVars

build_firmware ==
    /\ at = "pio"
    /\ compiles(Program)
    /\ run_status("pio", "program")
    /\ UNCHANGED simulator

\* No firmware, a binary, or a directory whose program is built on demand.
resolve_simulator ==
    \/ /\ at = "resolve"
       /\ \/ cmd.firmware = Absent /\ Goto("exec") /\ UNCHANGED simulator
          \/ cmd.firmware \in files /\ Goto("exec") /\ simulator' = cmd.firmware
          \/ /\ cmd.firmware \notin files \cup Directories \cup {Absent}
             /\ Exit("FAILURE") /\ UNCHANGED simulator
          \/ /\ cmd.firmware \in Directories
             /\ Goto(IF cmd.build_firmware \/ Program \notin files THEN "pio" ELSE "program")
             /\ UNCHANGED simulator
       /\ UNCHANGED <<files, built>>
    \/ /\ at = "program"
       /\ \/ Program \in files /\ Goto("exec") /\ simulator' = Program
          \/ Program \notin files /\ Exit("FAILURE") /\ UNCHANGED simulator
       /\ UNCHANGED <<files, built>>

\* The flags of start-csm-proxy that it shares with the proxy.
listen   == unwrap_or(cmd.listen, unwrap_or(cmd.env["listen"], DefaultListen))
mcp_http == unwrap_or(cmd.mcp_http, unwrap_or(cmd.env["mcp-http"], DefaultHttp))

\* The proxy's argv: what the plan decided, then what follows `--`.
proxy_argv ==
    <<Flag("listen", listen)>>
    \o (IF cmd.mode = "http" THEN <<Flag("mcp-http", mcp_http)>> ELSE <<>>)
    \o (IF simulator # Absent THEN <<Flag("simulator", simulator)>> ELSE <<>>)
    \o cmd.extra

\* The process becomes the proxy, with the environment it was given.
exec_proxy ==
    /\ at = "exec"
    /\ \/ ProxyBin \in files /\ Goto("proxy")
       \/ Exit("FAILURE")
    /\ UNCHANGED buildVars

plan == build_proxy \/ build_firmware \/ resolve_simulator

----------------------------------------------------------------------------
(* coverage and generate-sim-cpp.                                          *)

\* A missing tool ends the task with the hint how to install it.
tool_missing ==
    /\ at = "tools"
    /\ Goto("test") \/ Exit("FAILURE")
    /\ UNCHANGED coverVars

write_html == cmd.html \/ cmd.open

\* cargo llvm-cov, three times: the tests, the JSON report and the HTML one.
llvm_cov ==
    \/ /\ at = "test"
       /\ \/ Goto("json") /\ measured' \in Percents
          \/ Exit("FAILURE") /\ UNCHANGED measured
       /\ UNCHANGED report
    \/ /\ at = "json"
       /\ \/ Goto(IF write_html THEN "html" ELSE "read") /\ report' \in {measured, 0}
          \/ Exit("FAILURE") /\ report' \in {report, 0}
       /\ UNCHANGED measured
    \/ at = "html" /\ (Goto("read") \/ Exit("FAILURE")) /\ UNCHANGED coverVars

\* The report is read back.
line_percent ==
    /\ at = "read"
    /\ \/ report # 0 /\ Goto(IF write_html THEN "show" ELSE "decide")
       \/ report = 0 /\ Exit("FAILURE")
    /\ UNCHANGED coverVars

\* The HTML report must be there, and the browser opens it if asked to.
html_index ==
    /\ at = "show"
    /\ Goto(IF cmd.open THEN "open" ELSE "decide") \/ Exit("FAILURE")
    /\ UNCHANGED coverVars
open_default_browser == at = "open" /\ (Goto("decide") \/ Exit("FAILURE")) /\ UNCHANGED coverVars

decide ==
    /\ at = "decide"
    /\ Exit(IF report <= MIN_LINE_COVERAGE_PERCENT THEN "FAILURE" ELSE "SUCCESS")
    /\ UNCHANGED coverVars

run_coverage == tool_missing \/ llvm_cov \/ line_percent \/ html_index
                \/ open_default_browser \/ decide

run_generate_sim_cpp == at = "generate" /\ (Exit("SUCCESS") \/ Exit("FAILURE"))

XtaskStep ==
    /\ \/ (plan \/ exec_proxy) /\ UNCHANGED coverVars
       \/ run_coverage /\ UNCHANGED buildVars
       \/ run_generate_sim_cpp /\ UNCHANGED <<buildVars, coverVars>>
    /\ UNCHANGED <<script, tasks>>
=============================================================================
