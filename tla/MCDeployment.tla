---------------------------- MODULE MCDeployment ----------------------------
(***************************************************************************)
(* A small instance of Deployment: commands over two invocations, and two  *)
(* starts whose ids and directories may meet.                              *)
(***************************************************************************)
EXTENDS Deployment

CONSTANTS here, elsewhere, repo, prebuilt, home, c1, c2

Slash == <<47>>
Colon == <<58>>
Hex   == <<50, 102>>      \* the bytes of "2f"

NoEnv == [n \in Singles \cup {"simulator-arg"} |-> Absent]

Launch(mode, firmware, build, extra, env) ==
    [task |-> "start-csm-proxy", mode |-> mode, firmware |-> firmware, board |-> Absent,
     build_firmware |-> build, listen |-> Absent, mcp_http |-> Absent, extra |-> extra,
     env |-> env]

\* A firmware that is built, behind an address from the environment and
\* simulator arguments that contradict the Session flags.
Built(build) ==
    Launch("stdio", repo, build, <<>>,
           [NoEnv EXCEPT !["listen"] = here,
                         !["simulator-arg"] = <<Flag("sim-grpc-addr", elsewhere),
                                                Flag("sim-instance-id", Colon)>>])
\* A prebuilt binary; an inherited CSM_SIMULATOR with a bare --mcp-http.
Http    == Launch("http", prebuilt, FALSE, <<Flag("auto-sleep", Bare)>>, NoEnv)
Inherit == Launch("stdio", Absent, FALSE, <<Flag("mcp-http", Bare)>>,
                  [NoEnv EXCEPT !["simulator"] = prebuilt])
\* A flag that start-csm-proxy has given already, one without its value, a bad id,
\* a bad path.
NoValue == Launch("stdio", Absent, FALSE, <<Flag("simulator", Bare)>>, NoEnv)
Twice   == Launch("http", prebuilt, FALSE, <<Flag("listen", elsewhere)>>, NoEnv)
BadId   == Launch("http", Absent, FALSE, <<Flag("default-instance", <<>>)>>, NoEnv)
NoPath  == Launch("http", elsewhere, FALSE, <<>>, NoEnv)
Coverage(html, open) == [task |-> "coverage", html |-> html, open |-> open]
Generate       == [task |-> "generate-sim-cpp"]

SomeScripts == {
    <<Coverage(FALSE, TRUE), Coverage(TRUE, FALSE), Coverage(FALSE, FALSE)>>, <<Generate, NoPath, Twice, NoValue, BadId>>,
    <<Built(FALSE), Built(TRUE)>>, <<Http>>, <<Inherit>>}

Ask(id, cwd, book, auto) == [id |-> id, cwd |-> cwd, sample_book |-> book, auto_sleep |-> auto]
Pair(x, y) == [c \in Starts |-> IF c = c1 THEN x ELSE y]

\* Two ids in hexadecimal, an id and the one its hexadecimal form is, and one id
\* twice, where the client names the directory or not.
Pairs == {
    Pair(Ask(Slash, Absent, Absent, Absent), Ask(Colon, Absent, FALSE, "no")),
    Pair(Ask(Slash, Absent, TRUE, Absent), Ask(Hex, Absent, TRUE, "yes")),
    Pair(Ask(Colon, home, TRUE, Absent),   Ask(Colon, home, FALSE, "no"))}
SomeIds == {Slash, Colon, Hex}
=============================================================================
