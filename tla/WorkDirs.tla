------------------------------ MODULE WorkDirs ------------------------------
(***************************************************************************)
(* What start_instance does outside the supervisor's lock (spawn.rs): the  *)
(* working directory of an instance, the book and the settings seeded in   *)
(* it, and the argv of the simulator that is started there.  Two starts    *)
(* run side by side, simulators save their own settings, and directories   *)
(* outlive simulators and proxies.                                         *)
(***************************************************************************)
EXTENDS Flags

CONSTANTS
    Ids,      \* valid instance ids: sequences of bytes
    Cwds,     \* the directories a client may name
    Starts,   \* start_instance calls, each made once
    Clients,  \* what the calls may ask for: functions from Starts to records of
              \* id, cwd, sample_book and auto_sleep
    MaxPid    \* bound on the simulators started

ASSUME WorkDirsAssumption ==
    /\ Ids \subseteq Seq(0..255)
    /\ MaxPid \in Nat
    /\ \A f \in Clients : \A c \in Starts :
          /\ f[c].id \in Ids /\ f[c].cwd \in Cwds \cup {Absent}
          /\ f[c].sample_book \in BOOLEAN \cup {Absent}

Alphanumeric == (48..57) \cup (65..90) \cup (97..122)
Plain(b)     == b \in Alphanumeric \cup {45, 46, 95}
PlainId(id)  == id # <<>> /\ \A i \in DOMAIN id : Plain(id[i])
HexDigit(n)  == IF n < 10 THEN 48 + n ELSE 87 + n

\* Mutant of safe_dir_name: what a path cannot hold becomes an underscore.
underscored(id) == [i \in DOMAIN id |-> IF Plain(id[i]) THEN id[i] ELSE 95]

\* Two hexadecimal digits for every byte.
Hexadecimal(id) ==
    [i \in 1..2 * Len(id) |->
        HexDigit(IF i % 2 = 1 THEN id[(i + 1) \div 2] \div 16 ELSE id[i \div 2] % 16)]

\* An id of letters, digits, dots, underscores and dashes as it is, any other
\* byte by byte in hexadecimal.
safe_dir_name(id) == IF PlainId(id) THEN id ELSE Hexadecimal(id)

default_cwd(id) == <<"csm-spawn", safe_dir_name(id)>>
Dirs == Cwds \cup {default_cwd(id) : id \in Ids}

VARIABLES
    disk,      \* what a directory holds
    starting,  \* Inner.starting
    children,  \* Inner.children: the process stored under an id, or 0
    call,      \* where a start is
    params,    \* what it was asked for
    alone,     \* history: no other simulator has run where it seeds since it did
    proc       \* the simulators started, in order

supervisorVars == <<starting, children>>
startVars      == <<call, params, alone>>
workVars       == <<disk, supervisorVars, startVars, proc>>

WorkDirsInit ==
    /\ disk = [d \in Dirs |-> [book |-> FALSE, settings |-> "none"]]
    /\ starting = {} /\ children = [id \in Ids |-> 0]
    /\ call = [c \in Starts |-> "idle"]
    /\ params \in Clients
    /\ alone = [c \in Starts |-> FALSE]
    /\ proc = <<>>

Pids == DOMAIN proc
Live(p) == proc[p].state \in {"running", "killed"}

\* The processes after the kill of those in S: it takes effect later.
Killed(S) ==
    [p \in Pids |-> IF p \in S /\ proc[p].state = "running"
                    THEN [proc[p] EXCEPT !.state = "killed"] ELSE proc[p]]

IdOf(c)    == params[c].id
workdir(c) == unwrap_or(params[c].cwd, default_cwd(IdOf(c)))
sample_book(c) == unwrap_or(params[c].sample_book, TRUE)
auto_sleep(c, conf) == unwrap_or(params[c].auto_sleep, conf.auto_sleep)

Goes(c, step) == call' = [call EXCEPT ![c] = step] /\ UNCHANGED params

\* An early return releases the id.
SpawnFailed(c) ==
    /\ Goes(c, "done")
    /\ starting' = starting \ {IdOf(c)}
    /\ UNCHANGED <<disk, children, alone, proc>>

\* start: refused when the id is connected, as it may always be; otherwise, when
\* a binary is configured and no start and no live child has the id, reserved.
start(c, conf) ==
    LET id    == IdOf(c)
        alive == children[id] # 0 /\ Live(children[id])
    IN  /\ call[c] = "idle"
        /\ \/ Goes(c, "done") /\ UNCHANGED supervisorVars
           \/ /\ conf.simulator # Absent /\ id \notin starting /\ ~alive
              /\ starting' = starting \cup {id}
              /\ children' = [children EXCEPT ![id] = 0]
              /\ Goes(c, "dir")
        /\ UNCHANGED <<disk, alone, proc>>

create_dir_all(c) ==
    /\ call[c] = "dir"
    /\ \/ Goes(c, "book") /\ UNCHANGED <<disk, supervisorVars, alone, proc>>
       \/ SpawnFailed(c)

seed_sample_book(c) ==
    /\ call[c] = "book"
    /\ \/ /\ disk' = [disk EXCEPT ![workdir(c)].book = @ \/ sample_book(c)]
          /\ Goes(c, "settings")
          /\ UNCHANGED <<supervisorVars, alone, proc>>
       \/ sample_book(c) /\ SpawnFailed(c)

\* Mutant of seed_never_sleep_settings: settings that are there are kept.
seed_if_missing(c, conf) ==
    /\ call[c] = "settings"
    /\ \/ /\ disk' = [disk EXCEPT ![workdir(c)].settings =
                        IF auto_sleep(c, conf) = "yes" \/ @ # "none" THEN @ ELSE "never"]
          /\ alone' = [alone EXCEPT ![c] = ~\E p \in Pids : Live(p) /\ proc[p].dir = workdir(c)]
          /\ Goes(c, "exec")
          /\ UNCHANGED <<supervisorVars, proc>>
       \/ auto_sleep(c, conf) = "no" /\ SpawnFailed(c)

seed_never_sleep_settings(c, conf) ==
    /\ call[c] = "settings"
    /\ \/ /\ disk' = [disk EXCEPT ![workdir(c)].settings =
                        IF auto_sleep(c, conf) = "yes" THEN @ ELSE "never"]
          /\ alone' = [alone EXCEPT ![c] = ~\E p \in Pids : Live(p) /\ proc[p].dir = workdir(c)]
          /\ Goes(c, "exec")
          /\ UNCHANGED <<supervisorVars, proc>>
       \/ auto_sleep(c, conf) = "no" /\ SpawnFailed(c)

\* Mutant of spawn_argv: the operator's extra arguments come last.
spawn_argv_extra_last(conf, id) ==
    <<Flag("sim-grpc-addr", conf.listen), Flag("sim-instance-id", id)>> \o conf.simulator_arg

\* The operator's extra arguments, then the Session flags.
spawn_argv(conf, id) ==
    conf.simulator_arg \o <<Flag("sim-grpc-addr", conf.listen), Flag("sim-instance-id", id)>>

\* The simulator is started in its directory and finds what is there.
spawn(c, conf, inc) ==
    /\ call[c] = "exec"
    /\ \/ /\ Len(proc) < MaxPid
          /\ proc' = Append(proc, [state |-> "running", inc |-> inc, start |-> c,
                                   dir |-> workdir(c), binary |-> conf.simulator,
                                   argv |-> spawn_argv(conf, IdOf(c)),
                                   found |-> disk[workdir(c)]])
          /\ alone' = [d \in Starts |-> alone[d] /\ (d = c \/ workdir(d) # workdir(c))]
          /\ Goes(c, "store")
          /\ UNCHANGED <<disk, supervisorVars>>
       \/ SpawnFailed(c)

\* The child is stored; one already there is dropped and so killed.
store(c) ==
    /\ call[c] = "store"
    /\ \E p \in Pids :
        /\ proc[p].start = c
        /\ children' = [children EXCEPT ![IdOf(c)] = p]
        /\ proc' = Killed({children[IdOf(c)]})
    /\ starting' = starting \ {IdOf(c)}
    /\ Goes(c, "done")
    /\ UNCHANGED <<disk, alone>>

\* What a start does between two awaits, once it is made.
Started(c, conf, inc) ==
    \/ create_dir_all(c) \/ seed_sample_book(c) \/ seed_never_sleep_settings(c, conf)
    \/ spawn(c, conf, inc) \/ store(c)

\* reap, from shutdown_instance, a start that failed, or reap_all.
reap(id) ==
    /\ starting' = starting \ {id}
    /\ children' = [children EXCEPT ![id] = 0]
    /\ proc' = Killed({children[id]})
    /\ UNCHANGED <<disk, startVars>>

\* A simulator exits, or saves settings of its own.
exit(p) ==
    /\ Live(p)
    /\ proc' = [proc EXCEPT ![p].state = "exited"]
    /\ UNCHANGED <<disk, supervisorVars, startVars>>
save_settings(p) ==
    /\ Live(p)
    /\ disk' = [disk EXCEPT ![proc[p].dir].settings = "own"]
    /\ UNCHANGED <<supervisorVars, startVars, proc>>
=============================================================================
