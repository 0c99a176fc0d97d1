-------------------------------- MODULE Flags --------------------------------
(***************************************************************************)
(* Command lines as the binaries of this repository read them: a flag in   *)
(* the argv, else its environment variable, else its default.              *)
(***************************************************************************)
EXTENDS Naturals, Sequences, FiniteSets

CONSTANTS
    Absent,   \* an optional value that was not given
    Bare      \* a flag given without its value

ASSUME FlagsAssumption == Absent # Bare

IsSequence(s) == s \in Seq({s[i] : i \in DOMAIN s})

unwrap_or(v, d) == IF v = Absent THEN d ELSE v

\* One flag of a command line, and where an argv has a flag.
Flag(name, value) == <<name, value>>
Positions(argv, name) == {i \in DOMAIN argv : argv[i][1] = name}
First(S) == CHOOSE i \in S : \A j \in S : i <= j

\* The values an argv gives to a flag, in order.
Values(argv, name) ==
    LET ps == Positions(argv, name) IN
    [n \in 1..Cardinality(ps) |->
        argv[CHOOSE i \in ps : Cardinality({j \in ps : j <= i}) = n][2]]

\* clap takes a flag with a single value at most once.
Repeated(argv, names) == \E n \in names : \E i, j \in Positions(argv, n) : i # j

\* The value of a flag: the argv wins over the environment.
arg(argv, env, name, default) ==
    IF Positions(argv, name) # {} THEN argv[First(Positions(argv, name))][2]
    ELSE unwrap_or(env[name], default)

\* A flag that repeats collects its values; the environment counts only when
\* the argv has none.
args(argv, env, name) ==
    IF Positions(argv, name) # {} THEN Values(argv, name) ELSE unwrap_or(env[name], <<>>)
=============================================================================
