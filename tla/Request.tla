------------------------------ MODULE Request ------------------------------
(***************************************************************************)
(* What a tool may rely on when it sends a request to a simulator,         *)
(* whatever the map, the waiters and the readers behind it do.  A request  *)
(* is put on at most one stream, at most once, behind everything that      *)
(* stream was given before; a request that is refused was not put          *)
(* anywhere, so the caller may try again; it is answered at most once,     *)
(* with a reply only after the simulator was given it; a caller that gives *)
(* up does not take the request back.                                      *)
(***************************************************************************)
EXTENDS Sequences

CONSTANTS
    Requests,   \* the requests, each made once
    Streams,    \* the Session streams
    NoStream    \* no stream: the request was not sent

\* Why a request was not sent, and why no reply came to one that was.
Refusals == {"EmptyId", "UnknownInstance", "QueueFull"}
Failures == {"Timeout", "Disconnected"}
Answers  == {"none", "queued", "reply"} \cup Refusals \cup Failures

VARIABLES
    stream,     \* the stream that was given the request
    queue,      \* the requests a stream holds, oldest first
    taken,      \* the requests a simulator was given
    answer      \* what the caller was told

requestVars == <<stream, queue, taken, answer>>

Init ==
    /\ stream = [r \in Requests |-> NoStream]
    /\ queue = [t \in Streams |-> <<>>]
    /\ taken = [t \in Streams |-> {}]
    /\ answer = [r \in Requests |-> "none"]

New(r)     == stream[r] = NoStream /\ answer[r] = "none"
Pending(r) == stream[r] # NoStream /\ answer[r] = "none"
Answer(r, a) == answer' = [answer EXCEPT ![r] = a]

Put(r, t) ==
    /\ New(r)
    /\ stream' = [stream EXCEPT ![r] = t]
    /\ queue' = [queue EXCEPT ![t] = Append(@, r)]
    /\ UNCHANGED taken

\* The request is put on a stream, and its caller waits.
Send(r, t) == Put(r, t) /\ UNCHANGED answer

\* The request is put on a stream, and its caller goes on.
Fire(r, t) == Put(r, t) /\ Answer(r, "queued")

\* The caller of a request that was sent is told so, without a reply.
Confirm(r) == Pending(r) /\ Answer(r, "queued") /\ UNCHANGED <<stream, queue, taken>>

Refuse(r) ==
    /\ New(r)
    /\ \E a \in Refusals : Answer(r, a)
    /\ UNCHANGED <<stream, queue, taken>>

\* The simulator at the other end is given the oldest request.
Take(t) ==
    /\ queue[t] # <<>>
    /\ taken' = [taken EXCEPT ![t] = @ \cup {Head(queue[t])}]
    /\ queue' = [queue EXCEPT ![t] = Tail(@)]
    /\ UNCHANGED <<stream, answer>>

\* The connection breaks and takes what it holds along.
Lose(t) == queue' = [queue EXCEPT ![t] = <<>>] /\ UNCHANGED <<stream, taken, answer>>

\* The simulator's reply reaches the caller.
Reply(r) ==
    /\ Pending(r)
    /\ r \in taken[stream[r]]
    /\ Answer(r, "reply")
    /\ UNCHANGED <<stream, queue, taken>>

GiveUp(r) ==
    /\ Pending(r)
    /\ \E a \in Failures : Answer(r, a)
    /\ UNCHANGED <<stream, queue, taken>>

Next ==
    \/ \E r \in Requests :
          \/ Confirm(r) \/ Refuse(r) \/ Reply(r) \/ GiveUp(r)
          \/ \E t \in Streams : Send(r, t) \/ Fire(r, t)
    \/ \E t \in Streams : Take(t) \/ Lose(t)

Spec == Init /\ [][Next]_requestVars
=============================================================================
