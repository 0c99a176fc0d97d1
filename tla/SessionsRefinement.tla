------------------------- MODULE SessionsRefinement -------------------------
(***************************************************************************)
(* The session hop keeps the contract of Request, for every number of      *)
(* ids, streams, calls and envelopes: the initial states are initial       *)
(* states of Request, and every step is a step of Request or changes       *)
(* nothing a caller sees.                                                  *)
(***************************************************************************)
EXTENDS SessionsProofs

\* The call a corr names, where `f` holds the corrs of the calls.
NameOf(f, k) == CHOOSE c \in Calls : f[c] = k

\* A corr that only one call has names that call.
LEMMA Named ==
    ASSUME NEW f, NEW c \in Calls, \A d \in Calls : f[d] = f[c] => d = c
    PROVE  NameOf(f, f[c]) = c
  BY DEF NameOf

\* The queues of the requests, before a step and after it.
LEMMA Queues ==
    /\ RequestQueue = [t \in Tokens |-> [i \in DOMAIN outbound[t] |-> NameOf(corr, outbound[t][i])]]
    /\ RequestQueue' = [t \in Tokens |-> [i \in DOMAIN outbound'[t] |-> NameOf(corr', outbound'[t][i])]]
  BY DEF RequestQueue, CallOf, NameOf

\* The initial states of the session hop are those of Request.
LEMMA InitRefines == Init => R!Init
<1> SUFFICES ASSUME Init PROVE R!Init
  OBVIOUS
<1>1. RequestQueue = [t \in Tokens |-> <<>>]
  BY DEF RequestQueue, Init
<1>2. RequestTaken = [t \in Tokens |-> {}]
  BY DEF RequestTaken, Init
<1>3. RequestAnswer = [c \in Calls |-> "none"]
  BY DEF RequestAnswer, Init
<1> QED
  BY <1>1, <1>2, <1>3 DEF R!Init, Init

\* What the callers see when a call ends with a result.
LEMMA Ended ==
    ASSUME TypeOK, NEW c \in Calls, NEW a, cpc[c] # "done",
           cpc' = [cpc EXCEPT ![c] = "done"], result'[c] = a,
           \A d \in Calls : d # c => result'[d] = result[d]
    PROVE  R!Answer(c, a) /\ RequestAnswer[c] = "none"
  BY DEF R!Answer, RequestAnswer, TypeOK, CallTypes

\* The callers see nothing when no call ends.
LEMMA NoneEnded ==
    ASSUME TypeOK, \A d \in Calls : cpc'[d] = "done" <=> cpc[d] = "done",
           \A d \in Calls : cpc[d] = "done" => result'[d] = result[d]
    PROVE  UNCHANGED RequestAnswer
  BY DEF RequestAnswer, TypeOK, CallTypes

\* Only resolve_or_default and enqueue give a call its corr, the next one, and
\* only to a call that has none and has sent nothing.
LEMMA CorrIssued ==
    ASSUME IInv, [Next]_vars
    PROVE  \A d \in Calls : corr'[d] # corr[d] =>
              sentOn[d] = 0 /\ corr[d] = 0 /\ corr'[d] = nextCorr
<1> USE DEF mapVars, fieldVars, viewVars, channelVars, waiterVars, readerVars, requestVars,
            replyVars, callVars
<1>0. TypeOK /\ Numbered /\ Sent
  BY DEF IInv, Routing
<1>1. ASSUME NEW c \in Calls, NEW sel \in Selectors, resolve_or_default(c, sel)
      PROVE  \A d \in Calls : corr'[d] # corr[d] =>
                sentOn[d] = 0 /\ corr[d] = 0 /\ corr'[d] = nextCorr
  BY <1>0, <1>1 DEF resolve_or_default, next_corr, Numbered, Before, Sent, Unsent, TypeOK, CallTypes
<1>2. ASSUME NEW c \in Calls, enqueue(c)
      PROVE  \A d \in Calls : corr'[d] # corr[d] =>
                sentOn[d] = 0 /\ corr[d] = 0 /\ corr'[d] = nextCorr
  BY <1>0, <1>2 DEF enqueue, next_corr, Numbered, Before, Sent, Unsent, TypeOK, CallTypes
<1>3. CASE UNCHANGED corr
  BY <1>3
<1>4. ASSUME NEW id \in Ids, session(id) \/ try_recv_inbound(id)
      PROVE  UNCHANGED corr
  BY <1>4 DEF session, try_recv_inbound
<1>5. ASSUME NEW t \in Tokens, insert(t) \/ owns(t) \/ set_heartbeat(t) \/
   complete_waiter(t) \/ notify(t) \/ push_inbound(t) \/ remove_if(t) \/ fail_waiters(t) \/
   take_waiter(t) \/ reader_done(t) \/ next(t) \/ end_of_stream(t) \/ deliver(t) \/
   hangup(t) \/ (\E k \in Corrs : take_waiter_instance(t, k))
      PROVE  UNCHANGED corr
  BY <1>5 DEF insert, owns, set_heartbeat, complete_waiter, notify, push_inbound, remove_if,
     fail_waiters, take_waiter_instance, take_waiter, reader_done, next, end_of_stream,
     deliver, hangup
<1>6. ASSUME NEW c \in Calls, get(c) \/ register_waiter(c) \/ tag_waiter(c) \/ try_send(c)
   \/ receive(c) \/ expire(c) \/ untag_waiter(c) \/ unregister_waiter(c) \/ set_read_mask(c)
   \/ set_exclude_log_components(c)
      PROVE  UNCHANGED corr
  BY <1>6 DEF get, register_waiter, tag_waiter, try_send, receive, expire, untag_waiter,
     unregister_waiter, set_read_mask, set_exclude_log_components
<1> QED
  BY <1>1, <1>2, <1>3, <1>4, <1>5, <1>6 DEF Next, Reader, Peer, Call, vars

\* What a stream carries names one call, before the step and after it.
LEMMA Carried ==
    ASSUME IInv, [Next]_vars, NEW t \in Tokens, NEW k \in delivered[t] \cup ToSet(outbound[t])
    PROVE  /\ NameOf(corr, k) \in Calls /\ corr[NameOf(corr, k)] = k
           /\ NameOf(corr', k) = NameOf(corr, k)
           /\ k # 0 /\ k < nextCorr
<1>0. TypeOK /\ Numbered /\ Channels /\ Numbered'
  BY Inductive DEF IInv, Routing
<1>1. k \in Corrs
  BY <1>0, SequenceElements DEF TypeOK, ChannelTypes, ToSet
<1>2. PICK c \in Calls : corr[c] = k /\ sentOn[c] = t
  BY <1>0 DEF Channels
<1>3. corr'[c] = k
  BY <1>2, CorrIssued, Numbers
<1>4. \A d \in Calls : corr[d] = corr[c] => d = c
  BY <1>0, <1>1, <1>2, Numbers DEF Numbered
<1>5. \A d \in Calls : corr'[d] = corr'[c] => d = c
  BY <1>0, <1>1, <1>3, Numbers DEF Numbered
<1>6. NameOf(corr, k) = c
  BY <1>2, <1>4, Named
<1>7. NameOf(corr', k) = c
  BY <1>3, <1>5, Named
<1> QED
  BY <1>0, <1>1, <1>2, <1>6, <1>7, Numbers DEF Numbered

\* What the simulators were given changes only when something is delivered.
LEMMA TakenKept ==
    ASSUME IInv, [Next]_vars, UNCHANGED delivered
    PROVE  UNCHANGED RequestTaken
<1>1. ASSUME NEW t \in Tokens, NEW c \in Calls
      PROVE  corr'[c] \in delivered'[t] <=> corr[c] \in delivered[t]
  <2>1. CASE corr'[c] = corr[c]
    BY <2>1
  <2>2. CASE corr'[c] # corr[c]
    <3>1. corr[c] = 0 /\ corr'[c] = nextCorr /\ nextCorr \in Nat
      BY <2>2, CorrIssued, Numbers DEF IInv, TypeOK, CallTypes
    <3>2. \A k \in delivered[t] : k # 0 /\ k < nextCorr
      BY Carried
    <3> QED
      BY <3>1, <3>2
  <2> QED
    BY <2>1, <2>2
<1> QED
  BY <1>1 DEF RequestTaken

\* The queue a stream holds, as the callers see it, is a sequence of calls.
LEMMA QueueOf ==
    ASSUME IInv, [Next]_vars, NEW t \in Tokens
    PROVE  /\ outbound[t] \in Seq(Corrs)
           /\ Len(outbound[t]) \in Nat /\ DOMAIN outbound[t] = 1..Len(outbound[t])
           /\ RequestQueue[t] \in Seq(Calls) /\ Len(RequestQueue[t]) = Len(outbound[t])
           /\ \A i \in 1..Len(outbound[t]) :
                 /\ RequestQueue[t][i] = NameOf(corr, outbound[t][i])
                 /\ RequestQueue[t][i] = NameOf(corr', outbound[t][i])
<1>1. /\ outbound[t] \in Seq(Corrs)
      /\ Len(outbound[t]) \in Nat /\ DOMAIN outbound[t] = 1..Len(outbound[t])
  BY LenProperties DEF IInv, TypeOK, ChannelTypes
<1>2. \A i \in 1..Len(outbound[t]) : outbound[t][i] \in ToSet(outbound[t])
  BY <1>1 DEF ToSet
<1>3. ASSUME NEW i \in 1..Len(outbound[t])
      PROVE  /\ NameOf(corr, outbound[t][i]) \in Calls
             /\ NameOf(corr', outbound[t][i]) = NameOf(corr, outbound[t][i])
  BY <1>2, Carried
<1>4. RequestQueue[t] = [i \in 1..Len(outbound[t]) |-> NameOf(corr, outbound[t][i])]
  BY <1>1, Queues
<1>5. RequestQueue[t] \in Seq(Calls) /\ Len(RequestQueue[t]) = Len(outbound[t])
  BY <1>1, <1>3, <1>4
<1> QED
  BY <1>1, <1>3, <1>4, <1>5

\* A channel that is left alone is left alone in the callers' eyes.
LEMMA QueueKept ==
    ASSUME IInv, [Next]_vars, NEW t \in Tokens, outbound'[t] = outbound[t]
    PROVE  RequestQueue'[t] = RequestQueue[t]
<1>1. RequestQueue'[t] = [i \in 1..Len(outbound[t]) |-> NameOf(corr', outbound[t][i])]
  BY Queues, QueueOf
<1>2. RequestQueue[t] = [i \in 1..Len(outbound[t]) |-> NameOf(corr, outbound[t][i])]
  BY Queues, QueueOf
<1> QED
  BY <1>1, <1>2, QueueOf

\* An envelope behind the others is a request behind the others.
LEMMA QueueAppended ==
    ASSUME IInv, [Next]_vars, NEW t \in Tokens, NEW c \in Calls, corr[c] \in Corrs,
           corr' = corr, outbound'[t] = Append(outbound[t], corr[c])
    PROVE  RequestQueue'[t] = Append(RequestQueue[t], c)
<1> DEFINE n == Len(outbound[t])
           q == RequestQueue[t]
<1>1. NameOf(corr', corr[c]) = c
  <2>1. \A d \in Calls : corr[d] = corr[c] => d = c
    BY Numbers DEF IInv, Routing, Numbered
  <2> QED
    BY <2>1, Named
<1>2. /\ n \in Nat /\ q \in Seq(Calls) /\ Len(q) = n
      /\ \A i \in 1..n : q[i] = NameOf(corr', outbound[t][i])
  BY QueueOf
<1>3. /\ DOMAIN outbound'[t] = 1..(n + 1) /\ outbound'[t][n + 1] = corr[c]
      /\ \A i \in 1..n : outbound'[t][i] = outbound[t][i]
  BY QueueOf, AppendProperties
<1>4. RequestQueue'[t] = [i \in 1..(n + 1) |-> NameOf(corr', outbound'[t][i])]
  BY <1>3, Queues
<1>5. /\ Append(q, c) \in Seq(Calls) /\ Len(Append(q, c)) = n + 1
      /\ \A i \in 1..n : Append(q, c)[i] = q[i]
      /\ Append(q, c)[n + 1] = c
  BY <1>2, AppendProperties
<1> HIDE DEF q, n
<1>6. \A i \in 1..(n + 1) : RequestQueue'[t][i] = Append(q, c)[i]
  BY <1>1, <1>2, <1>3, <1>4, <1>5
<1>7. Append(q, c) = [i \in 1..(n + 1) |-> Append(q, c)[i]]
  <2> DEFINE a == Append(q, c)
  <2>1. a \in Seq(Calls) /\ Len(a) = n + 1
    BY <1>5
  <2> HIDE DEF a
  <2>2. a = [i \in 1..(n + 1) |-> a[i]]
    BY <2>1, LenProperties
  <2> QED
    BY <2>2 DEF a
<1> QED
  BY <1>4, <1>6, <1>7 DEF q

\* The envelope that leaves a channel is the oldest request.
LEMMA QueueTaken ==
    ASSUME IInv, [Next]_vars, NEW t \in Tokens, outbound[t] # <<>>,
           outbound'[t] = Tail(outbound[t])
    PROVE  /\ RequestQueue[t] # <<>>
           /\ Head(RequestQueue[t]) = NameOf(corr, Head(outbound[t]))
           /\ RequestQueue'[t] = Tail(RequestQueue[t])
<1> DEFINE n == Len(outbound[t])
           q == RequestQueue[t]
<1>1. /\ n \in Nat /\ q \in Seq(Calls) /\ Len(q) = n /\ outbound[t] \in Seq(Corrs)
      /\ \A i \in 1..n : /\ q[i] = NameOf(corr', outbound[t][i])
                         /\ q[i] = NameOf(corr, outbound[t][i])
  BY QueueOf
<1>2. n > 0 /\ Head(outbound[t]) = outbound[t][1]
  BY <1>1, EmptySeq, HeadTailProperties
<1>3. /\ DOMAIN outbound'[t] = 1..(n - 1)
      /\ \A i \in 1..(n - 1) : outbound'[t][i] = outbound[t][i + 1]
  <2>1. /\ Tail(outbound[t]) \in Seq(Corrs) /\ Len(Tail(outbound[t])) = n - 1
        /\ \A i \in 1..(n - 1) : Tail(outbound[t])[i] = outbound[t][i + 1]
    BY <1>1, HeadTailProperties
  <2> QED
    BY <2>1, LenProperties
<1>4. RequestQueue'[t] = [i \in 1..(n - 1) |-> NameOf(corr', outbound'[t][i])]
  BY <1>3, Queues
<1> HIDE DEF n, q
<1>5. q # <<>> /\ Head(q) = q[1]
  BY <1>1, <1>2, EmptySeq, HeadTailProperties
<1>6. /\ Tail(q) \in Seq(Calls) /\ Len(Tail(q)) = n - 1
      /\ \A i \in 1..(n - 1) : Tail(q)[i] = q[i + 1]
  BY <1>1, <1>5, HeadTailProperties
<1>7. \A i \in 1..(n - 1) : RequestQueue'[t][i] = Tail(q)[i]
  <2>1. ASSUME NEW i \in 1..(n - 1) PROVE RequestQueue'[t][i] = Tail(q)[i]
    <3>1. i + 1 \in 1..n
      BY <1>1
    <3> QED
      BY <1>1, <1>3, <1>4, <1>6, <3>1
  <2> QED
    BY <2>1
<1>8. Tail(q) = [i \in 1..(n - 1) |-> Tail(q)[i]]
  BY <1>6, LenProperties
<1>9. Head(q) = NameOf(corr, Head(outbound[t]))
  BY <1>1, <1>2, <1>5
<1>10. RequestQueue'[t] = Tail(q)
  BY <1>4, <1>7, <1>8
<1> QED
  BY <1>5, <1>9, <1>10 DEF q

\* A step that leaves the channels alone leaves the queues alone.
LEMMA ChannelsKept ==
    ASSUME IInv, [Next]_vars, UNCHANGED <<outbound, delivered>>
    PROVE  UNCHANGED <<RequestQueue, RequestTaken>>
<1>1. \A t \in Tokens : RequestQueue'[t] = RequestQueue[t]
  BY QueueKept
<1>2. RequestQueue = [t \in Tokens |-> RequestQueue[t]]
  BY Queues
<1>3. RequestQueue' = [t \in Tokens |-> RequestQueue'[t]]
  BY Queues
<1> QED
  BY <1>1, <1>2, <1>3, TakenKept

\* Where a call ends without having been sent, its caller is refused.
LEMMA Refusal ==
    ASSUME IInv, [Next]_vars, UNCHANGED <<outbound, delivered, sentOn>>, NEW c \in Calls,
           sentOn[c] = 0, R!Answer(c, result'[c]), RequestAnswer[c] = "none",
           result'[c] \in R!Refusals
    PROVE  R!Next
<1>1. R!Refuse(c)
  BY ChannelsKept DEF R!Refuse, R!New
<1> QED
  BY <1>1 DEF R!Next

\* Where the callers see nothing.
LEMMA Stutter ==
    ASSUME IInv, [Next]_vars, UNCHANGED <<outbound, delivered, sentOn>>, UNCHANGED RequestAnswer
    PROVE  UNCHANGED R!requestVars
  BY ChannelsKept DEF R!requestVars

\* Every step of the session hop is a step of Request, or none.
LEMMA StepRefines == IInv /\ [Next]_vars => [R!Next]_R!requestVars
<1> SUFFICES ASSUME IInv, [Next]_vars PROVE [R!Next]_R!requestVars
  OBVIOUS
<1> USE DEF mapVars, fieldVars, viewVars, channelVars, waiterVars, readerVars, requestVars,
            replyVars, callVars
<1>0. /\ TypeOK /\ Opened /\ Numbered /\ Steps /\ Sent /\ Channels /\ Slots /\ Outcome
      /\ \A t \in Tokens : t # 0
  BY Numbers DEF IInv, Routing, Replies
<1>1. ASSUME NEW c \in Calls, NEW sel \in Selectors, resolve_or_default(c, sel)
      PROVE  [R!Next]_R!requestVars
  <2>1. UNCHANGED <<outbound, delivered, sentOn>> /\ sentOn[c] = 0 /\ cpc[c] = "idle"
    BY <1>0, <1>1 DEF resolve_or_default, Sent, Unsent
  <2>2. CASE \E r \in {"EmptyId", "UnknownInstance"} : Finish(c, r)
    <3>1. PICK r \in {"EmptyId", "UnknownInstance"} : Finish(c, r)
      BY <2>2
    <3>2. R!Answer(c, r) /\ RequestAnswer[c] = "none" /\ result'[c] = r
      BY <1>0, <2>1, <3>1, Ended DEF Finish, TypeOK, CallTypes
    <3> QED
      BY <2>1, <3>2, Refusal DEF R!Refusals
  <2>3. CASE /\ \E p \in {"enqueue", "get", "send"} : cpc' = [cpc EXCEPT ![c] = p]
             /\ UNCHANGED result
    <3>1. UNCHANGED RequestAnswer
      BY <1>0, <2>1, <2>3, NoneEnded DEF TypeOK, CallTypes
    <3> QED
      BY <2>1, <3>1, Stutter
  <2> QED
    BY <1>1, <2>2, <2>3 DEF resolve_or_default
<1>2. ASSUME NEW c \in Calls, enqueue(c) \/ get(c) PROVE [R!Next]_R!requestVars
  <2>1. /\ UNCHANGED <<outbound, delivered, sentOn>> /\ sentOn[c] = 0
        /\ cpc[c] \in {"enqueue", "get"}
    BY <1>0, <1>2 DEF enqueue, get, Sent, Unsent
  <2>2. CASE Finish(c, "UnknownInstance")
    <3>1. /\ R!Answer(c, "UnknownInstance") /\ RequestAnswer[c] = "none"
          /\ result'[c] = "UnknownInstance"
      BY <1>0, <2>1, <2>2, Ended DEF Finish, TypeOK, CallTypes
    <3> QED
      BY <2>1, <3>1, Refusal DEF R!Refusals
  <2>3. CASE /\ \E p \in {"send", "register"} : cpc' = [cpc EXCEPT ![c] = p]
             /\ UNCHANGED result
    <3>1. UNCHANGED RequestAnswer
      BY <1>0, <2>1, <2>3, NoneEnded DEF TypeOK, CallTypes
    <3> QED
      BY <2>1, <3>1, Stutter
  <2> QED
    BY <1>2, <2>2, <2>3 DEF enqueue, get
<1>3. ASSUME NEW c \in Calls, register_waiter(c) \/ tag_waiter(c) \/ expire(c) \/ untag_waiter(c)
                              \/ set_read_mask(c)
      PROVE  [R!Next]_R!requestVars
  <2>1. UNCHANGED <<outbound, delivered, sentOn>>
    BY <1>3 DEF register_waiter, tag_waiter, expire, untag_waiter, set_read_mask
  <2>2. /\ \A d \in Calls : cpc'[d] = "done" <=> cpc[d] = "done"
        /\ \A d \in Calls : cpc[d] = "done" => result'[d] = result[d]
    BY <1>0, <1>3 DEF register_waiter, tag_waiter, expire, untag_waiter, set_read_mask, TypeOK,
       CallTypes
  <2>3. UNCHANGED RequestAnswer
    BY <1>0, <2>2, NoneEnded
  <2> QED
    BY <2>1, <2>3, Stutter
<1>4. ASSUME NEW c \in Calls, try_send(c) PROVE [R!Next]_R!requestVars
  <2>1. cpc[c] = "send" /\ sentOn[c] = 0 /\ UNCHANGED <<delivered, corr>> /\ corr[c] \in Corrs
    BY <1>0, <1>4, TrySend DEF try_send, Sent, Unsent
  <2>2. UNCHANGED RequestTaken
    BY <2>1, TakenKept
  <2>3. CASE /\ UNCHANGED <<outbound, sentOn>>
             /\ cpc' = [cpc EXCEPT ![c] = Refused(c)]
             /\ \E r \in {"UnknownInstance", "QueueFull"} : result' = [result EXCEPT ![c] = r]
    <3>1. CASE Refused(c) = "done"
      <4>1. /\ R!Answer(c, result'[c]) /\ RequestAnswer[c] = "none"
            /\ result'[c] \in {"UnknownInstance", "QueueFull"}
        BY <1>0, <2>1, <2>3, <3>1, Ended DEF TypeOK, CallTypes
      <4> QED
        BY <2>1, <2>3, <4>1, Refusal DEF R!Refusals
    <3>2. CASE Refused(c) # "done"
      <4>1. UNCHANGED RequestAnswer
        BY <1>0, <2>1, <2>3, <3>2, NoneEnded DEF TypeOK, CallTypes
      <4> QED
        BY <2>1, <2>3, <4>1, Stutter
    <3> QED
      BY <3>1, <3>2
  <2>4. ASSUME NEW t \in Tokens,
               outbound' = [outbound EXCEPT ![t] = Append(outbound[t], corr[c])],
               sentOn' = [sentOn EXCEPT ![c] = t],
               cpc' = [cpc EXCEPT ![c] = Accepted(c)],
               result' = IF op[c].tag = "send" THEN [result EXCEPT ![c] = "queued"] ELSE result
        PROVE  [R!Next]_R!requestVars
    <3>1. RequestQueue' = [RequestQueue EXCEPT ![t] = Append(@, c)]
      <4>1. RequestQueue'[t] = Append(RequestQueue[t], c)
        BY <1>0, <2>1, <2>4, QueueAppended DEF TypeOK, ChannelTypes
      <4>2. \A u \in Tokens : u # t => RequestQueue'[u] = RequestQueue[u]
        BY <1>0, <2>4, QueueKept DEF TypeOK, ChannelTypes
      <4>3. /\ RequestQueue = [u \in Tokens |-> RequestQueue[u]]
            /\ RequestQueue' = [u \in Tokens |-> RequestQueue'[u]]
        BY Queues
      <4> QED
        BY <4>1, <4>2, <4>3
    <3>2. RequestAnswer[c] = "none"
      BY <2>1 DEF RequestAnswer
    <3>3. R!Put(c, t)
      BY <2>1, <2>2, <2>4, <3>1, <3>2 DEF R!Put, R!New
    <3>4. CASE op[c].tag = "send"
      <4>1. Accepted(c) = "done"
        BY <3>4 DEF Accepted
      <4>2. R!Answer(c, "queued")
        BY <1>0, <2>1, <2>4, <3>4, <4>1, Ended DEF TypeOK, CallTypes
      <4>3. R!Fire(c, t)
        BY <3>3, <4>2 DEF R!Fire
      <4> QED
        BY <4>3 DEF R!Next
    <3>5. CASE op[c].tag # "send"
      <4>1. Accepted(c) # "done"
        BY <1>0, <3>5, OpFields DEF Accepted
      <4>2. UNCHANGED RequestAnswer
        BY <1>0, <2>1, <2>4, <3>5, <4>1, NoneEnded DEF TypeOK, CallTypes
      <4>3. R!Send(c, t)
        BY <3>3, <4>2 DEF R!Send
      <4> QED
        BY <4>3 DEF R!Next
    <3> QED
      BY <3>4, <3>5
  <2> QED
    BY <1>0, <1>4, <2>3, <2>4, TrySend
<1>5. ASSUME NEW c \in Calls, receive(c) PROVE [R!Next]_R!requestVars
  <2>1. /\ UNCHANGED <<outbound, delivered, sentOn>> /\ cpc[c] = "await" /\ sentOn[c] # 0
        /\ sentOn[c] \in Tokens
        /\ Finish(c, IF slot[c] = "reply" THEN "reply" ELSE "Disconnected")
    BY <1>0, <1>5, Numbers DEF receive, Sent, TypeOK, CallTypes
  <2>2. /\ R!Answer(c, IF slot[c] = "reply" THEN "reply" ELSE "Disconnected")
        /\ RequestAnswer[c] = "none"
    BY <1>0, <2>1, Ended DEF Finish, TypeOK, CallTypes
  <2>3. CASE slot[c] = "reply"
    <3>1. c \in RequestTaken[sentOn[c]]
      BY <1>0, <2>1, <2>3 DEF Slots, RequestTaken
    <3>2. R!Reply(c)
      BY <2>1, <2>2, <2>3, <3>1, ChannelsKept DEF R!Reply, R!Pending
    <3> QED
      BY <3>2 DEF R!Next
  <2>4. CASE slot[c] # "reply"
    <3>1. R!GiveUp(c)
      BY <2>1, <2>2, <2>4, ChannelsKept DEF R!GiveUp, R!Pending, R!Failures
    <3> QED
      BY <3>1 DEF R!Next
  <2> QED
    BY <2>3, <2>4
<1>6. ASSUME NEW c \in Calls, unregister_waiter(c) PROVE [R!Next]_R!requestVars
  <2>1. /\ UNCHANGED <<outbound, delivered, sentOn, result>> /\ cpc[c] = "unregister"
        /\ cpc' = [cpc EXCEPT ![c] = "done"]
    BY <1>6 DEF unregister_waiter
  <2>2. R!Answer(c, result[c]) /\ RequestAnswer[c] = "none"
    BY <1>0, <2>1, Ended
  <2>3. CASE result[c] \in {"UnknownInstance", "QueueFull"} /\ sentOn[c] = 0
    BY <2>1, <2>2, <2>3, Refusal DEF R!Refusals
  <2>4. CASE result[c] = "Timeout" /\ sentOn[c] # 0
    <3>1. R!GiveUp(c)
      BY <2>1, <2>2, <2>4, ChannelsKept DEF R!GiveUp, R!Pending, R!Failures
    <3> QED
      BY <3>1 DEF R!Next
  <2> QED
    BY <1>0, <2>1, <2>3, <2>4 DEF Outcome
<1>7. ASSUME NEW c \in Calls, set_exclude_log_components(c) PROVE [R!Next]_R!requestVars
  <2>1. /\ UNCHANGED <<outbound, delivered, sentOn>> /\ cpc[c] = "exclude" /\ sentOn[c] # 0
        /\ Finish(c, "queued")
    BY <1>0, <1>7 DEF set_exclude_log_components, Sent
  <2>2. R!Answer(c, "queued") /\ RequestAnswer[c] = "none"
    BY <1>0, <2>1, Ended DEF Finish, TypeOK, CallTypes
  <2>3. R!Confirm(c)
    BY <2>1, <2>2, ChannelsKept DEF R!Confirm, R!Pending
  <2> QED
    BY <2>3 DEF R!Next
<1>8. ASSUME NEW t \in Tokens, deliver(t) PROVE [R!Next]_R!requestVars
  <2> DEFINE k == Head(outbound[t])
  <2>1. /\ outbound[t] # <<>> /\ UNCHANGED <<sentOn, cpc, result, corr>>
        /\ delivered' = [delivered EXCEPT ![t] = @ \cup {k}]
        /\ outbound' = [outbound EXCEPT ![t] = Tail(@)]
    BY <1>8 DEF deliver
  <2>2. k \in ToSet(outbound[t])
    BY <1>0, <2>1, SequenceElements DEF TypeOK, ChannelTypes
  <2>3. /\ RequestQueue[t] # <<>> /\ Head(RequestQueue[t]) = NameOf(corr, k)
        /\ RequestQueue'[t] = Tail(RequestQueue[t])
    BY <1>0, <2>1, QueueTaken DEF TypeOK, ChannelTypes
  <2>4. \A u \in Tokens : u # t => RequestQueue'[u] = RequestQueue[u]
    BY <1>0, <2>1, QueueKept DEF TypeOK, ChannelTypes
  <2>5. /\ NameOf(corr, k) \in Calls
        /\ \A c \in Calls : corr[c] = k <=> c = NameOf(corr, k)
    BY <1>0, <2>2, Carried DEF Numbered
  <2> HIDE DEF k
  <2>6. RequestTaken' = [RequestTaken EXCEPT ![t] = @ \cup {NameOf(corr, k)}]
    <3>1. ASSUME NEW u \in Tokens
          PROVE  RequestTaken'[u] = IF u = t THEN RequestTaken[u] \cup {NameOf(corr, k)}
                                    ELSE RequestTaken[u]
      BY <1>0, <2>1, <2>5 DEF RequestTaken, TypeOK, ChannelTypes
    <3> QED
      BY <3>1 DEF RequestTaken
  <2>7. RequestQueue' = [RequestQueue EXCEPT ![t] = Tail(@)]
    <3>1. /\ RequestQueue = [u \in Tokens |-> RequestQueue[u]]
          /\ RequestQueue' = [u \in Tokens |-> RequestQueue'[u]]
      BY Queues
    <3> QED
      BY <2>3, <2>4, <3>1
  <2>8. UNCHANGED RequestAnswer
    BY <1>0, <2>1, NoneEnded
  <2>9. R!Take(t)
    BY <2>1, <2>3, <2>6, <2>7, <2>8 DEF R!Take
  <2> QED
    BY <2>9 DEF R!Next
<1>9. ASSUME NEW t \in Tokens, hangup(t) PROVE [R!Next]_R!requestVars
  <2>1. /\ UNCHANGED <<delivered, sentOn, cpc, result, corr>>
        /\ outbound' = [outbound EXCEPT ![t] = <<>>]
    BY <1>9 DEF hangup
  <2>2. RequestQueue'[t] = <<>>
    BY <1>0, <2>1, Queues DEF TypeOK, ChannelTypes
  <2>3. \A u \in Tokens : u # t => RequestQueue'[u] = RequestQueue[u]
    BY <1>0, <2>1, QueueKept DEF TypeOK, ChannelTypes
  <2>4. RequestQueue' = [RequestQueue EXCEPT ![t] = <<>>]
    <3>1. /\ RequestQueue = [u \in Tokens |-> RequestQueue[u]]
          /\ RequestQueue' = [u \in Tokens |-> RequestQueue'[u]]
      BY Queues
    <3> QED
      BY <2>2, <2>3, <3>1
  <2>5. UNCHANGED RequestAnswer
    BY <1>0, <2>1, NoneEnded
  <2>6. R!Lose(t)
    BY <2>1, <2>4, <2>5, TakenKept DEF R!Lose
  <2> QED
    BY <2>6 DEF R!Next
<1>10. CASE UNCHANGED <<outbound, delivered, sentOn, cpc, result>>
  BY <1>0, <1>10, NoneEnded, Stutter
<1>11. ASSUME NEW id \in Ids, session(id) \/ try_recv_inbound(id)
      PROVE  UNCHANGED <<outbound, delivered, sentOn, cpc, result>>
  BY <1>11 DEF session, try_recv_inbound
<1>12. ASSUME NEW t \in Tokens, insert(t) \/ owns(t) \/ set_heartbeat(t) \/
   complete_waiter(t) \/ notify(t) \/ push_inbound(t) \/ remove_if(t) \/ fail_waiters(t) \/
   take_waiter(t) \/ reader_done(t) \/ next(t) \/ end_of_stream(t) \/ (\E k \in Corrs :
   take_waiter_instance(t, k))
      PROVE  UNCHANGED <<outbound, delivered, sentOn, cpc, result>>
  BY <1>12 DEF insert, owns, set_heartbeat, complete_waiter, notify, push_inbound,
     remove_if, fail_waiters, take_waiter_instance, take_waiter, reader_done, next,
     end_of_stream
<1> QED
  BY <1>1, <1>2, <1>3, <1>4, <1>5, <1>6, <1>7, <1>8, <1>9, <1>10, <1>11, <1>12 DEF Next,
     Reader, Peer, Call, vars

\* The map, the waiters and the readers keep the contract of Request: sent at
\* most once and in order, refused only if never sent, answered at most once
\* and with a reply only after it was delivered (instances.rs, session.rs, mcp.rs).
THEOREM Refinement == Spec => ImplementsRequest
  BY InitRefines, StepRefines, Invariance, PTL DEF Spec, ImplementsRequest, R!Spec
=============================================================================
