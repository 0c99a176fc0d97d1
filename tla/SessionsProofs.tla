--------------------------- MODULE SessionsProofs ---------------------------
(***************************************************************************)
(* The safety properties of Sessions, for every number of ids, streams,    *)
(* calls and envelopes, from one inductive invariant.  Its first half says *)
(* who owns an id and where an envelope is; its second half says, for      *)
(* every correlation id, which of the call and the readers holds the       *)
(* waiter while they work on the two waiter maps.                          *)
(***************************************************************************)
EXTENDS Sessions, EnvelopesProofs

\* Streams are numbered as they are opened, and nothing is sent on one that
\* has not registered.
Opened ==
    \A t \in Tokens :
        /\ nextToken <= t => rpc[t] = "unused"
        /\ rpc[t] = "unused" => sid[t] = NoInstance
        /\ rpc[t] # "unused" => sid[t] \in Ids
        /\ rpc[t] \in {"unused", "insert"} => outbound[t] = <<>> /\ delivered[t] = {}

\* The envelope a reader works on came on its own stream, and echoes a corr
\* only if some simulator was sent it.
OwnItem(t) == item[t].stream = t /\ item[t].corr \in {0} \cup Handed
Items ==
    \A t \in Tokens :
        /\ rpc[t] = "owns" => item[t] = ErrItem \/ OwnItem(t)
        /\ rpc[t] \in {"heartbeat", "complete", "notify", "push"} => OwnItem(t)

\* What an instance shows is of its own streams.
OwnFields ==
    /\ \A id \in Ids : heartbeat[id] # NoItem => heartbeat[id].stream = owner[id]
    /\ \A id \in Ids : \A m \in ToSet(inbound[id]) : m.stream \in Tokens /\ sid[m.stream] = id

\* Correlation ids are numbered as they are issued, one for a call.
Before == {"idle", "enqueue"}
Numbered ==
    /\ \A c \in Calls : corr[c] < nextCorr
    /\ \A c, d \in Calls : corr[c] = corr[d] /\ corr[c] # 0 => c = d
    /\ \A c \in Calls : cpc[c] \in Before => corr[c] = 0
    /\ \A c \in Calls : cpc[c] \notin Before \cup {"done"} => corr[c] # 0
    /\ \A c \in Calls : cpc[c] \notin {"idle", "done"} => cid[c] \in Ids

\* The steps of a call belong to what it does.
Steps ==
    \A c \in Calls :
        /\ cpc[c] \in {"get", "register", "tag", "await", "untag", "unregister"} =>
              op[c].tag = "wait"
        /\ cpc[c] \in {"enqueue", "read_mask", "exclude"} => op[c].tag = "view"

\* A call's envelope is sent once, on a stream of the call's id.
Unsent == {"idle", "enqueue", "get", "register", "tag", "send"}
Sent ==
    /\ \A c \in Calls : sentOn[c] # 0 =>
          /\ cpc[c] \notin Unsent
          /\ rpc[sentOn[c]] \notin {"unused", "insert"}
          /\ sid[sentOn[c]] = cid[c]
    /\ \A c \in Calls : cpc[c] \in {"await", "read_mask", "exclude"} => sentOn[c] # 0

\* What a stream holds or has delivered was sent on it by the call of that corr.
Channels ==
    \A t \in Tokens : \A k \in delivered[t] \cup ToSet(outbound[t]) :
        \E c \in Calls : corr[c] = k /\ sentOn[c] = t

Routing == /\ Opened /\ RegisteredHasReader /\ Items /\ OwnFields /\ Numbered /\ Steps
           /\ Sent /\ Channels /\ StoredViewWasSent

----------------------------------------------------------------------------
\* A call between its first and its last lock on the waiter maps.
Registered == {"tag", "send", "await", "untag", "unregister"}

\* A waiter is that of a call which still has the corr in its hands.
Waiters ==
    \A k \in Corrs : waiters[k] # NoCall =>
        /\ corr[waiters[k]] = k
        /\ op[waiters[k]].tag = "wait"
        /\ cpc[waiters[k]] \in Registered
        /\ slot[waiters[k]] = "empty"

\* So is the instance a waiter is filed under.
Tagged ==
    \A k \in Corrs : waiterInstance[k] # NoInstance =>
        \E c \in Calls :
            /\ corr[c] = k /\ cid[c] = waiterInstance[k] /\ op[c].tag = "wait"
            /\ cpc[c] \in {"send", "await", "untag"}
            /\ slot[c] = "empty"

\* A reader that took a waiter out holds the reply to the call's own envelope,
\* and no other reader does, however often the reply is repeated.
Notifying ==
    \A t \in Tokens : rpc[t] = "notify" =>
        /\ tx[t] \in Calls
        /\ corr[tx[t]] = item[t].corr
        /\ item[t].corr # 0
        /\ op[tx[t]].tag = "wait"
        /\ waiter_matches(op[tx[t]].kind, item[t])
        /\ waiters[item[t].corr] = NoCall
        /\ slot[tx[t]] = "empty"
        /\ \A u \in Tokens : u # t /\ rpc[u] = "notify" => tx[u] # tx[t]

\* The corrs a leaving stream works on are those of calls that have filed them.
Collected(t, k) == k \in failing[t] \/ (rpc[t] = "drop" /\ taking[t] = k)
Failing ==
    \A t \in Tokens :
        /\ \A k \in Corrs : Collected(t, k) => k < nextCorr
        /\ \A c \in Calls : Collected(t, corr[c]) => cpc[c] \notin {"get", "register", "tag"}
        /\ rpc[t] = "drop" => taking[t] # 0 /\ waiterInstance[taking[t]] = NoInstance

\* A oneshot resolves while the call waits, and a reply in it is the call's.
Slots ==
    \A c \in Calls :
        /\ slot[c] # "empty" =>
              /\ op[c].tag = "wait"
              /\ cpc[c] \in {"send", "await", "untag", "unregister", "done"}
        /\ slot[c] = "reply" =>
              /\ reply[c].corr = corr[c] /\ corr[c] # 0
              /\ waiter_matches(op[c].kind, reply[c])
              /\ sentOn[c] # 0 /\ corr[c] \in delivered[sentOn[c]]

\* A call that waits is still known: its waiter is in the map, or a reader is
\* about to notify it,
Dropping(c)  == \E t \in Tokens : rpc[t] = "drop" /\ taking[t] = corr[c]
Answering(c) == \E t \in Tokens : rpc[t] = "notify" /\ tx[t] = c
Waiting(c)   == cpc[c] = "await" /\ slot[c] = "empty"
Filing(c)    == cpc[c] = "send" /\ op[c].tag = "wait" /\ slot[c] = "empty"
Known ==
    \A c \in Calls :
        /\ cpc[c] = "tag" => waiters[corr[c]] = c
        /\ Filing(c) \/ Waiting(c) =>
              waiters[corr[c]] = c \/ Answering(c)

\* and it is filed under its id until a leaving stream or a reader is at it; a
\* stream that leaves has it on its list.
Filed ==
    \A c \in Calls :
        /\ Filing(c) \/ Waiting(c) =>
              waiterInstance[corr[c]] = cid[c] \/ Dropping(c) \/ Answering(c)
        /\ Waiting(c) /\ rpc[sentOn[c]] \in {"fail", "drop"} =>
              corr[c] \in failing[sentOn[c]] \/ Dropping(c) \/ Answering(c)

\* What a call ends with: a refusal was never sent, a timeout was, and a reply
\* in the oneshot is not passed over.
Outcome ==
    \A c \in Calls :
        /\ cpc[c] \notin {"untag", "unregister", "done"} => result[c] = "none"
        /\ cpc[c] \in {"untag", "unregister"} =>
              \/ result[c] \in {"UnknownInstance", "QueueFull"} /\ sentOn[c] = 0
              \/ result[c] = "Timeout" /\ sentOn[c] # 0
        /\ cpc[c] = "unregister" => waiterInstance[corr[c]] = NoInstance
        /\ result[c] = "reply" => slot[c] = "reply"
        /\ slot[c] = "reply" /\ cpc[c] # "await" => result[c] = "reply"

Replies == /\ Waiters /\ Tagged /\ Notifying /\ Failing /\ Slots /\ Known /\ Filed
           /\ NotStranded /\ Outcome

IInv == TypeOK /\ Routing /\ Replies

----------------------------------------------------------------------------
\* What the bounds say of the numbers in use.
LEMMA Numbers ==
    /\ MaxToken \in Nat /\ MaxCorr \in Nat /\ MaxItems \in Nat /\ Cap \in Nat
    /\ \A t \in Tokens : t \in Nat /\ t # 0 /\ t \in 0..MaxToken
    /\ \A t \in 0..MaxToken : t # 0 => t \in Tokens
    /\ \A k \in Corrs : k \in Nat /\ k # 0 /\ k \in 0..MaxCorr
    /\ \A k \in 0..MaxCorr : k # 0 => k \in Corrs
  BY BoundsAssumption DEF Tokens, Corrs

\* The envelopes a stream carries are envelopes, the two dummies too.
LEMMA Envelope ==
    /\ \A p \in Payloads, k \in 0..MaxCorr, t \in 0..MaxToken :
          /\ Message(p, k, t) \in Messages
          /\ Message(p, k, t).corr = k /\ Message(p, k, t).stream = t
    /\ NoItem \in Messages /\ NoItem.corr = 0 /\ NoItem.stream = 0
    /\ ErrItem \in Messages /\ ErrItem.corr = 0 /\ ErrItem.stream = 0
<1> DEFINE P == [name : Names, component : Components, accepted : BOOLEAN]
<1>1. ASSUME NEW p \in P, NEW k \in 0..MaxCorr, NEW t \in 0..MaxToken
      PROVE  /\ Message(p, k, t) \in Messages
             /\ Message(p, k, t).corr = k /\ Message(p, k, t).stream = t
  BY DEF Message, Messages
<1>2. ASSUME NEW p \in Payloads PROVE p \in P
  BY PayloadsAssumption DEF Names, Components
<1>3. ASSUME NEW n \in Names, NEW o \in Components PROVE Payload(n, o, FALSE) \in P
  <2>1. ASSUME NEW b \in BOOLEAN PROVE Payload(n, o, b) \in P
    BY DEF Payload
  <2> QED
    BY <2>1
<1>4. 0 \in 0..MaxCorr /\ 0 \in 0..MaxToken
  BY BoundsAssumption
<1>5. "none" \in Names /\ "error" \in Names /\ "" \in Components
  BY DEF Names, Components
<1>6. Payload("none", "", FALSE) \in P /\ Payload("error", "", FALSE) \in P
  BY <1>3, <1>5, Zenon
<1> HIDE DEF P
<1>7. \A p \in P : /\ Message(p, 0, 0) \in Messages
                   /\ Message(p, 0, 0).corr = 0 /\ Message(p, 0, 0).stream = 0
  BY <1>1, <1>4
<1>8. /\ NoItem \in Messages /\ NoItem.corr = 0 /\ NoItem.stream = 0
      /\ ErrItem \in Messages /\ ErrItem.corr = 0 /\ ErrItem.stream = 0
  BY <1>6, <1>7, Zenon DEF NoItem, ErrItem
<1> QED
  BY <1>1, <1>2, <1>8

\* What a call asked for has the fields of an operation.
LEMMA OpFields ==
    ASSUME TypeOK, NEW c \in Calls
    PROVE  /\ op[c].tag \in {"send", "wait", "view"}
           /\ op[c].mask \in SUBSET STRING /\ op[c].exclude \in SUBSET STRING
  BY OpsAssumption DEF TypeOK, CallTypes, OpTypes

\* At the start there is no stream, no call has been made and nothing is stored.
LEMMA InitIInv == Init => IInv
<1> SUFFICES ASSUME Init PROVE IInv
  OBVIOUS
<1> USE NamesAssumption, BoundsAssumption, Numbers, Envelope DEF Init
<1>1. TypeOK
  BY OpsAssumption DEF TypeOK, MapTypes, FieldTypes, ChannelTypes, WaiterTypes, ItemTypes,
     CallTypes, ReaderSteps, CallSteps, Results
<1>2. Opened /\ RegisteredHasReader /\ Items
  BY DEF Opened, RegisteredHasReader, Items
<1>3. OwnFields
  BY DEF OwnFields, ToSet
<1>4. Numbered /\ Steps /\ Sent
  BY DEF Numbered, Steps, Sent, Before, Unsent
<1>5. Channels /\ StoredViewWasSent
  BY DEF Channels, StoredViewWasSent, ToSet
<1>6. Waiters /\ Tagged /\ Notifying /\ Failing
  BY DEF Waiters, Tagged, Notifying, Failing, Collected
<1>7. Slots /\ Known /\ Filed /\ NotStranded /\ Outcome
  BY DEF Slots, Known, Filed, NotStranded, Outcome, Filing, Waiting
<1> QED
  BY <1>1, <1>2, <1>3, <1>4, <1>5, <1>6, <1>7 DEF IInv, Routing, Replies

\* The fields of a new instance have their types.
LEMMA ResetTypes ==
    ASSUME FieldTypes, NEW id \in Ids, ResetFields(id)
    PROVE  FieldTypes'
<1>1. mask' \in [Ids -> SUBSET STRING] /\ exclude' \in [Ids -> SUBSET STRING]
  BY DEF ResetFields, FieldTypes
<1>2. heartbeat' \in [Ids -> Messages]
  BY Envelope DEF ResetFields, FieldTypes
<1>3. inbound' \in [Ids -> Seq(Messages)]
  BY DEF ResetFields, FieldTypes
<1> QED
  BY <1>1, <1>2, <1>3 DEF FieldTypes

\* Who holds an id, and where a reader is.
LEMMA MapTypesStep ==
    ASSUME MapTypes, [Next]_vars
    PROVE  MapTypes'
<1> USE Numbers DEF mapVars, fieldVars, viewVars, channelVars, waiterVars, readerVars,
   requestVars, replyVars, callVars
<1>1. ASSUME NEW id \in Ids, session(id) PROVE MapTypes'
  BY <1>1 DEF session, MapTypes, ReaderSteps, Tokens
<1>2. ASSUME NEW t \in Tokens, insert(t) PROVE MapTypes'
  BY <1>2 DEF insert, ResetFields, MapTypes, ReaderSteps, Tokens
<1>3. ASSUME NEW t \in Tokens, owns(t) \/ set_heartbeat(t) \/ complete_waiter(t) \/
   notify(t) \/ push_inbound(t) \/ fail_waiters(t) \/ take_waiter(t) \/ reader_done(t) \/
   next(t) \/ end_of_stream(t)
      PROVE  MapTypes'
  BY <1>3 DEF owns, set_heartbeat, complete_waiter, notify, push_inbound, fail_waiters,
     take_waiter, reader_done, next, end_of_stream, MapTypes, ReaderSteps, Tokens
<1>4. ASSUME NEW t \in Tokens, remove_if(t) PROVE MapTypes'
  <2>1. owner' \in [Ids -> 0..MaxToken]
    BY <1>4 DEF remove_if, MapTypes
  <2> QED
    BY <1>4, <2>1 DEF remove_if, MapTypes, ReaderSteps
<1>5. ASSUME NEW t \in Tokens, NEW k \in Corrs, take_waiter_instance(t, k) PROVE MapTypes'
  BY <1>5 DEF take_waiter_instance, MapTypes, ReaderSteps, Tokens
<1>6. CASE UNCHANGED <<nextToken, owner, sid, rpc>>
  BY <1>6 DEF MapTypes, ReaderSteps, Tokens
<1>7. ASSUME NEW id \in Ids, try_recv_inbound(id)
      PROVE  UNCHANGED <<nextToken, owner, sid, rpc>>
  BY <1>7 DEF try_recv_inbound
<1>8. ASSUME NEW t \in Tokens, deliver(t) \/ hangup(t)
      PROVE  UNCHANGED <<nextToken, owner, sid, rpc>>
  BY <1>8 DEF deliver, hangup
<1>9. ASSUME NEW c \in Calls, enqueue(c) \/ get(c) \/ register_waiter(c) \/ tag_waiter(c) \/
   try_send(c) \/ receive(c) \/ expire(c) \/ untag_waiter(c) \/ unregister_waiter(c) \/
   set_read_mask(c) \/ set_exclude_log_components(c) \/ (\E sel \in Selectors :
   resolve_or_default(c, sel))
      PROVE  UNCHANGED <<nextToken, owner, sid, rpc>>
  BY <1>9 DEF resolve_or_default, enqueue, get, register_waiter, tag_waiter, try_send,
     receive, expire, untag_waiter, unregister_waiter, set_read_mask,
     set_exclude_log_components
<1> QED
  BY <1>1, <1>2, <1>3, <1>4, <1>5, <1>6, <1>7, <1>8, <1>9 DEF Next, Reader, Peer, Call, vars

\* The fields of an instance.
LEMMA FieldTypesStep ==
    ASSUME TypeOK, Opened, [Next]_vars
    PROVE  FieldTypes'
<1> USE Numbers DEF mapVars, fieldVars, viewVars, channelVars, waiterVars, readerVars,
   requestVars, replyVars, callVars
<1>1. ASSUME NEW id \in Ids, try_recv_inbound(id) PROVE FieldTypes'
  BY <1>1, Envelope DEF try_recv_inbound, FieldTypes, TypeOK
<1>2. ASSUME NEW t \in Tokens, insert(t) PROVE FieldTypes'
  <2>1. sid[t] \in Ids
    BY <1>2 DEF insert, Opened
  <2> QED
    BY <1>2, <2>1, ResetTypes DEF insert, TypeOK
<1>3. ASSUME NEW t \in Tokens, set_heartbeat(t) PROVE FieldTypes'
  BY <1>3 DEF set_heartbeat, TypeOK, FieldTypes, ItemTypes
<1>4. ASSUME NEW t \in Tokens, push_inbound(t) PROVE FieldTypes'
  <2>1. ASSUME NEW id \in Ids PROVE push(inbound[id], item[t], Cap) \in Seq(Messages)
    BY PushElements DEF TypeOK, FieldTypes, ItemTypes
  <2> QED
    BY <1>4, <2>1 DEF push_inbound, TypeOK, FieldTypes
<1>5. ASSUME NEW t \in Tokens, remove_if(t) PROVE FieldTypes'
  <2>1. sid[t] \in Ids
    BY <1>5 DEF remove_if, Opened
  <2>2. ResetFields(sid[t]) \/ UNCHANGED <<fieldVars, viewVars>>
    BY <1>5 DEF remove_if
  <2> QED
    BY <2>1, <2>2, ResetTypes DEF TypeOK, FieldTypes
<1>6. ASSUME NEW c \in Calls, set_read_mask(c) PROVE FieldTypes'
  BY <1>6, OpFields DEF set_read_mask, TypeOK, FieldTypes
<1>7. ASSUME NEW c \in Calls, set_exclude_log_components(c) PROVE FieldTypes'
  BY <1>7, OpFields DEF set_exclude_log_components, TypeOK, FieldTypes
<1>8. CASE UNCHANGED <<heartbeat, inbound, mask, exclude>>
  BY <1>8 DEF FieldTypes, TypeOK
<1>9. ASSUME NEW id \in Ids, session(id)
      PROVE  UNCHANGED <<heartbeat, inbound, mask, exclude>>
  BY <1>9 DEF session
<1>10. ASSUME NEW t \in Tokens, owns(t) \/ complete_waiter(t) \/ notify(t) \/
   fail_waiters(t) \/ take_waiter(t) \/ reader_done(t) \/ next(t) \/ end_of_stream(t) \/
   deliver(t) \/ hangup(t) \/ (\E k \in Corrs : take_waiter_instance(t, k))
      PROVE  UNCHANGED <<heartbeat, inbound, mask, exclude>>
  BY <1>10 DEF owns, complete_waiter, notify, fail_waiters, take_waiter_instance,
     take_waiter, reader_done, next, end_of_stream, deliver, hangup
<1>11. ASSUME NEW c \in Calls, enqueue(c) \/ get(c) \/ register_waiter(c) \/ tag_waiter(c)
   \/ try_send(c) \/ receive(c) \/ expire(c) \/ untag_waiter(c) \/ unregister_waiter(c) \/
   (\E sel \in Selectors : resolve_or_default(c, sel))
      PROVE  UNCHANGED <<heartbeat, inbound, mask, exclude>>
  BY <1>11 DEF resolve_or_default, enqueue, get, register_waiter, tag_waiter, try_send,
     receive, expire, untag_waiter, unregister_waiter
<1> QED
  BY <1>1, <1>2, <1>3, <1>4, <1>5, <1>6, <1>7, <1>8, <1>9, <1>10, <1>11 DEF Next, Reader,
     Peer, Call, vars

\* The channels to the simulators.
LEMMA ChannelTypesStep ==
    ASSUME TypeOK, Numbered, [Next]_vars
    PROVE  ChannelTypes'
<1> USE Numbers DEF mapVars, fieldVars, viewVars, channelVars, waiterVars, readerVars,
   requestVars, replyVars, callVars
<1>1. ASSUME NEW t \in Tokens, deliver(t) PROVE ChannelTypes'
  BY <1>1 DEF deliver, ChannelTypes, TypeOK
<1>2. ASSUME NEW t \in Tokens, hangup(t) PROVE ChannelTypes'
  BY <1>2 DEF hangup, ChannelTypes, TypeOK
<1>3. ASSUME NEW c \in Calls, try_send(c) PROVE ChannelTypes'
  <2>1. corr[c] \in Corrs
    BY <1>3 DEF try_send, Numbered, Before, TypeOK, CallTypes
  <2>2. \A t \in Tokens : Append(outbound[t], corr[c]) \in Seq(Corrs)
    BY <2>1 DEF TypeOK, ChannelTypes
  <2>3. cid[c] \in Ids /\ owner[cid[c]] \in 0..MaxToken
    BY <1>3 DEF try_send, Numbered, TypeOK, MapTypes
  <2>4. \/ outbound' = outbound
        \/ \E t \in Tokens : outbound' = [outbound EXCEPT ![t] = Append(outbound[t], corr[c])]
    BY <1>3, <2>3 DEF try_send, TypeOK, ChannelTypes
  <2>5. outbound' \in [Tokens -> Seq(Corrs)]
    BY <2>2, <2>4 DEF TypeOK, ChannelTypes
  <2> QED
    BY <1>3, <2>5 DEF try_send, TypeOK, ChannelTypes
<1>4. CASE UNCHANGED <<outbound, rxOpen, delivered>>
  BY <1>4 DEF ChannelTypes, TypeOK
<1>5. ASSUME NEW id \in Ids, session(id) \/ try_recv_inbound(id)
      PROVE  UNCHANGED <<outbound, rxOpen, delivered>>
  BY <1>5 DEF session, try_recv_inbound
<1>6. ASSUME NEW t \in Tokens, insert(t) \/ owns(t) \/ set_heartbeat(t) \/
   complete_waiter(t) \/ notify(t) \/ push_inbound(t) \/ remove_if(t) \/ fail_waiters(t) \/
   take_waiter(t) \/ reader_done(t) \/ next(t) \/ end_of_stream(t) \/ (\E k \in Corrs :
   take_waiter_instance(t, k))
      PROVE  UNCHANGED <<outbound, rxOpen, delivered>>
  BY <1>6 DEF insert, owns, set_heartbeat, complete_waiter, notify, push_inbound, remove_if,
     fail_waiters, take_waiter_instance, take_waiter, reader_done, next, end_of_stream
<1>7. ASSUME NEW c \in Calls, enqueue(c) \/ get(c) \/ register_waiter(c) \/ tag_waiter(c) \/
   receive(c) \/ expire(c) \/ untag_waiter(c) \/ unregister_waiter(c) \/ set_read_mask(c) \/
   set_exclude_log_components(c) \/ (\E sel \in Selectors : resolve_or_default(c, sel))
      PROVE  UNCHANGED <<outbound, rxOpen, delivered>>
  BY <1>7 DEF resolve_or_default, enqueue, get, register_waiter, tag_waiter, receive,
     expire, untag_waiter, unregister_waiter, set_read_mask, set_exclude_log_components
<1> QED
  BY <1>1, <1>2, <1>3, <1>4, <1>5, <1>6, <1>7 DEF Next, Reader, Peer, Call, vars

\* The waiter maps and what the readers took out of them.
LEMMA WaiterTypesStep ==
    ASSUME TypeOK, [Next]_vars
    PROVE  WaiterTypes'
<1> USE Numbers DEF mapVars, fieldVars, viewVars, channelVars, waiterVars, readerVars,
   requestVars, replyVars, callVars
<1>1. ASSUME NEW t \in Tokens, complete_waiter(t) PROVE WaiterTypes'
  <2>1. item[t].corr \in 0..MaxCorr
    BY DEF TypeOK, ItemTypes, Messages
  <2>2. Completes(item[t]) => waiters[item[t].corr] \in Calls
    BY <2>1 DEF Completes, TypeOK, WaiterTypes
  <2> QED
    BY <1>1, <2>2 DEF complete_waiter, TypeOK, WaiterTypes
<1>2. ASSUME NEW t \in Tokens, notify(t) PROVE WaiterTypes'
  BY <1>2 DEF notify, WaiterTypes, TypeOK
<1>3. ASSUME NEW t \in Tokens, fail_waiters(t) PROVE WaiterTypes'
  BY <1>3 DEF fail_waiters, WaiterTypes, TypeOK
<1>4. ASSUME NEW t \in Tokens, NEW k \in Corrs, take_waiter_instance(t, k)
      PROVE  WaiterTypes'
  BY <1>4 DEF take_waiter_instance, WaiterTypes, TypeOK
<1>5. ASSUME NEW t \in Tokens, take_waiter(t) PROVE WaiterTypes'
  <2>1. waiters' \in [Corrs -> Calls \cup {NoCall}]
    BY <1>5 DEF take_waiter, TypeOK, WaiterTypes
  <2>2. taking' \in [Tokens -> 0..MaxCorr]
    BY <1>5 DEF take_waiter, TypeOK, WaiterTypes
  <2> QED
    BY <1>5, <2>1, <2>2 DEF take_waiter, TypeOK, WaiterTypes
<1>6. ASSUME NEW c \in Calls, register_waiter(c) PROVE WaiterTypes'
  BY <1>6 DEF register_waiter, WaiterTypes, TypeOK
<1>7. ASSUME NEW c \in Calls, tag_waiter(c) PROVE WaiterTypes'
  BY <1>7 DEF tag_waiter, TypeOK, WaiterTypes, CallTypes
<1>8. ASSUME NEW c \in Calls, untag_waiter(c) PROVE WaiterTypes'
  BY <1>8 DEF untag_waiter, WaiterTypes, TypeOK
<1>9. ASSUME NEW c \in Calls, unregister_waiter(c) PROVE WaiterTypes'
  BY <1>9 DEF unregister_waiter, WaiterTypes, TypeOK
<1>10. CASE UNCHANGED <<waiters, waiterInstance, tx, failing, taking>>
  BY <1>10 DEF WaiterTypes, TypeOK
<1>11. ASSUME NEW id \in Ids, session(id) \/ try_recv_inbound(id)
      PROVE  UNCHANGED <<waiters, waiterInstance, tx, failing, taking>>
  BY <1>11 DEF session, try_recv_inbound
<1>12. ASSUME NEW t \in Tokens, insert(t) \/ owns(t) \/ set_heartbeat(t) \/ push_inbound(t)
   \/ remove_if(t) \/ reader_done(t) \/ next(t) \/ end_of_stream(t) \/ deliver(t) \/
   hangup(t)
      PROVE  UNCHANGED <<waiters, waiterInstance, tx, failing, taking>>
  BY <1>12 DEF insert, owns, set_heartbeat, push_inbound, remove_if, reader_done, next,
     end_of_stream, deliver, hangup
<1>13. ASSUME NEW c \in Calls, enqueue(c) \/ get(c) \/ try_send(c) \/ receive(c) \/
   expire(c) \/ set_read_mask(c) \/ set_exclude_log_components(c) \/ (\E sel \in Selectors :
   resolve_or_default(c, sel))
      PROVE  UNCHANGED <<waiters, waiterInstance, tx, failing, taking>>
  BY <1>13 DEF resolve_or_default, enqueue, get, try_send, receive, expire, set_read_mask,
     set_exclude_log_components
<1> QED
  BY <1>1, <1>2, <1>3, <1>4, <1>5, <1>6, <1>7, <1>8, <1>9, <1>10, <1>11, <1>12, <1>13 DEF
     Next, Reader, Peer, Call, vars

\* The envelopes the readers and the calls hold.
LEMMA ItemTypesStep ==
    ASSUME TypeOK, [Next]_vars
    PROVE  ItemTypes'
<1> USE Numbers DEF mapVars, fieldVars, viewVars, channelVars, waiterVars, readerVars,
   requestVars, replyVars, callVars
<1>1. ASSUME NEW t \in Tokens, notify(t) PROVE ItemTypes'
  BY <1>1, Envelope DEF notify, ItemTypes, TypeOK
<1>2. ASSUME NEW t \in Tokens, push_inbound(t) PROVE ItemTypes'
  BY <1>2, Envelope DEF push_inbound, ItemTypes, TypeOK
<1>3. ASSUME NEW t \in Tokens, take_waiter(t) PROVE ItemTypes'
  BY <1>3, Envelope DEF take_waiter, ItemTypes, TypeOK
<1>4. ASSUME NEW t \in Tokens, next(t) PROVE ItemTypes'
  <2>1. count' \in [Tokens -> 0..MaxItems]
    BY <1>4 DEF next, TypeOK, ItemTypes
  <2>2. ASSUME NEW p \in Payloads, NEW k \in {0} \cup Handed
        PROVE  Message(p, k, t) \in Messages
    BY Envelope DEF Handed
  <2>3. item' \in [Tokens -> Messages]
    BY <1>4, <2>2, Envelope DEF next, TypeOK, ItemTypes
  <2> QED
    BY <1>4, <2>1, <2>3 DEF next, TypeOK, ItemTypes
<1>5. CASE UNCHANGED <<item, count, reply, slot>>
  BY <1>5 DEF ItemTypes, TypeOK
<1>6. ASSUME NEW id \in Ids, session(id) \/ try_recv_inbound(id)
      PROVE  UNCHANGED <<item, count, reply, slot>>
  BY <1>6 DEF session, try_recv_inbound
<1>7. ASSUME NEW t \in Tokens, insert(t) \/ owns(t) \/ set_heartbeat(t) \/
   complete_waiter(t) \/ remove_if(t) \/ fail_waiters(t) \/ reader_done(t) \/
   end_of_stream(t) \/ deliver(t) \/ hangup(t) \/ (\E k \in Corrs : take_waiter_instance(t,
   k))
      PROVE  UNCHANGED <<item, count, reply, slot>>
  BY <1>7 DEF insert, owns, set_heartbeat, complete_waiter, remove_if, fail_waiters,
     take_waiter_instance, reader_done, end_of_stream, deliver, hangup
<1>8. ASSUME NEW c \in Calls, enqueue(c) \/ get(c) \/ register_waiter(c) \/ tag_waiter(c) \/
   try_send(c) \/ receive(c) \/ expire(c) \/ untag_waiter(c) \/ unregister_waiter(c) \/
   set_read_mask(c) \/ set_exclude_log_components(c) \/ (\E sel \in Selectors :
   resolve_or_default(c, sel))
      PROVE  UNCHANGED <<item, count, reply, slot>>
  BY <1>8 DEF resolve_or_default, enqueue, get, register_waiter, tag_waiter, try_send,
     receive, expire, untag_waiter, unregister_waiter, set_read_mask,
     set_exclude_log_components
<1> QED
  BY <1>1, <1>2, <1>3, <1>4, <1>5, <1>6, <1>7, <1>8 DEF Next, Reader, Peer, Call, vars

\* The calls.
LEMMA CallTypesStep ==
    ASSUME TypeOK, Numbered, [Next]_vars
    PROVE  CallTypes'
<1> USE Numbers DEF mapVars, fieldVars, viewVars, channelVars, waiterVars, readerVars,
   requestVars, replyVars, callVars
<1>1. ASSUME NEW c \in Calls, NEW sel \in Selectors, resolve_or_default(c, sel)
      PROVE  CallTypes'
  <2>1. Target(sel) \in Ids \cup {NoInstance}
    BY NamesAssumption DEF Target, Selectors
  <2>2. nextCorr' \in 1..MaxCorr + 1 /\ corr' \in [Calls -> 0..MaxCorr]
    BY <1>1 DEF resolve_or_default, next_corr, TypeOK, CallTypes
  <2>3. op' \in [Calls -> Ops] /\ cid' \in [Calls -> Ids \cup {NoInstance}]
    BY <1>1, <2>1 DEF resolve_or_default, TypeOK, CallTypes
  <2>4. cpc' \in [Calls -> CallSteps] /\ result' \in [Calls -> Results]
    BY <1>1 DEF resolve_or_default, Finish, TypeOK, CallTypes, CallSteps, Results
  <2> QED
    BY <1>1, <2>2, <2>3, <2>4 DEF resolve_or_default, TypeOK, CallTypes
<1>2. ASSUME NEW c \in Calls, enqueue(c) PROVE CallTypes'
  BY <1>2 DEF enqueue, Finish, next_corr, CallTypes, CallSteps, Results, TypeOK
<1>3. ASSUME NEW c \in Calls, get(c) \/ register_waiter(c) \/ tag_waiter(c) \/ receive(c) \/
   expire(c) \/ untag_waiter(c) \/ unregister_waiter(c) \/ set_read_mask(c) \/
   set_exclude_log_components(c)
      PROVE  CallTypes'
  BY <1>3 DEF get, Finish, register_waiter, tag_waiter, receive, expire, untag_waiter,
     unregister_waiter, set_read_mask, set_exclude_log_components, CallTypes, CallSteps,
     Results, TypeOK
<1>4. ASSUME NEW c \in Calls, try_send(c) PROVE CallTypes'
  <2>1. Refused(c) \in CallSteps /\ Accepted(c) \in CallSteps
    BY OpFields DEF Refused, Accepted, CallSteps
  <2>2. cpc' \in [Calls -> CallSteps] /\ result' \in [Calls -> Results]
    <3>1. result' \in [Calls -> Results]
      BY <1>4 DEF try_send, TypeOK, CallTypes, Results
    <3>2. cpc' \in [Calls -> CallSteps]
      BY <1>4, <2>1 DEF try_send, TypeOK, CallTypes
    <3> QED
      BY <3>1, <3>2
  <2>3. sentOn' \in [Calls -> 0..MaxToken]
    <3>1. cid[c] \in Ids
      BY <1>4 DEF try_send, Numbered
    <3> QED
      BY <1>4, <3>1 DEF try_send, TypeOK, MapTypes, CallTypes
  <2> QED
    BY <1>4, <2>2, <2>3 DEF try_send, TypeOK, CallTypes
<1>5. CASE UNCHANGED <<nextCorr, cpc, op, cid, corr, result, sentOn>>
  BY <1>5 DEF CallTypes, CallSteps, Results, TypeOK
<1>6. ASSUME NEW id \in Ids, session(id) \/ try_recv_inbound(id)
      PROVE  UNCHANGED <<nextCorr, cpc, op, cid, corr, result, sentOn>>
  BY <1>6 DEF session, try_recv_inbound
<1>7. ASSUME NEW t \in Tokens, insert(t) \/ owns(t) \/ set_heartbeat(t) \/
   complete_waiter(t) \/ notify(t) \/ push_inbound(t) \/ remove_if(t) \/ fail_waiters(t) \/
   take_waiter(t) \/ reader_done(t) \/ next(t) \/ end_of_stream(t) \/ deliver(t) \/
   hangup(t) \/ (\E k \in Corrs : take_waiter_instance(t, k))
      PROVE  UNCHANGED <<nextCorr, cpc, op, cid, corr, result, sentOn>>
  BY <1>7 DEF insert, owns, set_heartbeat, complete_waiter, notify, push_inbound, remove_if,
     fail_waiters, take_waiter_instance, take_waiter, reader_done, next, end_of_stream,
     deliver, hangup
<1> QED
  BY <1>1, <1>2, <1>3, <1>4, <1>5, <1>6, <1>7 DEF Next, Reader, Peer, Call, vars

\* Every step keeps the type invariant.
LEMMA TypeStep == TypeOK /\ Opened /\ Numbered /\ [Next]_vars => TypeOK'
  BY MapTypesStep, FieldTypesStep, ChannelTypesStep, WaiterTypesStep, ItemTypesStep,
     CallTypesStep DEF TypeOK

----------------------------------------------------------------------------
\* What try_send does: it leaves the channels alone, or appends to that of the
\* stream that holds the id.
LEMMA TrySend ==
    ASSUME TypeOK, Numbered, NEW c \in Calls, try_send(c)
    PROVE  /\ corr[c] \in Corrs /\ cid[c] \in Ids
           /\ \/ /\ UNCHANGED <<outbound, sentOn>>
                 /\ cpc' = [cpc EXCEPT ![c] = Refused(c)]
                 /\ \E r \in {"UnknownInstance", "QueueFull"} : result' = [result EXCEPT ![c] = r]
              \/ \E t \in Tokens :
                 /\ t = owner[cid[c]] /\ rxOpen[t]
                 /\ outbound' = [outbound EXCEPT ![t] = Append(outbound[t], corr[c])]
                 /\ sentOn' = [sentOn EXCEPT ![c] = t]
                 /\ cpc' = [cpc EXCEPT ![c] = Accepted(c)]
                 /\ result' = IF op[c].tag = "send" THEN [result EXCEPT ![c] = "queued"]
                              ELSE result
<1> USE Numbers
<1>1. corr[c] \in Corrs /\ cid[c] \in Ids
  BY DEF try_send, Numbered, Before, TypeOK, CallTypes
<1>2. owner[cid[c]] \in 0..MaxToken
  BY <1>1 DEF TypeOK, MapTypes
<1> QED
  BY <1>1, <1>2 DEF try_send, TypeOK, ChannelTypes

\* Only a new stream takes a token, and only a registered one is sent anything.
LEMMA OpenedStep ==
    ASSUME TypeOK, Opened, Numbered, RegisteredHasReader, [Next]_vars
    PROVE  Opened'
<1> USE Numbers DEF mapVars, fieldVars, viewVars, channelVars, waiterVars, readerVars,
   requestVars, replyVars, callVars
<1>1. ASSUME NEW id \in Ids, session(id) PROVE Opened'
  BY <1>1 DEF session, Opened, TypeOK, MapTypes
<1>2. ASSUME NEW t \in Tokens, insert(t) \/ owns(t) \/ set_heartbeat(t) \/
   complete_waiter(t) \/ notify(t) \/ push_inbound(t) \/ remove_if(t) \/ fail_waiters(t) \/
   take_waiter(t) \/ reader_done(t) \/ next(t) \/ end_of_stream(t)
      PROVE  Opened'
  BY <1>2 DEF insert, ResetFields, owns, set_heartbeat, complete_waiter, notify,
     push_inbound, remove_if, fail_waiters, take_waiter, reader_done, next, end_of_stream,
     Opened, TypeOK, MapTypes
<1>3. ASSUME NEW t \in Tokens, NEW k \in Corrs, take_waiter_instance(t, k) PROVE Opened'
  BY <1>3 DEF take_waiter_instance, Opened, TypeOK, MapTypes
<1>4. ASSUME NEW t \in Tokens, deliver(t) PROVE Opened'
  BY <1>4 DEF deliver, Opened, TypeOK, ChannelTypes
<1>5. ASSUME NEW t \in Tokens, hangup(t) PROVE Opened'
  BY <1>5 DEF hangup, Opened, TypeOK, ChannelTypes
<1>6. ASSUME NEW c \in Calls, try_send(c) PROVE Opened'
  <2>1. owner[cid[c]] # 0 => rpc[owner[cid[c]]] \notin {"unused", "insert"}
    BY <1>6, TrySend DEF RegisteredHasReader
  <2>2. UNCHANGED <<nextToken, sid, rpc, delivered>>
    BY <1>6 DEF try_send
  <2> QED
    BY SMTT(20), <1>6, TrySend, <2>1, <2>2 DEF Opened, TypeOK, ChannelTypes
<1>7. CASE UNCHANGED <<nextToken, sid, rpc, outbound, delivered>>
  BY <1>7 DEF Opened
<1>8. ASSUME NEW id \in Ids, try_recv_inbound(id)
      PROVE  UNCHANGED <<nextToken, sid, rpc, outbound, delivered>>
  BY <1>8 DEF try_recv_inbound
<1>9. ASSUME NEW c \in Calls, enqueue(c) \/ get(c) \/ register_waiter(c) \/ tag_waiter(c) \/
   receive(c) \/ expire(c) \/ untag_waiter(c) \/ unregister_waiter(c) \/ set_read_mask(c) \/
   set_exclude_log_components(c) \/ (\E sel \in Selectors : resolve_or_default(c, sel))
      PROVE  UNCHANGED <<nextToken, sid, rpc, outbound, delivered>>
  BY <1>9 DEF resolve_or_default, enqueue, get, register_waiter, tag_waiter, receive,
     expire, untag_waiter, unregister_waiter, set_read_mask, set_exclude_log_components
<1> QED
  BY <1>1, <1>2, <1>3, <1>4, <1>5, <1>6, <1>7, <1>8, <1>9 DEF Next, Reader, Peer, Call, vars

\* An entry of the map is that of a running stream of its id.
LEMMA RegisteredStep ==
    ASSUME TypeOK, Opened, RegisteredHasReader, [Next]_vars
    PROVE  RegisteredHasReader'
<1> USE Numbers DEF mapVars, fieldVars, viewVars, channelVars, waiterVars, readerVars,
   requestVars, replyVars, callVars
<1>1. ASSUME NEW id \in Ids, session(id) PROVE RegisteredHasReader'
  BY <1>1 DEF session, RegisteredHasReader, Opened, TypeOK, MapTypes
<1>2. ASSUME NEW t \in Tokens, insert(t) PROVE RegisteredHasReader'
  BY <1>2 DEF insert, ResetFields, RegisteredHasReader, Opened, TypeOK, MapTypes
<1>3. ASSUME NEW t \in Tokens, owns(t) \/ set_heartbeat(t) \/ complete_waiter(t) \/
   notify(t) \/ push_inbound(t) \/ fail_waiters(t) \/ take_waiter(t) \/ reader_done(t) \/
   next(t) \/ end_of_stream(t)
      PROVE  RegisteredHasReader'
  BY <1>3 DEF owns, set_heartbeat, complete_waiter, notify, push_inbound, fail_waiters,
     take_waiter, reader_done, next, end_of_stream, RegisteredHasReader, Opened, TypeOK,
     MapTypes
<1>4. ASSUME NEW t \in Tokens, remove_if(t) PROVE RegisteredHasReader'
  <2>1. sid[t] \in Ids
    BY <1>4 DEF remove_if, Opened
  <2>2. CASE owner[sid[t]] = t
    <3>1. /\ owner' = [owner EXCEPT ![sid[t]] = 0] /\ rpc' = [rpc EXCEPT ![t] = "collect"]
          /\ sid' = sid
      BY <1>4, <2>2 DEF remove_if
    <3>2. \A id \in Ids : owner[id] = t => id = sid[t]
      BY DEF RegisteredHasReader
    <3> QED
      BY <2>1, <3>1, <3>2 DEF RegisteredHasReader, TypeOK, MapTypes
  <2>3. CASE owner[sid[t]] # t
    BY <1>4, <2>3 DEF remove_if, RegisteredHasReader, TypeOK, MapTypes
  <2> QED
    BY <2>2, <2>3
<1>5. ASSUME NEW t \in Tokens, NEW k \in Corrs, take_waiter_instance(t, k)
      PROVE  RegisteredHasReader'
  BY <1>5 DEF take_waiter_instance, RegisteredHasReader, Opened, TypeOK, MapTypes
<1>6. CASE UNCHANGED <<owner, sid, rpc>>
  BY <1>6 DEF RegisteredHasReader
<1>7. ASSUME NEW id \in Ids, try_recv_inbound(id)
      PROVE  UNCHANGED <<owner, sid, rpc>>
  BY <1>7 DEF try_recv_inbound
<1>8. ASSUME NEW t \in Tokens, deliver(t) \/ hangup(t)
      PROVE  UNCHANGED <<owner, sid, rpc>>
  BY <1>8 DEF deliver, hangup
<1>9. ASSUME NEW c \in Calls, enqueue(c) \/ get(c) \/ register_waiter(c) \/ tag_waiter(c) \/
   try_send(c) \/ receive(c) \/ expire(c) \/ untag_waiter(c) \/ unregister_waiter(c) \/
   set_read_mask(c) \/ set_exclude_log_components(c) \/ (\E sel \in Selectors :
   resolve_or_default(c, sel))
      PROVE  UNCHANGED <<owner, sid, rpc>>
  BY <1>9 DEF resolve_or_default, enqueue, get, register_waiter, tag_waiter, try_send,
     receive, expire, untag_waiter, unregister_waiter, set_read_mask,
     set_exclude_log_components
<1> QED
  BY <1>1, <1>2, <1>3, <1>4, <1>5, <1>6, <1>7, <1>8, <1>9 DEF Next, Reader, Peer, Call, vars

\* What a reader handles is what its own simulator sent.
LEMMA ItemsStep ==
    ASSUME TypeOK, Items, [Next]_vars
    PROVE  Items'
<1> USE Numbers DEF mapVars, fieldVars, viewVars, channelVars, waiterVars, readerVars,
   requestVars, replyVars, callVars
<1>1. ASSUME NEW id \in Ids, session(id) PROVE Items'
  BY <1>1 DEF session, Items, OwnItem, Handed, TypeOK, MapTypes
<1>2. ASSUME NEW t \in Tokens, insert(t) \/ owns(t) \/ set_heartbeat(t) \/
   complete_waiter(t) \/ notify(t) \/ remove_if(t) \/ fail_waiters(t) \/ take_waiter(t) \/
   reader_done(t) \/ end_of_stream(t)
      PROVE  Items'
  BY <1>2 DEF insert, ResetFields, owns, set_heartbeat, complete_waiter, notify, remove_if,
     fail_waiters, take_waiter, reader_done, end_of_stream, Items, OwnItem, Handed, TypeOK,
     MapTypes
<1>3. ASSUME NEW t \in Tokens, push_inbound(t) PROVE Items'
  BY <1>3 DEF push_inbound, Items, OwnItem, Handed, TypeOK, MapTypes, ItemTypes
<1>4. ASSUME NEW t \in Tokens, NEW k \in Corrs, take_waiter_instance(t, k) PROVE Items'
  BY <1>4 DEF take_waiter_instance, Items, OwnItem, Handed, TypeOK, MapTypes
<1>5. ASSUME NEW t \in Tokens, next(t) PROVE Items'
  <2>1. PICK m : /\ item' = [item EXCEPT ![t] = m]
                 /\ \/ m = ErrItem
                    \/ \E p \in Payloads, k \in {0} \cup Handed : m = Message(p, k, t)
    BY <1>5 DEF next
  <2>2. m = ErrItem \/ (m.stream = t /\ m.corr \in {0} \cup Handed)
    <3>1. ASSUME NEW p \in Payloads, NEW k \in {0} \cup Handed
          PROVE  Message(p, k, t).stream = t /\ Message(p, k, t).corr = k
      BY Envelope DEF Handed
    <3> QED
      BY <3>1, <2>1
  <2>3. item'[t] = m /\ \A u \in Tokens : u # t => item'[u] = item[u]
    BY <2>1 DEF TypeOK, ItemTypes
  <2>4. Handed' = Handed
    BY <1>5 DEF next, Handed
  <2> QED
    BY <1>5, <2>2, <2>3, <2>4 DEF next, Items, OwnItem, TypeOK, MapTypes
<1>6. ASSUME NEW t \in Tokens, deliver(t) PROVE Items'
  <2>1. Handed \subseteq Handed'
    BY <1>6 DEF deliver, Handed, TypeOK, ChannelTypes
  <2>2. UNCHANGED <<rpc, item>>
    BY <1>6 DEF deliver
  <2> QED
    BY <2>1, <2>2 DEF Items, OwnItem
<1>7. CASE UNCHANGED <<rpc, item, delivered>>
  BY <1>7 DEF Items, OwnItem, Handed
<1>8. ASSUME NEW id \in Ids, try_recv_inbound(id)
      PROVE  UNCHANGED <<rpc, item, delivered>>
  BY <1>8 DEF try_recv_inbound
<1>9. ASSUME NEW t \in Tokens, hangup(t)
      PROVE  UNCHANGED <<rpc, item, delivered>>
  BY <1>9 DEF hangup
<1>10. ASSUME NEW c \in Calls, enqueue(c) \/ get(c) \/ register_waiter(c) \/ tag_waiter(c)
   \/ try_send(c) \/ receive(c) \/ expire(c) \/ untag_waiter(c) \/ unregister_waiter(c) \/
   set_read_mask(c) \/ set_exclude_log_components(c) \/ (\E sel \in Selectors :
   resolve_or_default(c, sel))
      PROVE  UNCHANGED <<rpc, item, delivered>>
  BY <1>10 DEF resolve_or_default, enqueue, get, register_waiter, tag_waiter, try_send,
     receive, expire, untag_waiter, unregister_waiter, set_read_mask,
     set_exclude_log_components
<1> QED
  BY <1>1, <1>2, <1>3, <1>4, <1>5, <1>6, <1>7, <1>8, <1>9, <1>10 DEF Next, Reader, Peer,
     Call, vars

\* Heartbeats and events of another stream are not stored.
LEMMA OwnFieldsStep ==
    ASSUME TypeOK, Opened, RegisteredHasReader, Items, OwnFields, [Next]_vars
    PROVE  OwnFields'
<1> USE Numbers, SequenceElements DEF mapVars, fieldVars, viewVars, channelVars, waiterVars,
   readerVars, requestVars, replyVars, callVars
<1>1. ASSUME NEW id \in Ids, session(id) PROVE OwnFields'
  <2>1. nextToken \in Tokens /\ sid[nextToken] \notin Ids
    BY <1>1, NamesAssumption DEF session, Opened, TypeOK, MapTypes, Tokens
  <2>2. \A u \in Tokens : sid[u] \in Ids => sid'[u] = sid[u]
    BY <1>1, <2>1 DEF session, TypeOK, MapTypes
  <2> QED
    BY <1>1, <2>2 DEF session, OwnFields
<1>2. ASSUME NEW id \in Ids, try_recv_inbound(id) PROVE OwnFields'
  BY <1>2 DEF try_recv_inbound, OwnFields, Opened, TypeOK, MapTypes, FieldTypes
<1>3. ASSUME NEW t \in Tokens, insert(t) PROVE OwnFields'
  <2>1. sid[t] \in Ids
    BY <1>3 DEF insert, Opened
  <2> QED
    BY <1>3, <2>1 DEF insert, ResetFields, OwnFields, TypeOK, MapTypes, FieldTypes
<1>4. ASSUME NEW t \in Tokens, set_heartbeat(t) PROVE OwnFields'
  BY <1>4 DEF set_heartbeat, OwnFields, Items, OwnItem, TypeOK, FieldTypes
<1>5. ASSUME NEW t \in Tokens, push_inbound(t) PROVE OwnFields'
  <2>1. sid[t] \in Ids /\ item[t].stream = t
    BY <1>5 DEF push_inbound, Opened, Items, OwnItem
  <2>2. ToSet(push(inbound[sid[t]], item[t], Cap)) \subseteq ToSet(inbound[sid[t]]) \cup {item[t]}
    BY <2>1, PushElements DEF TypeOK, FieldTypes, ItemTypes
  <2> QED
    BY <1>5, <2>1, <2>2 DEF push_inbound, OwnFields, TypeOK, FieldTypes
<1>6. ASSUME NEW t \in Tokens, remove_if(t) PROVE OwnFields'
  <2>1. sid[t] \in Ids
    BY <1>6 DEF remove_if, Opened
  <2>2. CASE owner[sid[t]] = t
    <3>1. owner' = [owner EXCEPT ![sid[t]] = 0] /\ ResetFields(sid[t]) /\ sid' = sid
      BY <1>6, <2>2 DEF remove_if
    <3> QED
      BY <2>1, <3>1 DEF ResetFields, OwnFields, TypeOK, MapTypes, FieldTypes
  <2>3. CASE owner[sid[t]] # t
    BY <1>6, <2>3 DEF remove_if, OwnFields, TypeOK, MapTypes, FieldTypes
  <2> QED
    BY <2>2, <2>3
<1>7. CASE UNCHANGED <<heartbeat, owner, inbound, sid>>
  BY <1>7 DEF OwnFields
<1>8. ASSUME NEW t \in Tokens, owns(t) \/ complete_waiter(t) \/ notify(t) \/ fail_waiters(t)
   \/ take_waiter(t) \/ reader_done(t) \/ next(t) \/ end_of_stream(t) \/ deliver(t) \/
   hangup(t) \/ (\E k \in Corrs : take_waiter_instance(t, k))
      PROVE  UNCHANGED <<heartbeat, owner, inbound, sid>>
  BY <1>8 DEF owns, complete_waiter, notify, fail_waiters, take_waiter_instance,
     take_waiter, reader_done, next, end_of_stream, deliver, hangup
<1>9. ASSUME NEW c \in Calls, enqueue(c) \/ get(c) \/ register_waiter(c) \/ tag_waiter(c) \/
   try_send(c) \/ receive(c) \/ expire(c) \/ untag_waiter(c) \/ unregister_waiter(c) \/
   set_read_mask(c) \/ set_exclude_log_components(c) \/ (\E sel \in Selectors :
   resolve_or_default(c, sel))
      PROVE  UNCHANGED <<heartbeat, owner, inbound, sid>>
  BY <1>9 DEF resolve_or_default, enqueue, get, register_waiter, tag_waiter, try_send,
     receive, expire, untag_waiter, unregister_waiter, set_read_mask,
     set_exclude_log_components
<1> QED
  BY <1>1, <1>2, <1>3, <1>4, <1>5, <1>6, <1>7, <1>8, <1>9 DEF Next, Reader, Peer, Call, vars

\* A correlation id is issued once.
LEMMA NumberedStep ==
    ASSUME TypeOK, Numbered, [Next]_vars
    PROVE  Numbered'
<1> USE Numbers DEF mapVars, fieldVars, viewVars, channelVars, waiterVars, readerVars,
   requestVars, replyVars, callVars
<1>1. ASSUME NEW c \in Calls, NEW sel \in Selectors, resolve_or_default(c, sel)
      PROVE  Numbered'
  <2>1. Target(sel) \in Ids \cup {NoInstance}
    BY NamesAssumption DEF Target, Selectors
  <2> QED
    BY <1>1, <2>1 DEF resolve_or_default, Finish, next_corr, Numbered, Before, TypeOK, CallTypes
<1>2. ASSUME NEW c \in Calls, enqueue(c) PROVE Numbered'
  BY <1>2 DEF enqueue, Finish, next_corr, Numbered, Before, TypeOK, CallTypes
<1>3. ASSUME NEW c \in Calls, get(c) \/ register_waiter(c) \/ tag_waiter(c) \/ receive(c) \/
   expire(c) \/ untag_waiter(c) \/ unregister_waiter(c) \/ set_read_mask(c) \/
   set_exclude_log_components(c)
      PROVE  Numbered'
  BY <1>3 DEF get, Finish, register_waiter, tag_waiter, receive, expire, untag_waiter,
     unregister_waiter, set_read_mask, set_exclude_log_components, Numbered, Before, TypeOK,
     CallTypes
<1>4. ASSUME NEW c \in Calls, try_send(c) PROVE Numbered'
  <2>1. Refused(c) \notin Before /\ Accepted(c) \notin Before
    BY OpFields DEF Refused, Accepted, Before
  <2>2. UNCHANGED <<corr, nextCorr, cid>>
    BY <1>4 DEF try_send
  <2>3. \E s \in {Refused(c), Accepted(c)} : cpc' = [cpc EXCEPT ![c] = s]
    BY <1>4, TrySend
  <2>4. cpc[c] = "send"
    BY <1>4 DEF try_send
  <2> QED
    BY <2>1, <2>2, <2>3, <2>4 DEF Numbered, Before, TypeOK, CallTypes
<1>5. CASE UNCHANGED <<corr, nextCorr, cpc, cid>>
  BY <1>5 DEF Numbered
<1>6. ASSUME NEW id \in Ids, session(id) \/ try_recv_inbound(id)
      PROVE  UNCHANGED <<corr, nextCorr, cpc, cid>>
  BY <1>6 DEF session, try_recv_inbound
<1>7. ASSUME NEW t \in Tokens, insert(t) \/ owns(t) \/ set_heartbeat(t) \/
   complete_waiter(t) \/ notify(t) \/ push_inbound(t) \/ remove_if(t) \/ fail_waiters(t) \/
   take_waiter(t) \/ reader_done(t) \/ next(t) \/ end_of_stream(t) \/ deliver(t) \/
   hangup(t) \/ (\E k \in Corrs : take_waiter_instance(t, k))
      PROVE  UNCHANGED <<corr, nextCorr, cpc, cid>>
  BY <1>7 DEF insert, owns, set_heartbeat, complete_waiter, notify, push_inbound, remove_if,
     fail_waiters, take_waiter_instance, take_waiter, reader_done, next, end_of_stream,
     deliver, hangup
<1> QED
  BY <1>1, <1>2, <1>3, <1>4, <1>5, <1>6, <1>7 DEF Next, Reader, Peer, Call, vars

\* A call takes the steps of its own operation.
LEMMA StepsStep ==
    ASSUME TypeOK, Steps, [Next]_vars
    PROVE  Steps'
<1> USE Numbers DEF mapVars, fieldVars, viewVars, channelVars, waiterVars, readerVars,
   requestVars, replyVars, callVars
<1>1. ASSUME NEW c \in Calls, NEW sel \in Selectors, resolve_or_default(c, sel) PROVE Steps'
  BY <1>1 DEF resolve_or_default, Finish, next_corr, Steps, TypeOK, CallTypes
<1>2. ASSUME NEW c \in Calls, enqueue(c) PROVE Steps'
  BY <1>2 DEF enqueue, Finish, next_corr, Steps, TypeOK, CallTypes
<1>3. ASSUME NEW c \in Calls, get(c) \/ register_waiter(c) \/ tag_waiter(c) \/ receive(c) \/
   expire(c) \/ untag_waiter(c) \/ unregister_waiter(c) \/ set_read_mask(c) \/
   set_exclude_log_components(c)
      PROVE  Steps'
  BY <1>3 DEF get, Finish, register_waiter, tag_waiter, receive, expire, untag_waiter,
     unregister_waiter, set_read_mask, set_exclude_log_components, Steps, TypeOK, CallTypes
<1>4. ASSUME NEW c \in Calls, try_send(c) PROVE Steps'
  BY <1>4, OpFields DEF try_send, Refused, Accepted, Steps, TypeOK, CallTypes
<1>5. CASE UNCHANGED <<cpc, op>>
  BY <1>5 DEF Steps
<1>6. ASSUME NEW id \in Ids, session(id) \/ try_recv_inbound(id)
      PROVE  UNCHANGED <<cpc, op>>
  BY <1>6 DEF session, try_recv_inbound
<1>7. ASSUME NEW t \in Tokens, insert(t) \/ owns(t) \/ set_heartbeat(t) \/
   complete_waiter(t) \/ notify(t) \/ push_inbound(t) \/ remove_if(t) \/ fail_waiters(t) \/
   take_waiter(t) \/ reader_done(t) \/ next(t) \/ end_of_stream(t) \/ deliver(t) \/
   hangup(t) \/ (\E k \in Corrs : take_waiter_instance(t, k))
      PROVE  UNCHANGED <<cpc, op>>
  BY <1>7 DEF insert, owns, set_heartbeat, complete_waiter, notify, push_inbound, remove_if,
     fail_waiters, take_waiter_instance, take_waiter, reader_done, next, end_of_stream,
     deliver, hangup
<1> QED
  BY <1>1, <1>2, <1>3, <1>4, <1>5, <1>6, <1>7 DEF Next, Reader, Peer, Call, vars

\* An envelope is sent once, on a stream of the call's id that has registered.
LEMMA SentStep ==
    ASSUME TypeOK, Opened, RegisteredHasReader, Numbered, Sent, [Next]_vars
    PROVE  Sent'
<1> USE Numbers DEF mapVars, fieldVars, viewVars, channelVars, waiterVars, readerVars,
   requestVars, replyVars, callVars
<1>1. ASSUME NEW id \in Ids, session(id) PROVE Sent'
  BY <1>1 DEF session, Sent, Opened, TypeOK, CallTypes, MapTypes
<1>2. ASSUME NEW t \in Tokens, insert(t) \/ owns(t) \/ set_heartbeat(t) \/
   complete_waiter(t) \/ notify(t) \/ push_inbound(t) \/ remove_if(t) \/ fail_waiters(t) \/
   take_waiter(t) \/ reader_done(t) \/ next(t) \/ end_of_stream(t)
      PROVE  Sent'
  BY <1>2 DEF insert, ResetFields, owns, set_heartbeat, complete_waiter, notify,
     push_inbound, remove_if, fail_waiters, take_waiter, reader_done, next, end_of_stream,
     Sent, Unsent, TypeOK, CallTypes, MapTypes
<1>3. ASSUME NEW t \in Tokens, NEW k \in Corrs, take_waiter_instance(t, k) PROVE Sent'
  BY <1>3 DEF take_waiter_instance, Sent, Unsent, TypeOK, CallTypes, MapTypes
<1>4. ASSUME NEW c \in Calls, NEW sel \in Selectors, resolve_or_default(c, sel) PROVE Sent'
  BY <1>4 DEF resolve_or_default, Finish, next_corr, Sent, Unsent, TypeOK, CallTypes,
     MapTypes
<1>5. ASSUME NEW c \in Calls, enqueue(c) PROVE Sent'
  BY <1>5 DEF enqueue, Finish, next_corr, Sent, Unsent, TypeOK, CallTypes, MapTypes
<1>6. ASSUME NEW c \in Calls, get(c) \/ register_waiter(c) \/ tag_waiter(c) \/ receive(c) \/
   expire(c) \/ untag_waiter(c) \/ unregister_waiter(c) \/ set_read_mask(c) \/
   set_exclude_log_components(c)
      PROVE  Sent'
  BY <1>6 DEF get, Finish, register_waiter, tag_waiter, receive, expire, untag_waiter,
     unregister_waiter, set_read_mask, set_exclude_log_components, Sent, Unsent, TypeOK,
     CallTypes, MapTypes
<1>7. ASSUME NEW c \in Calls, try_send(c) PROVE Sent'
  <2>1. /\ Refused(c) \notin Unsent \cup {"await", "read_mask", "exclude"}
        /\ Accepted(c) \notin Unsent
    BY OpFields DEF Refused, Accepted, Unsent
  <2>2. UNCHANGED <<rpc, sid, cid>>
    BY <1>7 DEF try_send
  <2>3. \A t \in Tokens : t = owner[cid[c]] => sid[t] = cid[c] /\ rpc[t] \notin {"unused", "insert"}
    BY <1>7, TrySend DEF RegisteredHasReader
  <2>4. CASE UNCHANGED sentOn /\ cpc' = [cpc EXCEPT ![c] = Refused(c)]
    BY <2>1, <2>2, <2>4 DEF Sent, TypeOK, CallTypes
  <2>5. ASSUME NEW t \in Tokens, t = owner[cid[c]], sentOn' = [sentOn EXCEPT ![c] = t],
               cpc' = [cpc EXCEPT ![c] = Accepted(c)]
        PROVE  Sent'
    BY <2>1, <2>2, <2>3, <2>5 DEF Sent, TypeOK, CallTypes
  <2> QED
    BY <1>7, TrySend, <2>4, <2>5
<1>8. CASE UNCHANGED <<cpc, rpc, sid, cid, sentOn>>
  BY <1>8 DEF Sent
<1>9. ASSUME NEW id \in Ids, try_recv_inbound(id)
      PROVE  UNCHANGED <<cpc, rpc, sid, cid, sentOn>>
  BY <1>9 DEF try_recv_inbound
<1>10. ASSUME NEW t \in Tokens, deliver(t) \/ hangup(t)
      PROVE  UNCHANGED <<cpc, rpc, sid, cid, sentOn>>
  BY <1>10 DEF deliver, hangup
<1> QED
  BY <1>1, <1>2, <1>3, <1>4, <1>5, <1>6, <1>7, <1>8, <1>9, <1>10 DEF Next, Reader, Peer,
     Call, vars

\* A stream carries what was sent on it.
LEMMA ChannelsStep ==
    ASSUME TypeOK, Numbered, Sent, Channels, [Next]_vars
    PROVE  Channels'
<1> USE Numbers, SequenceElements DEF mapVars, fieldVars, viewVars, channelVars, waiterVars,
   readerVars, requestVars, replyVars, callVars
<1>1. ASSUME NEW t \in Tokens, deliver(t) PROVE Channels'
  <2>1. Head(outbound[t]) \in ToSet(outbound[t]) /\ ToSet(Tail(outbound[t])) \subseteq ToSet(outbound[t])
    BY <1>1 DEF deliver, TypeOK, ChannelTypes
  <2>2. \A u \in Tokens : delivered'[u] \cup ToSet(outbound'[u]) \subseteq delivered[u] \cup ToSet(outbound[u])
    BY <1>1, <2>1 DEF deliver, TypeOK, ChannelTypes
  <2>3. UNCHANGED <<corr, sentOn>>
    BY <1>1 DEF deliver
  <2> QED
    BY <2>2, <2>3 DEF Channels
<1>2. ASSUME NEW t \in Tokens, hangup(t) PROVE Channels'
  BY <1>2 DEF hangup, Channels, TypeOK, ChannelTypes, CallTypes
<1>3. ASSUME NEW c \in Calls, NEW sel \in Selectors, resolve_or_default(c, sel)
      PROVE  Channels'
  <2>1. \A d \in Calls : sentOn[d] # 0 => corr'[d] = corr[d]
    BY <1>3 DEF resolve_or_default, next_corr, Sent, Unsent, TypeOK, CallTypes
  <2>2. UNCHANGED <<outbound, delivered, sentOn>>
    BY <1>3 DEF resolve_or_default
  <2> QED
    BY <2>1, <2>2 DEF Channels
<1>4. ASSUME NEW c \in Calls, enqueue(c) PROVE Channels'
  <2>1. \A d \in Calls : sentOn[d] # 0 => corr'[d] = corr[d]
    BY <1>4 DEF enqueue, next_corr, Sent, Unsent, TypeOK, CallTypes
  <2>2. UNCHANGED <<outbound, delivered, sentOn>>
    BY <1>4 DEF enqueue
  <2> QED
    BY <2>1, <2>2 DEF Channels
<1>5. ASSUME NEW c \in Calls, try_send(c) PROVE Channels'
  <2>1. sentOn[c] = 0
    BY <1>5 DEF try_send, Sent, Unsent
  <2>2. UNCHANGED <<corr, delivered>>
    BY <1>5 DEF try_send
  <2>3. CASE UNCHANGED <<outbound, sentOn>>
    BY <2>2, <2>3 DEF Channels
  <2>4. ASSUME NEW t \in Tokens,
               outbound' = [outbound EXCEPT ![t] = Append(outbound[t], corr[c])],
               sentOn' = [sentOn EXCEPT ![c] = t]
        PROVE  Channels'
    <3>1. ASSUME NEW u \in Tokens, NEW k \in delivered[u] \cup ToSet(outbound[u])
          PROVE  \E d \in Calls : corr[d] = k /\ sentOn'[d] = u
      BY <2>1, <2>4 DEF Channels, TypeOK, CallTypes
    <3>2. sentOn'[c] = t
      BY <2>4 DEF TypeOK, CallTypes
    <3>3. ASSUME NEW u \in Tokens
          PROVE  ToSet(outbound'[u]) \subseteq ToSet(outbound[u]) \cup (IF u = t THEN {corr[c]} ELSE {})
      BY <1>5, TrySend, <2>4 DEF TypeOK, ChannelTypes
    <3>4. ASSUME NEW u \in Tokens, NEW k \in delivered'[u] \cup ToSet(outbound'[u])
          PROVE  \E d \in Calls : corr'[d] = k /\ sentOn'[d] = u
      <4>1. CASE k \in delivered[u] \cup ToSet(outbound[u])
        BY <4>1, <3>1, <2>2
      <4>2. CASE u = t /\ k = corr[c]
        BY <4>2, <3>2, <2>2
      <4> QED
        BY <4>1, <4>2, <3>3, <2>2
    <3> QED
      BY <3>4 DEF Channels
  <2> QED
    BY <1>5, TrySend, <2>3, <2>4
<1>6. CASE UNCHANGED <<outbound, delivered, corr, sentOn>>
  BY <1>6 DEF Channels
<1>7. ASSUME NEW id \in Ids, session(id) \/ try_recv_inbound(id)
      PROVE  UNCHANGED <<outbound, delivered, corr, sentOn>>
  BY <1>7 DEF session, try_recv_inbound
<1>8. ASSUME NEW t \in Tokens, insert(t) \/ owns(t) \/ set_heartbeat(t) \/
   complete_waiter(t) \/ notify(t) \/ push_inbound(t) \/ remove_if(t) \/ fail_waiters(t) \/
   take_waiter(t) \/ reader_done(t) \/ next(t) \/ end_of_stream(t) \/ (\E k \in Corrs :
   take_waiter_instance(t, k))
      PROVE  UNCHANGED <<outbound, delivered, corr, sentOn>>
  BY <1>8 DEF insert, owns, set_heartbeat, complete_waiter, notify, push_inbound, remove_if,
     fail_waiters, take_waiter_instance, take_waiter, reader_done, next, end_of_stream
<1>9. ASSUME NEW c \in Calls, get(c) \/ register_waiter(c) \/ tag_waiter(c) \/ receive(c) \/
   expire(c) \/ untag_waiter(c) \/ unregister_waiter(c) \/ set_read_mask(c) \/
   set_exclude_log_components(c)
      PROVE  UNCHANGED <<outbound, delivered, corr, sentOn>>
  BY <1>9 DEF get, register_waiter, tag_waiter, receive, expire, untag_waiter,
     unregister_waiter, set_read_mask, set_exclude_log_components
<1> QED
  BY <1>1, <1>2, <1>3, <1>4, <1>5, <1>6, <1>7, <1>8, <1>9 DEF Next, Reader, Peer, Call, vars

\* A view is stored behind the envelope that announces it.
LEMMA StoredViewStep ==
    ASSUME TypeOK, Opened, Numbered, Sent, StoredViewWasSent, [Next]_vars
    PROVE  StoredViewWasSent'
<1> USE Numbers DEF mapVars, fieldVars, viewVars, channelVars, waiterVars, readerVars,
   requestVars, replyVars, callVars
<1>1. ASSUME NEW t \in Tokens, insert(t) PROVE StoredViewWasSent'
  BY <1>1 DEF insert, ResetFields, StoredViewWasSent, Sent, Unsent, TypeOK, FieldTypes,
     CallTypes
<1>2. ASSUME NEW t \in Tokens, remove_if(t) PROVE StoredViewWasSent'
  <2>1. sid[t] \in Ids
    BY <1>2 DEF remove_if, Opened
  <2>2. CASE owner[sid[t]] = t
    BY ZenonT(40), <1>2, <2>1, <2>2 DEF remove_if, ResetFields, StoredViewWasSent, TypeOK, FieldTypes
  <2>3. CASE owner[sid[t]] # t
    BY <1>2, <2>3 DEF remove_if, StoredViewWasSent, TypeOK, FieldTypes
  <2> QED
    BY <2>2, <2>3
<1>3. ASSUME NEW c \in Calls, NEW sel \in Selectors, resolve_or_default(c, sel)
      PROVE  StoredViewWasSent'
  <2>1. \A d \in Calls : sentOn[d] # 0 => cid'[d] = cid[d]
    BY <1>3 DEF resolve_or_default, Sent, Unsent, TypeOK, CallTypes
  <2>2. UNCHANGED <<mask, op, sentOn>>
    BY <1>3 DEF resolve_or_default
  <2> QED
    BY <2>1, <2>2 DEF StoredViewWasSent
<1>4. ASSUME NEW c \in Calls, try_send(c) PROVE StoredViewWasSent'
  <2>1. UNCHANGED <<mask, cid, op>>
    BY <1>4 DEF try_send
  <2>2. \A d \in Calls : sentOn[d] # 0 => sentOn'[d] # 0
    BY <1>4, TrySend DEF TypeOK, CallTypes
  <2> QED
    BY <2>1, <2>2 DEF StoredViewWasSent
<1>5. ASSUME NEW c \in Calls, set_read_mask(c) PROVE StoredViewWasSent'
  BY <1>5 DEF set_read_mask, StoredViewWasSent, Sent, TypeOK, FieldTypes
<1>6. CASE UNCHANGED <<mask, cid, sentOn, op>>
  BY <1>6 DEF StoredViewWasSent
<1>7. ASSUME NEW id \in Ids, session(id) \/ try_recv_inbound(id)
      PROVE  UNCHANGED <<mask, cid, sentOn, op>>
  BY <1>7 DEF session, try_recv_inbound
<1>8. ASSUME NEW t \in Tokens, owns(t) \/ set_heartbeat(t) \/ complete_waiter(t) \/
   notify(t) \/ push_inbound(t) \/ fail_waiters(t) \/ take_waiter(t) \/ reader_done(t) \/
   next(t) \/ end_of_stream(t) \/ deliver(t) \/ hangup(t) \/ (\E k \in Corrs :
   take_waiter_instance(t, k))
      PROVE  UNCHANGED <<mask, cid, sentOn, op>>
  BY <1>8 DEF owns, set_heartbeat, complete_waiter, notify, push_inbound, fail_waiters,
     take_waiter_instance, take_waiter, reader_done, next, end_of_stream, deliver, hangup
<1>9. ASSUME NEW c \in Calls, enqueue(c) \/ get(c) \/ register_waiter(c) \/ tag_waiter(c) \/
   receive(c) \/ expire(c) \/ untag_waiter(c) \/ unregister_waiter(c) \/
   set_exclude_log_components(c)
      PROVE  UNCHANGED <<mask, cid, sentOn, op>>
  BY <1>9 DEF enqueue, get, register_waiter, tag_waiter, receive, expire, untag_waiter,
     unregister_waiter, set_exclude_log_components
<1> QED
  BY <1>1, <1>2, <1>3, <1>4, <1>5, <1>6, <1>7, <1>8, <1>9 DEF Next, Reader, Peer, Call, vars

\* Every step keeps the first half of the invariant.
LEMMA RoutingStep == TypeOK /\ Routing /\ [Next]_vars => Routing'
  BY OpenedStep, RegisteredStep, ItemsStep, OwnFieldsStep, NumberedStep, StepsStep, SentStep,
     ChannelsStep, StoredViewStep DEF Routing

----------------------------------------------------------------------------
\* An envelope that echoes the corr of a call is of a call that was sent, and
\* delivered on the stream it was sent on.
LEMMA EchoOfCall ==
    ASSUME TypeOK, Items, Numbered, Sent, Channels, NEW t \in Tokens,
           rpc[t] \in {"complete", "notify"}, NEW c \in Calls, corr[c] = item[t].corr, corr[c] # 0
    PROVE  sentOn[c] # 0 /\ cpc[c] \notin Unsent /\ corr[c] \in delivered[sentOn[c]]
<1>1. PICK u \in Tokens : corr[c] \in delivered[u]
  BY DEF Items, OwnItem, Handed
<1>2. \E d \in Calls : corr[d] = corr[c] /\ sentOn[d] = u
  BY <1>1 DEF Channels
<1>3. sentOn[c] = u
  BY <1>2 DEF Numbered
<1> QED
  BY <1>1, <1>3, Numbers DEF Sent

\* So a reader notifies only a call whose envelope was delivered.
LEMMA Answered ==
    ASSUME TypeOK, Items, Numbered, Sent, Channels, Notifying, NEW t \in Tokens,
           rpc[t] = "notify"
    PROVE  /\ tx[t] \in Calls /\ sentOn[tx[t]] # 0 /\ cpc[tx[t]] \notin Unsent
           /\ corr[tx[t]] \in delivered[sentOn[tx[t]]]
  BY EchoOfCall DEF Notifying

\* A waiter leaves the map before its oneshot resolves and before its call ends.
LEMMA WaitersStep ==
    ASSUME TypeOK, Numbered, Steps, Waiters, Notifying, Failing, Slots, [Next]_vars
    PROVE  Waiters'
<1> USE Numbers DEF mapVars, fieldVars, viewVars, channelVars, waiterVars, readerVars,
   requestVars, replyVars, callVars
<1>1. ASSUME NEW t \in Tokens, complete_waiter(t) PROVE Waiters'
  BY <1>1 DEF complete_waiter, Waiters, TypeOK, WaiterTypes
<1>2. ASSUME NEW t \in Tokens, notify(t) PROVE Waiters'
  <2>1. \A k \in Corrs : waiters[k] # tx[t]
    BY <1>2, NamesAssumption DEF notify, Notifying, Waiters
  <2>2. \A c \in Calls : c # tx[t] => slot'[c] = slot[c]
    BY <1>2 DEF notify, TypeOK, ItemTypes
  <2>3. UNCHANGED <<waiters, corr, op, cpc>>
    BY <1>2 DEF notify
  <2> QED
    BY <2>1, <2>2, <2>3 DEF Waiters, TypeOK, WaiterTypes
<1>3. ASSUME NEW t \in Tokens, take_waiter(t) PROVE Waiters'
  <2>1. taking[t] \in Corrs
    BY <1>3 DEF take_waiter, Failing, TypeOK, WaiterTypes
  <2>2. \A c \in Calls : c # waiters[taking[t]] => slot'[c] = slot[c]
    BY <1>3 DEF take_waiter, TypeOK, ItemTypes
  <2>3. waiters' = [waiters EXCEPT ![taking[t]] = NoCall] /\ UNCHANGED <<corr, op, cpc>>
    BY <1>3 DEF take_waiter
  <2> QED
    BY <2>1, <2>2, <2>3 DEF Waiters, TypeOK, WaiterTypes
<1>4. ASSUME NEW c \in Calls, NEW sel \in Selectors, resolve_or_default(c, sel)
      PROVE  Waiters'
  BY <1>4 DEF resolve_or_default, Finish, next_corr, Waiters, Registered, TypeOK,
     WaiterTypes, CallTypes
<1>5. ASSUME NEW c \in Calls, enqueue(c) PROVE Waiters'
  BY <1>5 DEF enqueue, Finish, next_corr, Waiters, Registered, TypeOK, WaiterTypes,
     CallTypes
<1>6. ASSUME NEW c \in Calls, get(c) \/ tag_waiter(c) \/ expire(c) \/ untag_waiter(c) \/
   set_read_mask(c) \/ set_exclude_log_components(c)
      PROVE  Waiters'
  BY <1>6 DEF get, Finish, tag_waiter, expire, untag_waiter, set_read_mask,
     set_exclude_log_components, Waiters, Registered, TypeOK, WaiterTypes, CallTypes
<1>7. ASSUME NEW c \in Calls, register_waiter(c) PROVE Waiters'
  <2>1. corr[c] \in Corrs /\ op[c].tag = "wait" /\ slot[c] = "empty"
    BY <1>7 DEF register_waiter, Numbered, Before, Steps, Slots, TypeOK, CallTypes
  <2> QED
    BY <1>7, <2>1 DEF register_waiter, Waiters, Registered, TypeOK, WaiterTypes, CallTypes
<1>8. ASSUME NEW c \in Calls, try_send(c) PROVE Waiters'
  <2>1. op[c].tag = "wait" => Refused(c) \in Registered /\ Accepted(c) \in Registered
    BY DEF Refused, Accepted, Registered
  <2>2. UNCHANGED <<waiters, corr, op, slot>>
    BY <1>8 DEF try_send
  <2>3. \E s \in {Refused(c), Accepted(c)} : cpc' = [cpc EXCEPT ![c] = s]
    BY <1>8, TrySend
  <2> QED
    BY <2>1, <2>2, <2>3 DEF Waiters, TypeOK, WaiterTypes, CallTypes
<1>9. ASSUME NEW c \in Calls, receive(c) PROVE Waiters'
  BY <1>9 DEF receive, Finish, Waiters, Registered, TypeOK, WaiterTypes, CallTypes
<1>10. ASSUME NEW c \in Calls, unregister_waiter(c) PROVE Waiters'
  <2>1. corr[c] \in Corrs
    BY <1>10 DEF unregister_waiter, Numbered, Before, TypeOK, CallTypes
  <2> QED
    BY <1>10, <2>1 DEF unregister_waiter, Waiters, Registered, TypeOK, WaiterTypes, CallTypes
<1>11. CASE UNCHANGED <<waiters, corr, op, cpc, slot>>
  BY <1>11 DEF Waiters
<1>12. ASSUME NEW id \in Ids, session(id) \/ try_recv_inbound(id)
      PROVE  UNCHANGED <<waiters, corr, op, cpc, slot>>
  BY <1>12 DEF session, try_recv_inbound
<1>13. ASSUME NEW t \in Tokens, insert(t) \/ owns(t) \/ set_heartbeat(t) \/ push_inbound(t)
   \/ remove_if(t) \/ fail_waiters(t) \/ reader_done(t) \/ next(t) \/ end_of_stream(t) \/
   deliver(t) \/ hangup(t) \/ (\E k \in Corrs : take_waiter_instance(t, k))
      PROVE  UNCHANGED <<waiters, corr, op, cpc, slot>>
  BY <1>13 DEF insert, owns, set_heartbeat, push_inbound, remove_if, fail_waiters,
     take_waiter_instance, reader_done, next, end_of_stream, deliver, hangup
<1> QED
  BY <1>1, <1>2, <1>3, <1>4, <1>5, <1>6, <1>7, <1>8, <1>9, <1>10, <1>11, <1>12, <1>13 DEF
     Next, Reader, Peer, Call, vars

\* An instance is forgotten no later than its waiter.
LEMMA TaggedStep ==
    ASSUME TypeOK, Numbered, Steps, Waiters, Tagged, Notifying, Failing, Slots, [Next]_vars
    PROVE  Tagged'
<1> USE Numbers DEF mapVars, fieldVars, viewVars, channelVars, waiterVars, readerVars,
   requestVars, replyVars, callVars
<1>1. ASSUME NEW t \in Tokens, notify(t) PROVE Tagged'
  <2>1. \A k \in Corrs : waiterInstance'[k] # NoInstance =>
            waiterInstance'[k] = waiterInstance[k] /\ k # item[t].corr
    BY <1>1 DEF notify, TypeOK, WaiterTypes
  <2>2. \A c \in Calls : corr[c] # item[t].corr => slot'[c] = slot[c]
    BY <1>1 DEF notify, Notifying, TypeOK, ItemTypes
  <2>3. UNCHANGED <<corr, cid, op, cpc>>
    BY <1>1 DEF notify
  <2> QED
    BY <2>1, <2>2, <2>3 DEF Tagged
<1>2. ASSUME NEW t \in Tokens, NEW k \in Corrs, take_waiter_instance(t, k) PROVE Tagged'
  BY <1>2 DEF take_waiter_instance, Tagged, TypeOK, WaiterTypes
<1>3. ASSUME NEW t \in Tokens, take_waiter(t) PROVE Tagged'
  <2>1. taking[t] \in Corrs /\ waiterInstance[taking[t]] = NoInstance
    BY <1>3 DEF take_waiter, Failing, TypeOK, WaiterTypes
  <2>2. \A c \in Calls : corr[c] # taking[t] => slot'[c] = slot[c]
    BY <1>3, <2>1 DEF take_waiter, Waiters, TypeOK, ItemTypes
  <2>3. UNCHANGED <<waiterInstance, corr, cid, op, cpc>>
    BY <1>3 DEF take_waiter
  <2> QED
    BY <2>1, <2>2, <2>3 DEF Tagged
<1>4. ASSUME NEW c \in Calls, NEW sel \in Selectors, resolve_or_default(c, sel)
      PROVE  Tagged'
  <2>1. \A d \in Calls : d # c => cpc'[d] = cpc[d] /\ corr'[d] = corr[d] /\ cid'[d] = cid[d]
    BY <1>4 DEF resolve_or_default, Finish, next_corr, TypeOK, CallTypes
  <2>2. cpc[c] = "idle" /\ UNCHANGED <<waiterInstance, op, slot>>
    BY <1>4 DEF resolve_or_default
  <2> QED
    BY <2>1, <2>2 DEF Tagged
<1>5. ASSUME NEW c \in Calls, enqueue(c) PROVE Tagged'
  <2>1. \A d \in Calls : d # c => cpc'[d] = cpc[d] /\ corr'[d] = corr[d]
    BY <1>5 DEF enqueue, Finish, next_corr, TypeOK, CallTypes
  <2>2. cpc[c] = "enqueue" /\ UNCHANGED <<waiterInstance, cid, op, slot>>
    BY <1>5 DEF enqueue
  <2> QED
    BY <2>1, <2>2 DEF Tagged
<1>6. ASSUME NEW c \in Calls, get(c) \/ register_waiter(c) \/ receive(c) \/ expire(c) \/
   unregister_waiter(c) \/ set_read_mask(c) \/ set_exclude_log_components(c)
      PROVE  Tagged'
  <2>1. \A d \in Calls : cpc[d] \in {"send", "await", "untag"} /\ slot[d] = "empty" =>
            cpc'[d] \in {"send", "await", "untag"}
    BY <1>6 DEF get, set_read_mask, set_exclude_log_components, register_waiter, unregister_waiter,
       receive, expire, Finish, TypeOK, CallTypes
  <2>2. UNCHANGED <<waiterInstance, corr, cid, op, slot>>
    BY <1>6 DEF get, set_read_mask, set_exclude_log_components, register_waiter, unregister_waiter,
       receive, expire
  <2> QED
    BY <2>1, <2>2 DEF Tagged
<1>7. ASSUME NEW c \in Calls, tag_waiter(c) PROVE Tagged'
  <2>1. /\ corr[c] \in Corrs /\ cid[c] \in Ids /\ op[c].tag = "wait"
        /\ slot[c] = "empty"
    BY <1>7 DEF tag_waiter, Numbered, Before, Steps, Slots, TypeOK, CallTypes
  <2>2. cpc'[c] = "send" /\ \A d \in Calls : d # c => cpc'[d] = cpc[d]
    BY <1>7 DEF tag_waiter, TypeOK, CallTypes
  <2>3. UNCHANGED <<corr, cid, op, slot>>
    BY <1>7 DEF tag_waiter
  <2>4. waiterInstance' = [waiterInstance EXCEPT ![corr[c]] = cid[c]]
    BY <1>7 DEF tag_waiter
  <2>5. \A k \in Corrs : k # corr[c] => waiterInstance'[k] = waiterInstance[k]
    BY <2>4 DEF TypeOK, WaiterTypes
  <2>6. waiterInstance'[corr[c]] = cid[c]
    BY <2>1, <2>4 DEF TypeOK, WaiterTypes
  <2>7. ASSUME NEW k \in Corrs, waiterInstance'[k] # NoInstance
        PROVE  \E d \in Calls :
                  /\ corr[d] = k /\ cid[d] = waiterInstance'[k] /\ op[d].tag = "wait"
                  /\ cpc'[d] \in {"send", "await", "untag"} /\ slot[d] = "empty"
    <3>1. CASE k = corr[c]
      BY <3>1, <2>1, <2>2, <2>6
    <3>2. CASE k # corr[c]
      <4>1. PICK d \in Calls :
               /\ corr[d] = k /\ cid[d] = waiterInstance[k] /\ op[d].tag = "wait"
               /\ cpc[d] \in {"send", "await", "untag"} /\ slot[d] = "empty"
        BY <2>5, <2>7, <3>2 DEF Tagged
      <4> QED
        BY <4>1, <2>2, <2>5, <3>2
    <3> QED
      BY <3>1, <3>2
  <2> QED
    BY <2>3, <2>7 DEF Tagged
<1>8. ASSUME NEW c \in Calls, try_send(c) PROVE Tagged'
  <2>1. op[c].tag = "wait" => Refused(c) = "untag" /\ Accepted(c) = "await"
    BY DEF Refused, Accepted
  <2>2. UNCHANGED <<waiterInstance, corr, cid, op, slot>>
    BY <1>8 DEF try_send
  <2>3. \E s \in {Refused(c), Accepted(c)} : cpc' = [cpc EXCEPT ![c] = s]
    BY <1>8, TrySend
  <2>4. \A d \in Calls : op[d].tag = "wait" /\ cpc[d] \in {"send", "await", "untag"} =>
            cpc'[d] \in {"send", "await", "untag"}
    BY <2>1, <2>3 DEF TypeOK, CallTypes
  <2> QED
    BY <2>2, <2>4 DEF Tagged
<1>9. ASSUME NEW c \in Calls, untag_waiter(c) PROVE Tagged'
  <2>1. corr[c] \in Corrs
    BY <1>9 DEF untag_waiter, Numbered, Before, TypeOK, CallTypes
  <2>2. \A k \in Corrs : waiterInstance'[k] # NoInstance =>
            k # corr[c] /\ waiterInstance'[k] = waiterInstance[k]
    BY <1>9, <2>1 DEF untag_waiter, TypeOK, WaiterTypes
  <2>3. \A d \in Calls : d # c => cpc'[d] = cpc[d]
    BY <1>9 DEF untag_waiter, TypeOK, CallTypes
  <2>4. UNCHANGED <<corr, cid, op, slot>>
    BY <1>9 DEF untag_waiter
  <2> QED
    BY <2>2, <2>3, <2>4 DEF Tagged
<1>10. CASE UNCHANGED <<waiterInstance, corr, cid, op, cpc, slot>>
  BY <1>10 DEF Tagged
<1>11. ASSUME NEW id \in Ids, session(id) \/ try_recv_inbound(id)
      PROVE  UNCHANGED <<waiterInstance, corr, cid, op, cpc, slot>>
  BY <1>11 DEF session, try_recv_inbound
<1>12. ASSUME NEW t \in Tokens, insert(t) \/ owns(t) \/ set_heartbeat(t) \/
   complete_waiter(t) \/ push_inbound(t) \/ remove_if(t) \/ fail_waiters(t) \/
   reader_done(t) \/ next(t) \/ end_of_stream(t) \/ deliver(t) \/ hangup(t)
      PROVE  UNCHANGED <<waiterInstance, corr, cid, op, cpc, slot>>
  BY <1>12 DEF insert, owns, set_heartbeat, complete_waiter, push_inbound, remove_if,
     fail_waiters, reader_done, next, end_of_stream, deliver, hangup
<1> QED
  BY <1>1, <1>2, <1>3, <1>4, <1>5, <1>6, <1>7, <1>8, <1>9, <1>10, <1>11, <1>12 DEF Next,
     Reader, Peer, Call, vars

\* Nobody else resolves a oneshot that a reader holds.
LEMMA NotifyingStep ==
    ASSUME TypeOK, Opened, Items, Numbered, Sent, Channels, Waiters, Failing, Notifying,
       [Next]_vars
    PROVE  Notifying'
<1> USE Numbers, NamesAssumption DEF mapVars, fieldVars, viewVars, channelVars, waiterVars,
   readerVars, requestVars, replyVars, callVars
<1>1. ASSUME NEW id \in Ids, session(id) PROVE Notifying'
  BY <1>1 DEF session, Notifying, TypeOK, MapTypes
<1>2. ASSUME NEW t \in Tokens, insert(t) \/ owns(t) \/ set_heartbeat(t) \/ remove_if(t) \/
   fail_waiters(t) \/ reader_done(t) \/ end_of_stream(t)
      PROVE  Notifying'
  <2>1. UNCHANGED <<tx, item, corr, op, waiters, slot>>
    BY <1>2 DEF insert, owns, set_heartbeat, remove_if, fail_waiters, reader_done, end_of_stream
  <2>2. \A u \in Tokens : rpc'[u] = "notify" => rpc[u] = "notify"
    BY <1>2 DEF insert, owns, set_heartbeat, remove_if, fail_waiters, reader_done, end_of_stream,
       TypeOK, MapTypes
  <2> QED
    BY <2>1, <2>2 DEF Notifying
<1>3. ASSUME NEW t \in Tokens, complete_waiter(t) PROVE Notifying'
  <2>1. \A u \in Tokens : u # t => rpc'[u] = rpc[u] /\ tx'[u] = tx[u]
    BY <1>3 DEF complete_waiter, TypeOK, MapTypes, WaiterTypes
  <2>2. UNCHANGED <<item, corr, op, slot>>
    BY <1>3 DEF complete_waiter
  <2>3. \A k \in Corrs : waiters[k] = NoCall => waiters'[k] = NoCall
    BY <1>3 DEF complete_waiter, TypeOK, WaiterTypes
  <2>4. \A u \in Tokens : item[u].corr \in 0..MaxCorr
    BY DEF TypeOK, ItemTypes, Messages
  <2>5. ASSUME rpc'[t] = "notify"
        PROVE  /\ tx'[t] = waiters[item[t].corr] /\ waiters'[item[t].corr] = NoCall
               /\ Completes(item[t]) /\ item[t].corr \in Corrs
    BY <1>3, <2>4, <2>5 DEF complete_waiter, Completes, TypeOK, MapTypes, WaiterTypes
  <2>6. ASSUME rpc'[t] = "notify" PROVE tx'[t] \in Calls /\ corr[tx'[t]] = item[t].corr
               /\ op[tx'[t]].tag = "wait" /\ slot[tx'[t]] = "empty"
               /\ waiter_matches(op[tx'[t]].kind, item[t])
    BY <2>5, <2>6 DEF Completes, Waiters, TypeOK, WaiterTypes
  <2>7. ASSUME rpc'[t] = "notify", NEW u \in Tokens, u # t, rpc[u] = "notify"
        PROVE  tx[u] # tx'[t]
    <3>1. waiters[item[u].corr] = NoCall /\ corr[tx[u]] = item[u].corr
      BY <2>7 DEF Notifying
    <3>2. waiters[item[t].corr] # NoCall /\ corr[tx'[t]] = item[t].corr
      BY <2>5, <2>6, <2>7 DEF Completes
    <3> QED
      BY <3>1, <3>2
  <2>8. ASSUME NEW u \in Tokens, u # t, rpc[u] = "notify"
        PROVE  /\ tx[u] \in Calls /\ corr[tx[u]] = item[u].corr /\ item[u].corr # 0
               /\ op[tx[u]].tag = "wait" /\ waiter_matches(op[tx[u]].kind, item[u])
               /\ waiters'[item[u].corr] = NoCall /\ slot[tx[u]] = "empty"
               /\ \A v \in Tokens : v # u /\ rpc[v] = "notify" => tx[v] # tx[u]
    BY <2>3, <2>4, <2>8 DEF Notifying
  <2> QED
    BY <2>1, <2>2, <2>5, <2>6, <2>7, <2>8 DEF Notifying, Completes
<1>4. ASSUME NEW t \in Tokens, notify(t) PROVE Notifying'
  <2>1. \A u \in Tokens : u # t => rpc'[u] = rpc[u] /\ tx'[u] = tx[u]
    BY <1>4 DEF notify, TypeOK, MapTypes, WaiterTypes
  <2>2. rpc'[t] = "push" /\ UNCHANGED <<item, corr, op, waiters>>
    BY <1>4 DEF notify, TypeOK, MapTypes
  <2>3. \A u \in Tokens : u # t /\ rpc[u] = "notify" => tx[u] # tx[t]
    BY <1>4 DEF notify, Notifying
  <2>4. \A c \in Calls : c # tx[t] => slot'[c] = slot[c]
    BY <1>4 DEF notify, TypeOK, ItemTypes
  <2> QED
    BY <2>1, <2>2, <2>3, <2>4 DEF Notifying
<1>5. ASSUME NEW t \in Tokens, push_inbound(t) PROVE Notifying'
  BY <1>5 DEF push_inbound, Notifying, TypeOK, MapTypes, ItemTypes
<1>6. ASSUME NEW t \in Tokens, NEW k \in Corrs, take_waiter_instance(t, k) PROVE Notifying'
  BY <1>6 DEF take_waiter_instance, Notifying, TypeOK, MapTypes
<1>7. ASSUME NEW t \in Tokens, take_waiter(t) PROVE Notifying'
  <2>1. taking[t] \in Corrs
    BY <1>7 DEF take_waiter, Failing, TypeOK, WaiterTypes
  <2>2. \A u \in Tokens : rpc[u] = "notify" => tx[u] # waiters[taking[t]]
    BY <2>1 DEF Notifying, Waiters
  <2>3. \A c \in Calls : c # waiters[taking[t]] => slot'[c] = slot[c]
    BY <1>7 DEF take_waiter, TypeOK, ItemTypes
  <2>4. \A k \in Corrs : waiters[k] = NoCall => waiters'[k] = NoCall
    BY <1>7 DEF take_waiter, TypeOK, WaiterTypes
  <2>5. UNCHANGED <<tx, item, corr, op>> /\ \A u \in Tokens : rpc'[u] = "notify" => rpc[u] = "notify"
    BY <1>7 DEF take_waiter, TypeOK, MapTypes
  <2>6. \A u \in Tokens : item[u].corr \in 0..MaxCorr
    BY DEF TypeOK, ItemTypes, Messages
  <2> QED
    BY <2>2, <2>3, <2>4, <2>5, <2>6 DEF Notifying
<1>8. ASSUME NEW t \in Tokens, next(t) PROVE Notifying'
  <2>1. /\ rpc'[t] = "owns"
        /\ \A u \in Tokens : u # t => rpc'[u] = rpc[u] /\ item'[u] = item[u]
    BY <1>8 DEF next, TypeOK, MapTypes, ItemTypes
  <2>2. UNCHANGED <<tx, corr, op, waiters, slot>>
    BY <1>8 DEF next
  <2> QED
    BY <2>1, <2>2 DEF Notifying
<1>9. ASSUME NEW c \in Calls, NEW sel \in Selectors, resolve_or_default(c, sel)
      PROVE  Notifying'
  <2>1. \A d \in Calls : corr[d] # 0 => corr'[d] = corr[d]
    BY <1>9 DEF resolve_or_default, next_corr, Numbered, Before, TypeOK, CallTypes
  <2>2. UNCHANGED <<rpc, tx, item, op, waiters, slot>>
    BY <1>9 DEF resolve_or_default
  <2> QED
    BY <2>1, <2>2 DEF Notifying
<1>10. ASSUME NEW c \in Calls, enqueue(c) PROVE Notifying'
  <2>1. \A d \in Calls : corr[d] # 0 => corr'[d] = corr[d]
    BY <1>10 DEF enqueue, next_corr, Numbered, Before, TypeOK, CallTypes
  <2>2. UNCHANGED <<rpc, tx, item, op, waiters, slot>>
    BY <1>10 DEF enqueue
  <2> QED
    BY <2>1, <2>2 DEF Notifying
<1>11. ASSUME NEW c \in Calls, register_waiter(c) PROVE Notifying'
  <2>1. corr[c] \in Corrs /\ cpc[c] \in Unsent
    BY <1>11 DEF register_waiter, Numbered, Before, Unsent, TypeOK, CallTypes
  <2>2. \A u \in Tokens : rpc[u] = "notify" => item[u].corr # corr[c]
    BY <2>1, EchoOfCall
  <2>3. \A k \in Corrs : k # corr[c] => waiters'[k] = waiters[k]
    BY <1>11 DEF register_waiter, TypeOK, WaiterTypes
  <2>4. UNCHANGED <<rpc, tx, item, corr, op, slot>>
    BY <1>11 DEF register_waiter
  <2>5. \A u \in Tokens : item[u].corr \in 0..MaxCorr
    BY DEF TypeOK, ItemTypes, Messages
  <2> QED
    BY <2>2, <2>3, <2>4, <2>5 DEF Notifying
<1>12. ASSUME NEW c \in Calls, unregister_waiter(c) PROVE Notifying'
  <2>1. \A k \in Corrs : waiters[k] = NoCall => waiters'[k] = NoCall
    BY <1>12 DEF unregister_waiter, TypeOK, WaiterTypes
  <2>2. UNCHANGED <<rpc, tx, item, corr, op, slot>>
    BY <1>12 DEF unregister_waiter
  <2>3. \A u \in Tokens : item[u].corr \in 0..MaxCorr
    BY DEF TypeOK, ItemTypes, Messages
  <2> QED
    BY <2>1, <2>2, <2>3 DEF Notifying
<1>13. CASE UNCHANGED <<rpc, tx, item, corr, op, waiters, slot>>
  BY <1>13 DEF Notifying
<1>14. ASSUME NEW id \in Ids, try_recv_inbound(id)
      PROVE  UNCHANGED <<rpc, tx, item, corr, op, waiters, slot>>
  BY <1>14 DEF try_recv_inbound
<1>15. ASSUME NEW t \in Tokens, deliver(t) \/ hangup(t)
      PROVE  UNCHANGED <<rpc, tx, item, corr, op, waiters, slot>>
  BY <1>15 DEF deliver, hangup
<1>16. ASSUME NEW c \in Calls, get(c) \/ tag_waiter(c) \/ try_send(c) \/ receive(c) \/
   expire(c) \/ untag_waiter(c) \/ set_read_mask(c) \/ set_exclude_log_components(c)
      PROVE  UNCHANGED <<rpc, tx, item, corr, op, waiters, slot>>
  BY <1>16 DEF get, tag_waiter, try_send, receive, expire, untag_waiter, set_read_mask,
     set_exclude_log_components
<1> QED
  BY <1>1, <1>2, <1>3, <1>4, <1>5, <1>6, <1>7, <1>8, <1>9, <1>10, <1>11, <1>12, <1>13,
     <1>14, <1>15, <1>16 DEF Next, Reader, Peer, Call, vars

\* A leaving stream has its eyes on calls that are past filing their waiter.
LEMMA FailingStep ==
    ASSUME TypeOK, Opened, Numbered, Tagged, Failing, [Next]_vars
    PROVE  Failing'
<1> USE Numbers DEF mapVars, fieldVars, viewVars, channelVars, waiterVars, readerVars,
   requestVars, replyVars, callVars
<1>1. ASSUME NEW id \in Ids, session(id) PROVE Failing'
  <2>1. UNCHANGED <<failing, taking, nextCorr, corr, cpc, waiterInstance>>
    BY <1>1 DEF session
  <2>2. \A t \in Tokens : rpc'[t] = "drop" => rpc[t] = "drop"
    BY <1>1 DEF session, TypeOK, MapTypes
  <2> QED
    BY <2>1, <2>2 DEF Failing, Collected
<1>2. ASSUME NEW t \in Tokens, insert(t) \/ owns(t) \/ set_heartbeat(t) \/
   complete_waiter(t) \/ push_inbound(t) \/ remove_if(t) \/ reader_done(t) \/ next(t) \/
   end_of_stream(t)
      PROVE  Failing'
  BY <1>2 DEF insert, ResetFields, owns, set_heartbeat, complete_waiter, push_inbound,
     remove_if, reader_done, next, end_of_stream, Failing, Collected, TypeOK, MapTypes,
     WaiterTypes
<1>3. ASSUME NEW t \in Tokens, notify(t) PROVE Failing'
  <2>1. \A k \in Corrs : waiterInstance[k] = NoInstance => waiterInstance'[k] = NoInstance
    BY <1>3 DEF notify, TypeOK, WaiterTypes
  <2>2. \A u \in Tokens : rpc'[u] = "drop" => rpc[u] = "drop"
    BY <1>3 DEF notify, TypeOK, MapTypes
  <2>3. UNCHANGED <<failing, taking, nextCorr, corr, cpc>>
    BY <1>3 DEF notify
  <2> QED
    BY <2>1, <2>2, <2>3 DEF Failing, Collected, TypeOK, WaiterTypes
<1>4. ASSUME NEW t \in Tokens, fail_waiters(t) PROVE Failing'
  <2>1. sid[t] # NoInstance
    BY <1>4, NamesAssumption DEF fail_waiters, Opened
  <2>2. \A u \in Tokens : u # t => failing'[u] = failing[u] /\ rpc'[u] = rpc[u]
    BY <1>4 DEF fail_waiters, TypeOK, MapTypes, WaiterTypes
  <2>3. rpc'[t] = "fail" /\ failing'[t] = {k \in Corrs : waiterInstance[k] = sid[t]}
    BY <1>4 DEF fail_waiters, TypeOK, MapTypes, WaiterTypes
  <2>4. UNCHANGED <<taking, nextCorr, corr, cpc, waiterInstance>>
    BY <1>4 DEF fail_waiters
  <2>5. ASSUME NEW k \in failing'[t]
        PROVE  k < nextCorr /\ \A c \in Calls : corr[c] = k => cpc[c] \notin {"get", "register", "tag"}
    <3>1. k \in Corrs /\ waiterInstance[k] # NoInstance
      BY <2>1, <2>3
    <3>2. PICK d \in Calls : corr[d] = k /\ cpc[d] \in {"send", "await", "untag"}
      BY <3>1 DEF Tagged
    <3> QED
      BY <3>1, <3>2 DEF Numbered
  <2> QED
    BY <2>2, <2>3, <2>4, <2>5 DEF Failing, Collected
<1>5. ASSUME NEW t \in Tokens, NEW k \in Corrs, take_waiter_instance(t, k) PROVE Failing'
  <2>1. \A u \in Tokens : u # t => failing'[u] = failing[u] /\ rpc'[u] = rpc[u] /\ taking'[u] = taking[u]
    BY <1>5 DEF take_waiter_instance, TypeOK, MapTypes, WaiterTypes
  <2>2. rpc'[t] = "drop" /\ failing'[t] = failing[t] \ {k} /\ taking'[t] = k /\ k \in failing[t]
    BY <1>5 DEF take_waiter_instance, TypeOK, MapTypes, WaiterTypes
  <2>3. \A j \in Corrs : waiterInstance'[j] = IF j = k THEN NoInstance ELSE waiterInstance[j]
    BY <1>5 DEF take_waiter_instance, TypeOK, WaiterTypes
  <2>4. UNCHANGED <<nextCorr, corr, cpc>>
    BY <1>5 DEF take_waiter_instance
  <2> QED
    BY <2>1, <2>2, <2>3, <2>4 DEF Failing, Collected, TypeOK, WaiterTypes
<1>6. ASSUME NEW t \in Tokens, take_waiter(t) PROVE Failing'
  <2>1. \A u \in Tokens : rpc'[u] = "drop" => u # t /\ rpc[u] = "drop"
    BY <1>6 DEF take_waiter, TypeOK, MapTypes
  <2>2. \A u \in Tokens : u # t => taking'[u] = taking[u]
    BY <1>6 DEF take_waiter, TypeOK, WaiterTypes
  <2>3. UNCHANGED <<failing, nextCorr, corr, cpc, waiterInstance>>
    BY <1>6 DEF take_waiter
  <2> QED
    BY <2>1, <2>2, <2>3 DEF Failing, Collected
<1>7. ASSUME NEW c \in Calls, NEW sel \in Selectors, resolve_or_default(c, sel)
      PROVE  Failing'
  <2>1. /\ nextCorr \in Nat /\ nextCorr' \in Nat /\ nextCorr <= nextCorr'
        /\ UNCHANGED <<failing, taking, rpc, waiterInstance>>
    BY <1>7 DEF resolve_or_default, next_corr, TypeOK, CallTypes
  <2>2. \A d \in Calls : d # c => cpc'[d] = cpc[d] /\ corr'[d] = corr[d]
    BY <1>7 DEF resolve_or_default, Finish, next_corr, TypeOK, CallTypes
  <2>3. corr'[c] \in {0, nextCorr}
    BY <1>7 DEF resolve_or_default, next_corr, Numbered, Before, TypeOK, CallTypes
  <2>4. \A u \in Tokens : ~Collected(u, 0) /\ ~Collected(u, nextCorr)
    BY DEF Failing, Collected, TypeOK, WaiterTypes, CallTypes
  <2>5. \A u \in Tokens, k \in Corrs : Collected(u, k) => k < nextCorr'
    BY <2>1 DEF Failing
  <2>6. \A u \in Tokens : \A k : Collected(u, k)' <=> Collected(u, k)
    BY <2>1 DEF Collected
  <2>7. \A u \in Tokens, d \in Calls :
           Collected(u, corr'[d]) => cpc'[d] \notin {"get", "register", "tag"}
    BY <2>2, <2>3, <2>4 DEF Failing
  <2> QED
    BY <2>1, <2>5, <2>6, <2>7 DEF Failing
<1>8. ASSUME NEW c \in Calls, enqueue(c) PROVE Failing'
  <2>1. /\ nextCorr \in Nat /\ nextCorr' \in Nat /\ nextCorr <= nextCorr'
        /\ UNCHANGED <<failing, taking, rpc, waiterInstance>>
    BY <1>8 DEF enqueue, next_corr, TypeOK, CallTypes
  <2>2. \A d \in Calls : d # c => cpc'[d] = cpc[d] /\ corr'[d] = corr[d]
    BY <1>8 DEF enqueue, Finish, next_corr, TypeOK, CallTypes
  <2>3. cpc'[c] \notin {"get", "register", "tag"}
    BY <1>8 DEF enqueue, Finish, TypeOK, CallTypes
  <2>4. \A u \in Tokens, k \in Corrs : Collected(u, k) => k < nextCorr'
    BY <2>1 DEF Failing
  <2>5. \A u \in Tokens : \A k : Collected(u, k)' <=> Collected(u, k)
    BY <2>1 DEF Collected
  <2>6. \A u \in Tokens, d \in Calls :
           Collected(u, corr'[d]) => cpc'[d] \notin {"get", "register", "tag"}
    BY <2>2, <2>3 DEF Failing
  <2> QED
    BY <2>1, <2>4, <2>5, <2>6 DEF Failing
<1>9. ASSUME NEW c \in Calls, get(c) \/ register_waiter(c) \/ receive(c) \/ expire(c) \/
   unregister_waiter(c) \/ set_read_mask(c) \/ set_exclude_log_components(c)
      PROVE  Failing'
  <2>1. UNCHANGED <<failing, taking, rpc, nextCorr, corr, waiterInstance>>
    BY <1>9 DEF get, receive, expire, set_read_mask, set_exclude_log_components, register_waiter,
       unregister_waiter
  <2>2. \A d \in Calls : cpc'[d] \in {"get", "register", "tag"} => cpc[d] \in {"get", "register", "tag"}
    BY <1>9 DEF get, receive, expire, set_read_mask, set_exclude_log_components, register_waiter,
       unregister_waiter, Finish, TypeOK, CallTypes
  <2> QED
    BY <2>1, <2>2 DEF Failing, Collected
<1>10. ASSUME NEW c \in Calls, tag_waiter(c) PROVE Failing'
  <2>1. corr[c] \in Corrs
    BY <1>10 DEF tag_waiter, Numbered, Before, TypeOK, CallTypes
  <2>2. \A u \in Tokens : rpc[u] = "drop" => taking[u] # corr[c]
    BY <1>10 DEF tag_waiter, Failing, Collected
  <2>3. \A k \in Corrs : k # corr[c] => waiterInstance'[k] = waiterInstance[k]
    BY <1>10 DEF tag_waiter, TypeOK, WaiterTypes
  <2>4. \A d \in Calls : cpc'[d] \in {"get", "register", "tag"} => cpc[d] \in {"get", "register", "tag"}
    BY <1>10 DEF tag_waiter, TypeOK, CallTypes
  <2>5. UNCHANGED <<failing, taking, rpc, nextCorr, corr>>
    BY <1>10 DEF tag_waiter
  <2> QED
    BY <2>2, <2>3, <2>4, <2>5 DEF Failing, Collected, TypeOK, WaiterTypes
<1>11. ASSUME NEW c \in Calls, try_send(c) PROVE Failing'
  <2>1. {Refused(c), Accepted(c)} \cap {"get", "register", "tag"} = {}
    BY OpFields DEF Refused, Accepted
  <2>2. \E s \in {Refused(c), Accepted(c)} : cpc' = [cpc EXCEPT ![c] = s]
    BY <1>11, TrySend
  <2>3. \A d \in Calls : cpc'[d] \in {"get", "register", "tag"} => cpc[d] \in {"get", "register", "tag"}
    BY <2>1, <2>2 DEF TypeOK, CallTypes
  <2>4. UNCHANGED <<failing, taking, rpc, nextCorr, corr, waiterInstance>>
    BY <1>11 DEF try_send
  <2> QED
    BY <2>3, <2>4 DEF Failing, Collected
<1>12. ASSUME NEW c \in Calls, untag_waiter(c) PROVE Failing'
  <2>1. \A k \in Corrs : waiterInstance[k] = NoInstance => waiterInstance'[k] = NoInstance
    BY <1>12 DEF untag_waiter, TypeOK, WaiterTypes
  <2>2. \A d \in Calls : cpc'[d] \in {"get", "register", "tag"} => cpc[d] \in {"get", "register", "tag"}
    BY <1>12 DEF untag_waiter, TypeOK, CallTypes
  <2>3. UNCHANGED <<failing, taking, rpc, nextCorr, corr>>
    BY <1>12 DEF untag_waiter
  <2> QED
    BY <2>1, <2>2, <2>3 DEF Failing, Collected, TypeOK, WaiterTypes
<1>13. CASE UNCHANGED <<failing, taking, rpc, nextCorr, corr, cpc, waiterInstance>>
  BY <1>13 DEF Failing, Collected
<1>14. ASSUME NEW id \in Ids, try_recv_inbound(id)
      PROVE  UNCHANGED <<failing, taking, rpc, nextCorr, corr, cpc, waiterInstance>>
  BY <1>14 DEF try_recv_inbound
<1>15. ASSUME NEW t \in Tokens, deliver(t) \/ hangup(t)
      PROVE  UNCHANGED <<failing, taking, rpc, nextCorr, corr, cpc, waiterInstance>>
  BY <1>15 DEF deliver, hangup
<1> QED
  BY <1>1, <1>2, <1>3, <1>4, <1>5, <1>6, <1>7, <1>8, <1>9, <1>10, <1>11, <1>12, <1>13,
     <1>14, <1>15 DEF Next, Reader, Peer, Call, vars

\* A oneshot gets the reply to its own call's envelope, or none.
LEMMA SlotsStep ==
    ASSUME TypeOK, Items, Numbered, Sent, Channels, Waiters, Notifying, Failing, Slots,
       [Next]_vars
    PROVE  Slots'
<1> USE Numbers DEF mapVars, fieldVars, viewVars, channelVars, waiterVars, readerVars,
   requestVars, replyVars, callVars
<1>1. ASSUME NEW t \in Tokens, notify(t) PROVE Slots'
  <2>1. /\ tx[t] \in Calls /\ sentOn[tx[t]] # 0 /\ cpc[tx[t]] \notin Unsent
        /\ corr[tx[t]] \in delivered[sentOn[tx[t]]]
    BY <1>1, Answered DEF notify
  <2>2. /\ corr[tx[t]] = item[t].corr /\ item[t].corr # 0 /\ op[tx[t]].tag = "wait"
        /\ waiter_matches(op[tx[t]].kind, item[t])
    BY <1>1 DEF notify, Notifying
  <2>3. UNCHANGED <<cpc, corr, op, sentOn, delivered>>
    BY <1>1 DEF notify
  <2>4. CASE ~RxAlive(tx[t])
    BY <1>1, <2>3, <2>4 DEF notify, Slots
  <2>5. CASE RxAlive(tx[t])
    <3>1. cpc[tx[t]] = "await"
      BY <2>1, <2>5 DEF RxAlive, Unsent
    <3>2. slot' = [slot EXCEPT ![tx[t]] = "reply"] /\ reply' = [reply EXCEPT ![tx[t]] = item[t]]
      BY <1>1, <2>5 DEF notify
    <3> QED
      BY <2>1, <2>2, <2>3, <3>1, <3>2 DEF Slots, TypeOK, ItemTypes
  <2> QED
    BY <2>4, <2>5
<1>2. ASSUME NEW t \in Tokens, take_waiter(t) PROVE Slots'
  <2>1. taking[t] \in Corrs /\ UNCHANGED <<cpc, reply, corr, op, sentOn, delivered>>
    BY <1>2 DEF take_waiter, Failing, TypeOK, WaiterTypes
  <2>2. CASE slot' = slot
    BY <2>1, <2>2 DEF Slots
  <2>3. CASE /\ waiters[taking[t]] # NoCall /\ RxAlive(waiters[taking[t]])
             /\ slot' = [slot EXCEPT ![waiters[taking[t]]] = "closed"]
    <3>1. PICK c \in Calls : c = waiters[taking[t]]
      BY <2>1, <2>3 DEF TypeOK, WaiterTypes
    <3>2. corr[c] = taking[t] /\ op[c].tag = "wait"
      BY <2>1, <2>3, <3>1 DEF Waiters
    <3>3. cpc[c] \in {"send", "await"}
      BY <1>2, <2>3, <3>1, <3>2 DEF take_waiter, RxAlive, Failing, Collected
    <3> QED
      BY <2>1, <2>3, <3>1, <3>2, <3>3 DEF Slots, TypeOK, ItemTypes
  <2> QED
    BY <1>2, <2>2, <2>3 DEF take_waiter
<1>3. ASSUME NEW t \in Tokens, deliver(t) PROVE Slots'
  <2>1. UNCHANGED <<slot, cpc, reply, corr, op, sentOn>>
    BY <1>3 DEF deliver
  <2>2. \A u \in Tokens : delivered[u] \subseteq delivered'[u]
    BY <1>3 DEF deliver, TypeOK, ChannelTypes
  <2> QED
    BY <2>1, <2>2 DEF Slots, TypeOK, CallTypes
<1>4. ASSUME NEW c \in Calls, NEW sel \in Selectors, resolve_or_default(c, sel) PROVE Slots'
  <2>1. \A d \in Calls : d # c => cpc'[d] = cpc[d] /\ corr'[d] = corr[d]
    BY <1>4 DEF resolve_or_default, Finish, next_corr, TypeOK, CallTypes
  <2>2. cpc[c] = "idle" /\ UNCHANGED <<slot, reply, op, sentOn, delivered>>
    BY <1>4 DEF resolve_or_default
  <2> QED
    BY <2>1, <2>2 DEF Slots
<1>5. ASSUME NEW c \in Calls, enqueue(c) PROVE Slots'
  <2>1. \A d \in Calls : d # c => cpc'[d] = cpc[d] /\ corr'[d] = corr[d]
    BY <1>5 DEF enqueue, Finish, next_corr, TypeOK, CallTypes
  <2>2. cpc[c] = "enqueue" /\ UNCHANGED <<slot, reply, op, sentOn, delivered>>
    BY <1>5 DEF enqueue
  <2> QED
    BY <2>1, <2>2 DEF Slots
<1>6. ASSUME NEW c \in Calls, get(c) \/ register_waiter(c) \/ tag_waiter(c) \/ receive(c) \/
   expire(c) \/ untag_waiter(c) \/ unregister_waiter(c) \/ set_read_mask(c) \/
   set_exclude_log_components(c)
      PROVE  Slots'
  <2>1. UNCHANGED <<slot, reply, corr, op, sentOn, delivered>>
    BY <1>6 DEF get, expire, receive, register_waiter, tag_waiter, untag_waiter, unregister_waiter,
       set_read_mask, set_exclude_log_components
  <2>2. \A d \in Calls : slot[d] # "empty" /\ cpc[d] \in {"send", "await", "untag", "unregister", "done"}
            => cpc'[d] \in {"send", "await", "untag", "unregister", "done"}
    BY <1>6 DEF get, expire, receive, register_waiter, tag_waiter, untag_waiter, unregister_waiter,
       set_read_mask, set_exclude_log_components, Finish, TypeOK, CallTypes
  <2> QED
    BY <2>1, <2>2 DEF Slots
<1>7. ASSUME NEW c \in Calls, try_send(c) PROVE Slots'
  <2>1. UNCHANGED <<slot, reply, corr, op, delivered>> /\ cpc[c] = "send"
    BY <1>7 DEF try_send
  <2>2. sentOn[c] = 0 /\ (op[c].tag = "wait" => Refused(c) = "untag" /\ Accepted(c) = "await")
    BY <2>1 DEF Sent, Unsent, Refused, Accepted
  <2>3. \E s \in {Refused(c), Accepted(c)} : cpc' = [cpc EXCEPT ![c] = s]
    BY <1>7, TrySend
  <2>4. \A d \in Calls : d # c => sentOn'[d] = sentOn[d]
    BY <1>7, TrySend DEF TypeOK, CallTypes
  <2> QED
    BY <2>1, <2>2, <2>3, <2>4 DEF Slots, TypeOK, CallTypes
<1>8. CASE UNCHANGED <<slot, cpc, reply, corr, op, sentOn, delivered>>
  BY <1>8 DEF Slots
<1>9. ASSUME NEW id \in Ids, session(id) \/ try_recv_inbound(id)
      PROVE  UNCHANGED <<slot, cpc, reply, corr, op, sentOn, delivered>>
  BY <1>9 DEF session, try_recv_inbound
<1>10. ASSUME NEW t \in Tokens, insert(t) \/ owns(t) \/ set_heartbeat(t) \/
   complete_waiter(t) \/ push_inbound(t) \/ remove_if(t) \/ fail_waiters(t) \/
   reader_done(t) \/ next(t) \/ end_of_stream(t) \/ hangup(t) \/ (\E k \in Corrs :
   take_waiter_instance(t, k))
      PROVE  UNCHANGED <<slot, cpc, reply, corr, op, sentOn, delivered>>
  BY <1>10 DEF insert, owns, set_heartbeat, complete_waiter, push_inbound, remove_if,
     fail_waiters, take_waiter_instance, reader_done, next, end_of_stream, hangup
<1> QED
  BY <1>1, <1>2, <1>3, <1>4, <1>5, <1>6, <1>7, <1>8, <1>9, <1>10 DEF Next, Reader, Peer,
     Call, vars

\* A waiting call is taken off the map only by who resolves its oneshot.
LEMMA KnownStep ==
    ASSUME TypeOK, Opened, Items, Numbered, Steps, Sent, Channels, Waiters, Notifying,
       Failing, Known, [Next]_vars
    PROVE  Known'
<1> USE Numbers DEF mapVars, fieldVars, viewVars, channelVars, waiterVars, readerVars,
   requestVars, replyVars, callVars
<1>1. ASSUME NEW id \in Ids, session(id) PROVE Known'
  <2>1. UNCHANGED <<cpc, waiters, corr, op, slot, tx>>
    BY <1>1 DEF session
  <2>2. \A t \in Tokens : rpc[t] = "notify" => rpc'[t] = "notify"
    BY <1>1 DEF session, Opened, TypeOK, MapTypes
  <2> QED
    BY <2>1, <2>2 DEF Known, Filing, Waiting, Answering
<1>2. ASSUME NEW t \in Tokens, insert(t) \/ owns(t) \/ set_heartbeat(t) \/ push_inbound(t)
   \/ remove_if(t) \/ fail_waiters(t) \/ reader_done(t) \/ next(t) \/ end_of_stream(t)
      PROVE  Known'
  <2>1. UNCHANGED <<cpc, waiters, corr, op, slot, tx>>
    BY <1>2 DEF owns, end_of_stream, reader_done, set_heartbeat, fail_waiters, remove_if, insert,
       push_inbound, next
  <2>2. \A u \in Tokens : rpc[u] = "notify" => rpc'[u] = "notify"
    BY <1>2 DEF owns, end_of_stream, reader_done, set_heartbeat, fail_waiters, remove_if, insert,
       push_inbound, next, TypeOK, MapTypes
  <2> QED
    BY <2>1, <2>2 DEF Known, Filing, Waiting, Answering
<1>3. ASSUME NEW t \in Tokens, complete_waiter(t) PROVE Known'
  <2>1. UNCHANGED <<cpc, corr, op, slot>>
    BY <1>3 DEF complete_waiter
  <2>2. \A u \in Tokens : rpc[u] = "notify" => rpc'[u] = "notify" /\ tx'[u] = tx[u]
    BY <1>3 DEF complete_waiter, TypeOK, MapTypes, WaiterTypes
  <2>3. CASE waiters' = waiters
    BY <2>1, <2>2, <2>3 DEF Known, Filing, Waiting, Answering
  <2>4. CASE Completes(item[t])
    <3>1. item[t].corr \in Corrs /\ waiters[item[t].corr] # NoCall
      BY <2>4 DEF Completes, TypeOK, ItemTypes, Messages
    <3>2. PICK c \in Calls : c = waiters[item[t].corr]
      BY <3>1 DEF TypeOK, WaiterTypes
    <3>3. corr[c] = item[t].corr /\ cpc[c] # "tag"
      BY <1>3, <3>1, <3>2, EchoOfCall DEF complete_waiter, Waiters, Unsent
    <3>4. rpc'[t] = "notify" /\ tx'[t] = c
      BY <1>3, <2>4, <3>2 DEF complete_waiter, TypeOK, MapTypes, WaiterTypes
    <3>5. ASSUME NEW d \in Calls, d # c, waiters[corr[d]] = d PROVE waiters'[corr[d]] = d
      <4>1. corr[d] # item[t].corr
        BY <3>2, <3>5
      <4>2. waiters' = [waiters EXCEPT ![item[t].corr] = NoCall]
        BY <1>3, <2>4 DEF complete_waiter
      <4> QED
        BY <4>1, <4>2, <3>5 DEF TypeOK, WaiterTypes
    <3> QED
      BY <2>1, <2>2, <3>3, <3>4, <3>5 DEF Known, Filing, Waiting, Answering
  <2> QED
    BY <1>3, <2>3, <2>4 DEF complete_waiter
<1>4. ASSUME NEW t \in Tokens, notify(t) PROVE Known'
  <2>1. PICK d \in Calls : d = tx[t]
    BY <1>4 DEF notify, Notifying
  <2>2. \A u \in Tokens : u # t /\ rpc[u] = "notify" => rpc'[u] = "notify" /\ tx'[u] = tx[u]
    BY <1>4 DEF notify, TypeOK, MapTypes, WaiterTypes
  <2>3. (RxAlive(d) => slot'[d] # "empty") /\ UNCHANGED <<cpc, corr, op, waiters>>
    BY <1>4, <2>1 DEF notify, TypeOK, ItemTypes
  <2>4. \A c \in Calls : c # d => slot'[c] = slot[c]
    BY <1>4, <2>1 DEF notify, TypeOK, ItemTypes
  <2>5. \A c \in Calls : c # d /\ Answering(c) => Answering(c)'
    BY <2>1, <2>2 DEF Answering
  <2>6. ~Filing(d)' /\ ~Waiting(d)'
    BY <2>3 DEF Filing, Waiting, RxAlive
  <2>7. \A c \in Calls : c # d => (Filing(c)' => Filing(c)) /\ (Waiting(c)' => Waiting(c))
    BY <2>3, <2>4 DEF Filing, Waiting
  <2> QED
    BY <2>3, <2>5, <2>6, <2>7 DEF Known
<1>5. ASSUME NEW t \in Tokens, NEW k \in Corrs, take_waiter_instance(t, k) PROVE Known'
  <2>1. UNCHANGED <<cpc, waiters, corr, op, slot, tx>>
    BY <1>5 DEF take_waiter_instance
  <2>2. \A u \in Tokens : rpc[u] = "notify" => rpc'[u] = "notify"
    BY <1>5 DEF take_waiter_instance, TypeOK, MapTypes
  <2> QED
    BY <2>1, <2>2 DEF Known, Filing, Waiting, Answering
<1>6. ASSUME NEW t \in Tokens, take_waiter(t) PROVE Known'
  <2> DEFINE w == waiters[taking[t]]
  <2>1. taking[t] \in Corrs /\ UNCHANGED <<cpc, corr, op, tx>>
    BY <1>6 DEF take_waiter, Failing, TypeOK, WaiterTypes
  <2>2. \A u \in Tokens : rpc[u] = "notify" => rpc'[u] = "notify"
    BY <1>6 DEF take_waiter, TypeOK, MapTypes
  <2>3. \A c \in Calls : c # w => slot'[c] = slot[c]
    BY <1>6 DEF take_waiter, TypeOK, ItemTypes
  <2>4. ASSUME NEW c \in Calls, c = w
        PROVE  cpc[c] # "tag" /\ ~Filing(c)' /\ ~Waiting(c)'
    <3>1. c # NoCall
      BY NamesAssumption
    <3>2. corr[c] = taking[t] /\ cpc[c] # "tag"
      BY <1>6, <2>1, <2>4, <3>1 DEF take_waiter, Waiters, Failing, Collected
    <3>3. RxAlive(c) => slot'[c] = "closed"
      BY <1>6, <2>4, <3>1 DEF take_waiter, TypeOK, ItemTypes
    <3> QED
      BY <2>1, <3>2, <3>3 DEF Filing, Waiting, RxAlive
  <2>5. ASSUME NEW c \in Calls, c # w, waiters[corr[c]] = c PROVE waiters'[corr[c]] = c
    <3>1. corr[c] # taking[t]
      BY <2>5
    <3> QED
      BY <1>6, <2>5, <3>1 DEF take_waiter, TypeOK, WaiterTypes
  <2>6. \A c \in Calls : Answering(c) => Answering(c)'
    BY <2>1, <2>2 DEF Answering
  <2>7. \A c \in Calls : c # w => (Filing(c)' => Filing(c)) /\ (Waiting(c)' => Waiting(c))
    BY <2>1, <2>3 DEF Filing, Waiting
  <2> HIDE DEF w
  <2> QED
    BY <2>1, <2>4, <2>5, <2>6, <2>7 DEF Known
<1>7. ASSUME NEW c \in Calls, NEW sel \in Selectors, resolve_or_default(c, sel) PROVE Known'
  <2>1. \A d \in Calls : d # c => cpc'[d] = cpc[d] /\ corr'[d] = corr[d]
    BY <1>7 DEF resolve_or_default, Finish, next_corr, TypeOK, CallTypes
  <2>2. UNCHANGED <<slot, op, waiters, rpc, tx>>
    BY <1>7 DEF resolve_or_default
  <2>3. cpc'[c] # "tag" /\ cpc'[c] # "await" /\ (cpc'[c] = "send" => op[c].tag # "wait")
    BY <1>7 DEF resolve_or_default, Finish, TypeOK, CallTypes
  <2> QED
    BY <2>1, <2>2, <2>3 DEF Known, Filing, Waiting, Answering
<1>8. ASSUME NEW c \in Calls, enqueue(c) PROVE Known'
  <2>1. \A d \in Calls : d # c => cpc'[d] = cpc[d] /\ corr'[d] = corr[d]
    BY <1>8 DEF enqueue, Finish, next_corr, TypeOK, CallTypes
  <2>2. UNCHANGED <<slot, op, waiters, rpc, tx>> /\ op[c].tag = "view"
    BY <1>8 DEF enqueue, Steps
  <2>3. cpc'[c] \in {"send", "done"}
    BY <1>8 DEF enqueue, Finish, TypeOK, CallTypes
  <2> QED
    BY <2>1, <2>2, <2>3 DEF Known, Filing, Waiting, Answering
<1>9. ASSUME NEW c \in Calls, get(c) \/ receive(c) \/ expire(c) \/ untag_waiter(c) \/
   set_read_mask(c) \/ set_exclude_log_components(c)
      PROVE  Known'
  <2>1. UNCHANGED <<slot, corr, op, waiters, rpc, tx>>
    BY <1>9 DEF get, receive, expire, untag_waiter, set_read_mask, set_exclude_log_components
  <2>2. \A d \in Calls : cpc'[d] \in {"tag", "send", "await"} => cpc'[d] = cpc[d]
    BY <1>9 DEF get, receive, expire, untag_waiter, set_read_mask, set_exclude_log_components,
       Finish, TypeOK, CallTypes
  <2> QED
    BY <2>1, <2>2 DEF Known, Filing, Waiting, Answering
<1>10. ASSUME NEW c \in Calls, register_waiter(c) PROVE Known'
  <2>1. corr[c] \in Corrs
    BY <1>10 DEF register_waiter, Numbered, Before, TypeOK, CallTypes
  <2>2. waiters'[corr[c]] = c /\ cpc'[c] = "tag" /\ UNCHANGED <<corr, op, slot, rpc, tx>>
    BY <1>10, <2>1 DEF register_waiter, TypeOK, WaiterTypes, CallTypes
  <2>3. \A d \in Calls : d # c => cpc'[d] = cpc[d]
    BY <1>10 DEF register_waiter, TypeOK, CallTypes
  <2>4. ASSUME NEW d \in Calls, d # c, waiters[corr[d]] = d PROVE waiters'[corr[d]] = d
    <3>1. corr[d] # corr[c]
      BY <2>1, <2>4 DEF Numbered
    <3> QED
      BY <1>10, <2>4, <3>1 DEF register_waiter, TypeOK, WaiterTypes
  <2> QED
    BY <2>2, <2>3, <2>4 DEF Known, Filing, Waiting, Answering
<1>11. ASSUME NEW c \in Calls, tag_waiter(c) PROVE Known'
  <2>1. cpc[c] = "tag" /\ UNCHANGED <<waiters, corr, op, slot, rpc, tx>>
    BY <1>11 DEF tag_waiter
  <2>2. cpc'[c] = "send" /\ \A d \in Calls : d # c => cpc'[d] = cpc[d]
    BY <1>11 DEF tag_waiter, TypeOK, CallTypes
  <2> QED
    BY <2>1, <2>2 DEF Known, Filing, Waiting, Answering
<1>12. ASSUME NEW c \in Calls, try_send(c) PROVE Known'
  <2>1. UNCHANGED <<slot, corr, op, waiters, rpc, tx>> /\ cpc[c] = "send"
    BY <1>12 DEF try_send
  <2>2. {Refused(c), Accepted(c)} \cap {"tag", "send"} = {} /\ Refused(c) # "await"
    BY OpFields DEF Refused, Accepted
  <2>3. Accepted(c) = "await" => op[c].tag = "wait"
    BY OpFields DEF Accepted
  <2>4. \E s \in {Refused(c), Accepted(c)} : cpc' = [cpc EXCEPT ![c] = s]
    BY <1>12, TrySend
  <2>5. \A d \in Calls : d # c => cpc'[d] = cpc[d]
    BY <2>4 DEF TypeOK, CallTypes
  <2>6. cpc'[c] \notin {"tag", "send"} /\ (cpc'[c] = "await" => op[c].tag = "wait")
    BY <2>2, <2>3, <2>4 DEF TypeOK, CallTypes
  <2> QED
    BY <2>1, <2>5, <2>6 DEF Known, Filing, Waiting, Answering
<1>13. ASSUME NEW c \in Calls, unregister_waiter(c) PROVE Known'
  <2>1. corr[c] \in Corrs /\ cpc'[c] = "done" /\ UNCHANGED <<corr, op, slot, rpc, tx>>
    BY <1>13 DEF unregister_waiter, Numbered, Before, TypeOK, CallTypes
  <2>2. \A d \in Calls : d # c => cpc'[d] = cpc[d]
    BY <1>13 DEF unregister_waiter, TypeOK, CallTypes
  <2>3. ASSUME NEW d \in Calls, d # c, waiters[corr[d]] = d PROVE waiters'[corr[d]] = d
    <3>1. corr[d] # corr[c]
      BY <2>1, <2>3 DEF Numbered
    <3> QED
      BY <1>13, <2>3, <3>1 DEF unregister_waiter, TypeOK, WaiterTypes
  <2> QED
    BY <2>1, <2>2, <2>3 DEF Known, Filing, Waiting, Answering
<1>14. CASE UNCHANGED <<cpc, waiters, corr, op, slot, rpc, tx>>
  BY <1>14 DEF Known, Filing, Waiting, Answering
<1>15. ASSUME NEW id \in Ids, try_recv_inbound(id)
      PROVE  UNCHANGED <<cpc, waiters, corr, op, slot, rpc, tx>>
  BY <1>15 DEF try_recv_inbound
<1>16. ASSUME NEW t \in Tokens, deliver(t) \/ hangup(t)
      PROVE  UNCHANGED <<cpc, waiters, corr, op, slot, rpc, tx>>
  BY <1>16 DEF deliver, hangup
<1> QED
  BY <1>1, <1>2, <1>3, <1>4, <1>5, <1>6, <1>7, <1>8, <1>9, <1>10, <1>11, <1>12, <1>13,
     <1>14, <1>15, <1>16 DEF Next, Reader, Peer, Call, vars

\* A waiting call stays filed under its id until its oneshot is about to resolve.
LEMMA FiledStep ==
    ASSUME TypeOK, Opened, RegisteredHasReader, Items, Numbered, Steps, Sent, Channels,
       Waiters, Notifying, Failing, Known, Filed, [Next]_vars
    PROVE  Filed'
<1> USE Numbers DEF mapVars, fieldVars, viewVars, channelVars, waiterVars, readerVars,
   requestVars, replyVars, callVars
<1>1. ASSUME NEW id \in Ids, session(id) PROVE Filed'
  <2>1. UNCHANGED <<cpc, slot, op, waiterInstance, corr, cid, taking, tx, sentOn, failing>>
    BY <1>1 DEF session
  <2>2. \A u \in Tokens : /\ rpc[u] \in {"drop", "notify"} => rpc'[u] = rpc[u]
                          /\ rpc'[u] \in {"fail", "drop"} => rpc'[u] = rpc[u]
    BY <1>1 DEF session, Opened, TypeOK, MapTypes
  <2>3. \A c \in Calls : Waiting(c) => sentOn[c] \in Tokens
    BY DEF Waiting, Sent, TypeOK, CallTypes
  <2> QED
    BY <2>1, <2>2, <2>3 DEF Filed, Filing, Waiting, Answering, Dropping
<1>2. ASSUME NEW t \in Tokens, insert(t) \/ owns(t) \/ set_heartbeat(t) \/ push_inbound(t)
   \/ remove_if(t) \/ reader_done(t) \/ next(t) \/ end_of_stream(t)
      PROVE  Filed'
  <2>1. UNCHANGED <<cpc, slot, op, waiterInstance, corr, cid, taking, tx, sentOn, failing>>
    BY <1>2 DEF owns, end_of_stream, reader_done, set_heartbeat, remove_if, insert, push_inbound,
       next
  <2>2. \A u \in Tokens : /\ rpc[u] \in {"drop", "notify"} => rpc'[u] = rpc[u]
                          /\ rpc'[u] \in {"fail", "drop"} => rpc'[u] = rpc[u]
    BY <1>2 DEF owns, end_of_stream, reader_done, set_heartbeat, remove_if, insert, push_inbound,
       next, Opened, TypeOK, MapTypes
  <2>3. \A c \in Calls : Waiting(c) => sentOn[c] \in Tokens
    BY DEF Waiting, Sent, TypeOK, CallTypes
  <2> QED
    BY <2>1, <2>2, <2>3 DEF Filed, Filing, Waiting, Answering, Dropping
<1>3. ASSUME NEW t \in Tokens, complete_waiter(t) PROVE Filed'
  <2>1. UNCHANGED <<cpc, slot, op, waiterInstance, corr, cid, taking, sentOn, failing>>
    BY <1>3 DEF complete_waiter
  <2>2. \A u \in Tokens : /\ rpc[u] \in {"drop", "notify"} => rpc'[u] = rpc[u]
                          /\ rpc'[u] \in {"fail", "drop"} => rpc'[u] = rpc[u]
                          /\ rpc[u] = "notify" => tx'[u] = tx[u]
    BY <1>3 DEF complete_waiter, TypeOK, MapTypes, WaiterTypes
  <2>3. \A c \in Calls : Waiting(c) => sentOn[c] \in Tokens
    BY DEF Waiting, Sent, TypeOK, CallTypes
  <2> QED
    BY <2>1, <2>2, <2>3 DEF Filed, Filing, Waiting, Answering, Dropping
<1>4. ASSUME NEW t \in Tokens, notify(t) PROVE Filed'
  <2>1. PICK d \in Calls : d = tx[t] /\ corr[d] = item[t].corr
    BY <1>4 DEF notify, Notifying
  <2>2. \A u \in Tokens : u # t => rpc'[u] = rpc[u] /\ tx'[u] = tx[u]
    BY <1>4 DEF notify, TypeOK, MapTypes, WaiterTypes
  <2>3. /\ rpc[t] = "notify" /\ rpc'[t] = "push" /\ item[t].corr # 0
        /\ UNCHANGED <<cpc, op, corr, cid, taking, sentOn, failing>>
    BY <1>4 DEF notify, Notifying, TypeOK, MapTypes
  <2>4. ~Filing(d)' /\ ~Waiting(d)'
    <3>1. RxAlive(d) => slot'[d] # "empty"
      BY <1>4, <2>1 DEF notify, TypeOK, ItemTypes
    <3> QED
      BY <2>3, <3>1 DEF Filing, Waiting, RxAlive
  <2>5. ASSUME NEW c \in Calls, c # d
        PROVE  /\ Filing(c)' => Filing(c)
               /\ Waiting(c)' => Waiting(c)
               /\ Dropping(c) => Dropping(c)'
               /\ Answering(c) => Answering(c)'
    <3>1. slot'[c] = slot[c]
      BY <1>4, <2>1, <2>5 DEF notify, TypeOK, ItemTypes
    <3> QED
      BY <2>1, <2>2, <2>3, <2>5, <3>1 DEF Filing, Waiting, Dropping, Answering
  <2>6. ASSUME NEW c \in Calls, c # d, waiterInstance[corr[c]] = cid[c]
        PROVE  waiterInstance'[corr[c]] = cid[c]
    <3>1. corr[c] # item[t].corr
      BY <2>1, <2>3, <2>6 DEF Numbered
    <3> QED
      BY <1>4, <2>6, <3>1 DEF notify, TypeOK, WaiterTypes
  <2>7. \A c \in Calls : Waiting(c) => sentOn[c] \in Tokens
    BY DEF Waiting, Sent, TypeOK, CallTypes
  <2> QED
    BY <2>2, <2>3, <2>4, <2>5, <2>6, <2>7 DEF Filed
<1>5. ASSUME NEW t \in Tokens, fail_waiters(t) PROVE Filed'
  <2>1. UNCHANGED <<cpc, slot, op, waiterInstance, corr, cid, taking, tx, sentOn>>
    BY <1>5 DEF fail_waiters
  <2>2. /\ rpc[t] = "collect"
        /\ \A u \in Tokens : u # t => rpc'[u] = rpc[u] /\ failing'[u] = failing[u]
    BY <1>5 DEF fail_waiters, TypeOK, MapTypes, WaiterTypes
  <2>3. rpc'[t] = "fail" /\ failing'[t] = {k \in Corrs : waiterInstance[k] = sid[t]}
    BY <1>5 DEF fail_waiters, TypeOK, MapTypes, WaiterTypes
  <2>4. \A c \in Calls : /\ Filing(c)' => Filing(c)
                         /\ Waiting(c)' => Waiting(c)
                         /\ Dropping(c) => Dropping(c)'
                         /\ Answering(c) => Answering(c)'
    BY <2>1, <2>2, <2>3 DEF Filing, Waiting, Dropping, Answering
  <2>5. ASSUME NEW c \in Calls, Waiting(c), sentOn[c] = t
        PROVE  corr[c] \in failing'[t] \/ Dropping(c) \/ Answering(c)
    <3>1. sid[t] = cid[c] /\ corr[c] \in Corrs
      BY <2>5 DEF Waiting, Sent, Numbered, Before, TypeOK, CallTypes
    <3> QED
      BY <2>3, <2>5, <3>1 DEF Filed
  <2>6. \A c \in Calls : Waiting(c) => sentOn[c] \in Tokens
    BY DEF Waiting, Sent, TypeOK, CallTypes
  <2>7. \A c \in Calls : Filing(c)' \/ Waiting(c)' =>
           waiterInstance'[corr'[c]] = cid'[c] \/ Dropping(c)' \/ Answering(c)'
    BY <2>1, <2>4 DEF Filed
  <2>8. \A c \in Calls : Waiting(c)' /\ rpc'[sentOn'[c]] \in {"fail", "drop"} =>
           corr'[c] \in failing'[sentOn'[c]] \/ Dropping(c)' \/ Answering(c)'
    BY <2>1, <2>2, <2>4, <2>5, <2>6 DEF Filed
  <2> QED
    BY <2>7, <2>8 DEF Filed
<1>6. ASSUME NEW t \in Tokens, NEW k \in Corrs, take_waiter_instance(t, k) PROVE Filed'
  <2>1. UNCHANGED <<cpc, slot, op, corr, cid, tx, sentOn>>
    BY <1>6 DEF take_waiter_instance
  <2>2. /\ rpc[t] = "fail"
        /\ \A u \in Tokens : u # t => /\ rpc'[u] = rpc[u] /\ failing'[u] = failing[u]
                                      /\ taking'[u] = taking[u]
    BY <1>6 DEF take_waiter_instance, TypeOK, MapTypes, WaiterTypes
  <2>3. rpc'[t] = "drop" /\ failing'[t] = failing[t] \ {k} /\ taking'[t] = k
    BY <1>6 DEF take_waiter_instance, TypeOK, MapTypes, WaiterTypes
  <2>4. \A c \in Calls : /\ Filing(c)' => Filing(c)
                         /\ Waiting(c)' => Waiting(c)
                         /\ Dropping(c) => Dropping(c)'
                         /\ Answering(c) => Answering(c)'
                         /\ corr[c] = k => Dropping(c)'
    BY <2>1, <2>2, <2>3 DEF Filing, Waiting, Dropping, Answering
  <2>5. \A c \in Calls : corr[c] # k /\ waiterInstance[corr[c]] = cid[c] =>
           waiterInstance'[corr[c]] = cid[c]
    BY <1>6 DEF take_waiter_instance, TypeOK, WaiterTypes
  <2>6. \A c \in Calls : Waiting(c) => sentOn[c] \in Tokens
    BY DEF Waiting, Sent, TypeOK, CallTypes
  <2>7. \A c \in Calls : Filing(c)' \/ Waiting(c)' =>
           waiterInstance'[corr'[c]] = cid'[c] \/ Dropping(c)' \/ Answering(c)'
    BY <2>1, <2>4, <2>5 DEF Filed
  <2>8. \A c \in Calls : Waiting(c)' /\ rpc'[sentOn'[c]] \in {"fail", "drop"} =>
           corr'[c] \in failing'[sentOn'[c]] \/ Dropping(c)' \/ Answering(c)'
    BY <2>1, <2>2, <2>3, <2>4, <2>6 DEF Filed
  <2> QED
    BY <2>7, <2>8 DEF Filed
<1>7. ASSUME NEW t \in Tokens, take_waiter(t) PROVE Filed'
  <2>1. UNCHANGED <<cpc, op, waiterInstance, corr, cid, tx, sentOn, failing>>
    BY <1>7 DEF take_waiter
  <2>2. /\ rpc[t] = "drop" /\ rpc'[t] = "fail"
        /\ \A u \in Tokens : u # t => rpc'[u] = rpc[u] /\ taking'[u] = taking[u]
    BY <1>7 DEF take_waiter, TypeOK, MapTypes, WaiterTypes
  <2>3. \A c \in Calls : slot'[c] = "empty" => slot[c] = "empty"
    BY <1>7 DEF take_waiter, TypeOK, ItemTypes
  <2>4. \A c \in Calls : /\ Filing(c)' => Filing(c)
                         /\ Waiting(c)' => Waiting(c)
                         /\ Answering(c) => Answering(c)'
                         /\ Dropping(c) /\ corr[c] # taking[t] => Dropping(c)'
    BY <2>1, <2>2, <2>3 DEF Filing, Waiting, Dropping, Answering
  <2>5. ASSUME NEW c \in Calls, corr[c] = taking[t], Filing(c)' \/ Waiting(c)'
        PROVE  Answering(c)
    <3>1. c # NoCall /\ taking[t] \in Corrs /\ RxAlive(c)
      BY <1>7, <2>1, <2>5, NamesAssumption DEF take_waiter, Failing, Filing, Waiting, RxAlive,
         TypeOK, WaiterTypes
    <3>2. waiters[taking[t]] = c => slot'[c] = "closed"
      BY <1>7, <3>1 DEF take_waiter, TypeOK, ItemTypes
    <3>3. waiters[corr[c]] # c
      BY <2>5, <3>2 DEF Filing, Waiting
    <3> QED
      BY <2>4, <2>5, <3>3 DEF Known
  <2>6. \A c \in Calls : Waiting(c) => sentOn[c] \in Tokens
    BY DEF Waiting, Sent, TypeOK, CallTypes
  <2>7. \A c \in Calls : Filing(c)' \/ Waiting(c)' =>
           waiterInstance'[corr'[c]] = cid'[c] \/ Dropping(c)' \/ Answering(c)'
    BY <2>1, <2>4, <2>5 DEF Filed
  <2>8. ASSUME NEW c \in Calls, Waiting(c)', rpc'[sentOn'[c]] \in {"fail", "drop"}
        PROVE  corr'[c] \in failing'[sentOn'[c]] \/ Dropping(c)' \/ Answering(c)'
    <3>1. Waiting(c) /\ sentOn[c] \in Tokens /\ rpc[sentOn[c]] \in {"fail", "drop"}
      BY <2>1, <2>2, <2>4, <2>6, <2>8
    <3>2. corr[c] = taking[t] => Answering(c)
      BY <2>5, <2>8
    <3> QED
      BY <2>1, <2>4, <3>1, <3>2 DEF Filed
  <2> QED
    BY <2>7, <2>8 DEF Filed
<1>8. ASSUME NEW c \in Calls, NEW sel \in Selectors, resolve_or_default(c, sel) PROVE Filed'
  <2>1. \A d \in Calls : d # c => cpc'[d] = cpc[d] /\ corr'[d] = corr[d] /\ cid'[d] = cid[d]
    BY <1>8 DEF resolve_or_default, Finish, next_corr, TypeOK, CallTypes
  <2>2. UNCHANGED <<slot, op, waiterInstance, rpc, taking, tx, sentOn, failing>>
    BY <1>8 DEF resolve_or_default
  <2>3. cpc'[c] # "await" /\ (cpc'[c] = "send" => op[c].tag # "wait")
    BY <1>8 DEF resolve_or_default, Finish, TypeOK, CallTypes
  <2> QED
    BY <2>1, <2>2, <2>3 DEF Filed, Filing, Waiting, Answering, Dropping
<1>9. ASSUME NEW c \in Calls, enqueue(c) PROVE Filed'
  <2>1. \A d \in Calls : d # c => cpc'[d] = cpc[d] /\ corr'[d] = corr[d]
    BY <1>9 DEF enqueue, Finish, next_corr, TypeOK, CallTypes
  <2>2. /\ UNCHANGED <<slot, op, cid, waiterInstance, rpc, taking, tx, sentOn, failing>>
        /\ op[c].tag = "view"
    BY <1>9 DEF enqueue, Steps
  <2>3. cpc'[c] \in {"send", "done"}
    BY <1>9 DEF enqueue, Finish, TypeOK, CallTypes
  <2> QED
    BY <2>1, <2>2, <2>3 DEF Filed, Filing, Waiting, Answering, Dropping
<1>10. ASSUME NEW c \in Calls, get(c) \/ register_waiter(c) \/ receive(c) \/ expire(c) \/
   unregister_waiter(c) \/ set_read_mask(c) \/ set_exclude_log_components(c)
      PROVE  Filed'
  <2>1. UNCHANGED <<slot, corr, op, cid, waiterInstance, rpc, taking, tx, sentOn, failing>>
    BY <1>10 DEF get, receive, expire, register_waiter, unregister_waiter, set_read_mask,
       set_exclude_log_components
  <2>2. \A d \in Calls : cpc'[d] \in {"send", "await"} => cpc'[d] = cpc[d]
    BY <1>10 DEF get, receive, expire, register_waiter, unregister_waiter, set_read_mask,
       set_exclude_log_components, Finish, TypeOK, CallTypes
  <2> QED
    BY <2>1, <2>2 DEF Filed, Filing, Waiting, Answering, Dropping
<1>11. ASSUME NEW c \in Calls, tag_waiter(c) PROVE Filed'
  <2>1. corr[c] \in Corrs /\ UNCHANGED <<slot, op, corr, cid, rpc, taking, tx, sentOn, failing>>
    BY <1>11 DEF tag_waiter, Numbered, Before, TypeOK, CallTypes
  <2>2. cpc'[c] = "send" /\ \A d \in Calls : d # c => cpc'[d] = cpc[d]
    BY <1>11 DEF tag_waiter, TypeOK, CallTypes
  <2>3. waiterInstance'[corr[c]] = cid[c]
    BY <1>11, <2>1 DEF tag_waiter, TypeOK, WaiterTypes
  <2>4. ASSUME NEW d \in Calls, d # c, waiterInstance[corr[d]] = cid[d]
        PROVE  waiterInstance'[corr[d]] = cid[d]
    <3>1. corr[d] # corr[c]
      BY <2>1, <2>4 DEF Numbered
    <3> QED
      BY <1>11, <2>4, <3>1 DEF tag_waiter, TypeOK, WaiterTypes
  <2> QED
    BY <2>1, <2>2, <2>3, <2>4 DEF Filed, Filing, Waiting, Answering, Dropping
<1>12. ASSUME NEW c \in Calls, try_send(c) PROVE Filed'
  <2>1. /\ UNCHANGED <<slot, op, corr, cid, waiterInstance, rpc, taking, tx, failing>>
        /\ cpc[c] = "send"
    BY <1>12 DEF try_send
  <2>2. {Refused(c), Accepted(c)} \cap {"send"} = {} /\ Refused(c) # "await"
    BY OpFields DEF Refused, Accepted
  <2>3. Accepted(c) = "await" => op[c].tag = "wait"
    BY OpFields DEF Accepted
  <2>4. \A d \in Calls : d # c => cpc'[d] = cpc[d] /\ sentOn'[d] = sentOn[d]
    BY <1>12, TrySend DEF TypeOK, CallTypes
  <2>5. \/ cpc'[c] = Refused(c)
        \/ cpc'[c] = Accepted(c) /\ sentOn'[c] = owner[cid[c]] /\ owner[cid[c]] # 0 /\ cid[c] \in Ids
    BY <1>12, TrySend DEF TypeOK, CallTypes
  <2>6. /\ cpc'[c] # "send"
        /\ cpc'[c] = "await" => op[c].tag = "wait" /\ rpc[sentOn'[c]] \notin {"fail", "drop"}
    BY <2>2, <2>3, <2>5 DEF RegisteredHasReader
  <2> QED
    BY <2>1, <2>4, <2>6 DEF Filed, Filing, Waiting, Answering, Dropping
<1>13. ASSUME NEW c \in Calls, untag_waiter(c) PROVE Filed'
  <2>1. /\ corr[c] \in Corrs /\ cpc'[c] = "unregister"
        /\ UNCHANGED <<slot, op, corr, cid, rpc, taking, tx, sentOn, failing>>
    BY <1>13 DEF untag_waiter, Numbered, Before, TypeOK, CallTypes
  <2>2. \A d \in Calls : d # c => cpc'[d] = cpc[d]
    BY <1>13 DEF untag_waiter, TypeOK, CallTypes
  <2>3. ASSUME NEW d \in Calls, d # c, waiterInstance[corr[d]] = cid[d]
        PROVE  waiterInstance'[corr[d]] = cid[d]
    <3>1. corr[d] # corr[c]
      BY <2>1, <2>3 DEF Numbered
    <3> QED
      BY <1>13, <2>3, <3>1 DEF untag_waiter, TypeOK, WaiterTypes
  <2> QED
    BY <2>1, <2>2, <2>3 DEF Filed, Filing, Waiting, Answering, Dropping
<1>14. CASE UNCHANGED <<cpc, slot, op, waiterInstance, corr, cid, rpc, taking, tx, sentOn, failing>>
  BY <1>14 DEF Filed, Filing, Waiting, Answering, Dropping
<1>15. ASSUME NEW id \in Ids, try_recv_inbound(id)
      PROVE  UNCHANGED <<cpc, slot, op, waiterInstance, corr, cid, rpc, taking, tx, sentOn, failing>>
  BY <1>15 DEF try_recv_inbound
<1>16. ASSUME NEW t \in Tokens, deliver(t) \/ hangup(t)
      PROVE  UNCHANGED <<cpc, slot, op, waiterInstance, corr, cid, rpc, taking, tx, sentOn, failing>>
  BY <1>16 DEF deliver, hangup
<1> QED
  BY <1>1, <1>2, <1>3, <1>4, <1>5, <1>6, <1>7, <1>8, <1>9, <1>10, <1>11, <1>12, <1>13,
     <1>14, <1>15, <1>16 DEF Next, Reader, Peer, Call, vars

\* The task of a stream ends when nothing waits on it any more.
LEMMA NotStrandedStep ==
    ASSUME TypeOK, Opened, RegisteredHasReader, Items, Numbered, Sent, Channels, Waiters,
       Notifying, Failing, Known, Filed, NotStranded, [Next]_vars
    PROVE  NotStranded'
<1> USE Numbers DEF mapVars, fieldVars, viewVars, channelVars, waiterVars, readerVars,
   requestVars, replyVars, callVars
<1>1. ASSUME NEW id \in Ids, session(id) PROVE NotStranded'
  <2>1. UNCHANGED <<cpc, slot, taking, tx, corr, sentOn>>
    BY <1>1 DEF session
  <2>2. \A u \in Tokens : /\ rpc[u] \in {"drop", "notify"} => rpc'[u] = rpc[u]
                          /\ rpc'[u] = "removed" => rpc[u] = "removed"
    BY <1>1 DEF session, Opened, TypeOK, MapTypes
  <2>3. \A c \in Calls : cpc[c] = "await" => sentOn[c] \in Tokens
    BY DEF Sent, TypeOK, CallTypes
  <2> QED
    BY <2>1, <2>2, <2>3 DEF NotStranded
<1>2. ASSUME NEW t \in Tokens, insert(t) \/ owns(t) \/ set_heartbeat(t) \/
   complete_waiter(t) \/ push_inbound(t) \/ remove_if(t) \/ fail_waiters(t) \/ next(t)
   \/ end_of_stream(t)
      PROVE  NotStranded'
  <2>1. UNCHANGED <<cpc, slot, taking, corr, sentOn>>
    BY <1>2 DEF owns, end_of_stream, set_heartbeat, remove_if, insert, push_inbound, next,
       complete_waiter, fail_waiters
  <2>2. \A u \in Tokens : /\ rpc[u] \in {"drop", "notify"} => rpc'[u] = rpc[u]
                          /\ rpc[u] = "notify" => tx'[u] = tx[u]
                          /\ rpc'[u] = "removed" => rpc[u] = "removed"
    BY <1>2 DEF owns, end_of_stream, set_heartbeat, remove_if, insert, push_inbound, next,
       complete_waiter, fail_waiters, TypeOK, MapTypes, WaiterTypes
  <2>3. \A c \in Calls : cpc[c] = "await" => sentOn[c] \in Tokens
    BY DEF Sent, TypeOK, CallTypes
  <2> QED
    BY <2>1, <2>2, <2>3 DEF NotStranded
<1>3. ASSUME NEW t \in Tokens, NEW k \in Corrs, take_waiter_instance(t, k)
      PROVE  NotStranded'
  <2>1. UNCHANGED <<cpc, slot, tx, corr, sentOn>>
    BY <1>3 DEF take_waiter_instance
  <2>2. \A u \in Tokens : /\ rpc[u] = "drop" => rpc'[u] = "drop" /\ taking'[u] = taking[u]
                          /\ rpc[u] = "notify" => rpc'[u] = "notify"
                          /\ rpc'[u] = "removed" => rpc[u] = "removed"
    BY <1>3 DEF take_waiter_instance, TypeOK, MapTypes, WaiterTypes
  <2>3. \A c \in Calls : cpc[c] = "await" => sentOn[c] \in Tokens
    BY DEF Sent, TypeOK, CallTypes
  <2> QED
    BY <2>1, <2>2, <2>3 DEF NotStranded
<1>4. ASSUME NEW t \in Tokens, take_waiter(t) PROVE NotStranded'
  <2>1. UNCHANGED <<cpc, tx, corr, sentOn>>
    BY <1>4 DEF take_waiter
  <2>2. /\ rpc[t] = "drop" /\ rpc'[t] = "fail"
        /\ \A u \in Tokens : u # t => rpc'[u] = rpc[u] /\ taking'[u] = taking[u]
    BY <1>4 DEF take_waiter, TypeOK, MapTypes, WaiterTypes
  <2>3. \A c \in Calls : slot'[c] = "empty" => slot[c] = "empty"
    BY <1>4 DEF take_waiter, TypeOK, ItemTypes
  <2>4. ASSUME NEW c \in Calls, cpc[c] = "await", slot'[c] = "empty", rpc'[sentOn[c]] = "removed"
        PROVE  Dropping(c)' \/ Answering(c)'
    <3>1. sentOn[c] \in Tokens /\ rpc[sentOn[c]] = "removed" /\ slot[c] = "empty"
      BY <2>2, <2>3, <2>4 DEF Sent, TypeOK, CallTypes
    <3>2. Answering(c) => Answering(c)'
      BY <2>1, <2>2 DEF Answering
    <3>3. ASSUME NEW u \in Tokens, rpc[u] = "drop", taking[u] = corr[c], waiters[corr[c]] = c
          PROVE  Dropping(c)'
      <4>1. c # NoCall /\ RxAlive(c)
        BY <2>4, NamesAssumption DEF RxAlive
      <4>2. waiters[taking[t]] = c => slot'[c] = "closed"
        BY <1>4, <4>1 DEF take_waiter, TypeOK, ItemTypes
      <4>3. u # t
        BY <2>4, <3>3, <4>2
      <4> QED
        BY <2>1, <2>2, <3>3, <4>3 DEF Dropping
    <3>4. waiters[corr[c]] = c \/ Answering(c)
      BY <2>4, <3>1 DEF Known, Waiting
    <3>5. Dropping(c) \/ Answering(c)
      BY <2>4, <3>1 DEF NotStranded, Dropping, Answering
    <3> QED
      BY <3>2, <3>3, <3>4, <3>5 DEF Dropping
  <2> QED
    BY <2>1, <2>4 DEF NotStranded, Dropping, Answering
<1>5. ASSUME NEW t \in Tokens, reader_done(t) PROVE NotStranded'
  <2>1. /\ rpc[t] = "fail" /\ failing[t] = {} /\ rpc'[t] = "removed"
        /\ UNCHANGED <<cpc, slot, taking, tx, corr, sentOn>>
    BY <1>5 DEF reader_done, TypeOK, MapTypes
  <2>2. \A u \in Tokens : u # t => rpc'[u] = rpc[u]
    BY <1>5 DEF reader_done, TypeOK, MapTypes
  <2>3. \A c \in Calls : cpc[c] = "await" => sentOn[c] \in Tokens
    BY DEF Sent, TypeOK, CallTypes
  <2>4. \A c \in Calls : cpc[c] = "await" /\ slot[c] = "empty" /\ sentOn[c] = t =>
           Dropping(c) \/ Answering(c)
    BY <2>1 DEF Filed, Waiting
  <2> QED
    BY <2>1, <2>2, <2>3, <2>4 DEF NotStranded, Dropping, Answering
<1>6. ASSUME NEW c \in Calls, NEW sel \in Selectors, resolve_or_default(c, sel)
      PROVE  NotStranded'
  <2>1. \A d \in Calls : d # c => cpc'[d] = cpc[d] /\ corr'[d] = corr[d]
    BY <1>6 DEF resolve_or_default, Finish, next_corr, TypeOK, CallTypes
  <2>2. cpc'[c] # "await" /\ UNCHANGED <<slot, rpc, taking, tx, sentOn>>
    BY <1>6 DEF resolve_or_default, Finish, TypeOK, CallTypes
  <2> QED
    BY <2>1, <2>2 DEF NotStranded
<1>7. ASSUME NEW c \in Calls, enqueue(c) PROVE NotStranded'
  <2>1. \A d \in Calls : d # c => cpc'[d] = cpc[d] /\ corr'[d] = corr[d]
    BY <1>7 DEF enqueue, Finish, next_corr, TypeOK, CallTypes
  <2>2. cpc'[c] # "await" /\ UNCHANGED <<slot, rpc, taking, tx, sentOn>>
    BY <1>7 DEF enqueue, Finish, TypeOK, CallTypes
  <2> QED
    BY <2>1, <2>2 DEF NotStranded
<1>8. ASSUME NEW c \in Calls, get(c) \/ register_waiter(c) \/ tag_waiter(c) \/ receive(c) \/
   expire(c) \/ untag_waiter(c) \/ unregister_waiter(c) \/ set_read_mask(c) \/
   set_exclude_log_components(c)
      PROVE  NotStranded'
  <2>1. UNCHANGED <<slot, corr, rpc, taking, tx, sentOn>>
    BY <1>8 DEF get, receive, expire, register_waiter, tag_waiter, untag_waiter, unregister_waiter,
       set_read_mask, set_exclude_log_components
  <2>2. \A d \in Calls : cpc'[d] = "await" => cpc[d] = "await"
    BY <1>8 DEF get, receive, expire, register_waiter, tag_waiter, untag_waiter, unregister_waiter,
       set_read_mask, set_exclude_log_components, Finish, TypeOK, CallTypes
  <2> QED
    BY <2>1, <2>2 DEF NotStranded
<1>9. ASSUME NEW c \in Calls, try_send(c) PROVE NotStranded'
  <2>1. UNCHANGED <<slot, corr, rpc, taking, tx>>
    BY <1>9 DEF try_send
  <2>2. Refused(c) # "await"
    BY DEF Refused
  <2>3. \A d \in Calls : d # c => cpc'[d] = cpc[d] /\ sentOn'[d] = sentOn[d]
    BY <1>9, TrySend DEF TypeOK, CallTypes
  <2>4. \/ cpc'[c] = Refused(c)
        \/ sentOn'[c] = owner[cid[c]] /\ owner[cid[c]] # 0 /\ cid[c] \in Ids
    BY <1>9, TrySend DEF TypeOK, CallTypes
  <2>5. cpc'[c] = "await" => rpc[sentOn'[c]] # "removed"
    BY <2>2, <2>4 DEF RegisteredHasReader
  <2> QED
    BY <2>1, <2>3, <2>5 DEF NotStranded
<1>10. CASE UNCHANGED <<cpc, slot, rpc, taking, tx, corr, sentOn>>
  BY <1>10 DEF NotStranded
<1>11. ASSUME NEW id \in Ids, try_recv_inbound(id)
      PROVE  UNCHANGED <<cpc, slot, rpc, taking, tx, corr, sentOn>>
  BY <1>11 DEF try_recv_inbound
<1>12. ASSUME NEW t \in Tokens, deliver(t) \/ hangup(t)
      PROVE  UNCHANGED <<cpc, slot, rpc, taking, tx, corr, sentOn>>
  BY <1>12 DEF deliver, hangup
<1>13. ASSUME NEW t \in Tokens, notify(t) PROVE NotStranded'
  <2>1. /\ rpc[t] = "notify" /\ rpc'[t] = "push" /\ tx[t] \in Calls
        /\ UNCHANGED <<cpc, taking, corr, sentOn>>
    BY <1>13 DEF notify, Notifying, TypeOK, MapTypes
  <2>2. \A u \in Tokens : u # t => rpc'[u] = rpc[u] /\ tx'[u] = tx[u]
    BY <1>13 DEF notify, TypeOK, MapTypes, WaiterTypes
  <2>3. cpc[tx[t]] = "await" => slot'[tx[t]] = "reply"
    BY <1>13, <2>1 DEF notify, RxAlive, TypeOK, ItemTypes
  <2>4. \A c \in Calls : c # tx[t] => slot'[c] = slot[c]
    BY <1>13 DEF notify, TypeOK, ItemTypes
  <2>5. \A c \in Calls : cpc[c] = "await" => sentOn[c] \in Tokens
    BY DEF Sent, TypeOK, CallTypes
  <2> QED
    BY <2>1, <2>2, <2>3, <2>4, <2>5 DEF NotStranded
<1> QED
  BY <1>1, <1>2, <1>3, <1>4, <1>5, <1>6, <1>7, <1>8, <1>9, <1>10, <1>11, <1>12, <1>13 DEF
     Next, Reader, Peer, Call, vars

\* A call is told what became of its envelope.
LEMMA OutcomeStep ==
    ASSUME TypeOK, Items, Numbered, Sent, Channels, Waiters, Tagged, Notifying, Failing,
       Slots, Outcome, [Next]_vars
    PROVE  Outcome'
<1> USE Numbers DEF mapVars, fieldVars, viewVars, channelVars, waiterVars, readerVars,
   requestVars, replyVars, callVars
<1>1. ASSUME NEW t \in Tokens, notify(t) PROVE Outcome'
  <2>1. UNCHANGED <<cpc, result, sentOn, corr>>
    BY <1>1 DEF notify
  <2>2. \A c \in Calls : slot[c] = "reply" => slot'[c] = "reply"
    BY <1>1 DEF notify, TypeOK, ItemTypes
  <2>3. \A c \in Calls : cpc[c] = "unregister" => corr[c] \in Corrs
    BY DEF Numbered, Before, TypeOK, CallTypes
  <2>4. \A k \in Corrs : waiterInstance[k] = NoInstance => waiterInstance'[k] = NoInstance
    BY <1>1 DEF notify, TypeOK, WaiterTypes
  <2>5. \A c \in Calls : slot'[c] = "reply" /\ cpc[c] # "await" => slot[c] = "reply"
    <3>1. tx[t] \in Calls /\ cpc[tx[t]] \notin Unsent
      BY <1>1, Answered DEF notify
    <3>2. cpc[tx[t]] # "await" => slot' = slot
      BY <1>1, <3>1 DEF notify, RxAlive, Unsent
    <3>3. \A c \in Calls : c # tx[t] => slot'[c] = slot[c]
      BY <1>1 DEF notify, TypeOK, ItemTypes
    <3> QED
      BY <3>2, <3>3
  <2> QED
    BY <2>1, <2>2, <2>3, <2>4, <2>5 DEF Outcome
<1>2. ASSUME NEW t \in Tokens, NEW k \in Corrs, take_waiter_instance(t, k) PROVE Outcome'
  <2>1. UNCHANGED <<cpc, result, sentOn, corr, slot>>
    BY <1>2 DEF take_waiter_instance
  <2>2. \A c \in Calls : cpc[c] = "unregister" => corr[c] \in Corrs
    BY DEF Numbered, Before, TypeOK, CallTypes
  <2>3. \A j \in Corrs : waiterInstance[j] = NoInstance => waiterInstance'[j] = NoInstance
    BY <1>2 DEF take_waiter_instance, TypeOK, WaiterTypes
  <2> QED
    BY <2>1, <2>2, <2>3 DEF Outcome
<1>3. ASSUME NEW t \in Tokens, take_waiter(t) PROVE Outcome'
  <2>1. taking[t] \in Corrs /\ UNCHANGED <<cpc, result, sentOn, corr, waiterInstance>>
    BY <1>3 DEF take_waiter, Failing, TypeOK, WaiterTypes
  <2>2. \A c \in Calls : c = waiters[taking[t]] => slot[c] = "empty"
    BY <2>1, NamesAssumption DEF Waiters
  <2>3. \A c \in Calls : slot[c] = "reply" <=> slot'[c] = "reply"
    BY <1>3, <2>2 DEF take_waiter, TypeOK, ItemTypes
  <2> QED
    BY <2>1, <2>3 DEF Outcome
<1>4. ASSUME NEW c \in Calls, NEW sel \in Selectors, resolve_or_default(c, sel)
      PROVE  Outcome'
  <2>1. /\ cpc[c] = "idle" /\ UNCHANGED <<sentOn, waiterInstance, slot>>
        /\ cpc'[c] \in {"get", "send", "enqueue", "done"} /\ slot[c] # "reply"
        /\ result'[c] # "reply" /\ (cpc'[c] # "done" => result'[c] = result[c])
    BY <1>4 DEF resolve_or_default, Finish, Outcome, Slots, TypeOK, CallTypes
  <2>2. \A d \in Calls : d # c => cpc'[d] = cpc[d] /\ corr'[d] = corr[d] /\ result'[d] = result[d]
    BY <1>4 DEF resolve_or_default, Finish, next_corr, TypeOK, CallTypes
  <2> QED
    BY <2>1, <2>2 DEF Outcome
<1>5. ASSUME NEW c \in Calls, enqueue(c) PROVE Outcome'
  <2>1. /\ cpc[c] = "enqueue" /\ UNCHANGED <<sentOn, waiterInstance, slot>>
        /\ cpc'[c] \in {"send", "done"} /\ slot[c] # "reply"
        /\ result'[c] # "reply" /\ (cpc'[c] # "done" => result'[c] = result[c])
    BY <1>5 DEF enqueue, Finish, Outcome, Slots, TypeOK, CallTypes
  <2>2. \A d \in Calls : d # c => cpc'[d] = cpc[d] /\ corr'[d] = corr[d] /\ result'[d] = result[d]
    BY <1>5 DEF enqueue, Finish, next_corr, TypeOK, CallTypes
  <2> QED
    BY <2>1, <2>2 DEF Outcome
<1>6. ASSUME NEW c \in Calls, get(c) \/ register_waiter(c) \/ receive(c) \/ expire(c) \/
   unregister_waiter(c) \/ set_read_mask(c) \/ set_exclude_log_components(c)
      PROVE  Outcome'
  <2>1. UNCHANGED <<slot, corr, waiterInstance, sentOn>>
    BY <1>6 DEF get, register_waiter, unregister_waiter, set_read_mask, set_exclude_log_components,
       receive, expire
  <2>2. \A d \in Calls : d # c => cpc'[d] = cpc[d] /\ result'[d] = result[d]
    BY <1>6 DEF get, register_waiter, unregister_waiter, set_read_mask, set_exclude_log_components,
       receive, expire, Finish, TypeOK, CallTypes
  <2>3. cpc[c] = "await" => sentOn[c] # 0
    BY DEF Sent
  <2>4. \/ cpc'[c] = "done" /\ result'[c] = "reply" /\ slot[c] = "reply"
        \/ cpc'[c] = "done" /\ result'[c] # "reply" /\ slot[c] # "reply"
        \/ cpc'[c] = "done" /\ result'[c] = result[c] /\ cpc[c] # "await"
        \/ cpc'[c] = "untag" /\ cpc[c] = "await" /\ result'[c] = "Timeout" /\ slot[c] # "reply"
        \/ /\ {cpc[c], cpc'[c]} \cap {"await", "untag", "unregister", "done"} = {}
           /\ result'[c] = result[c]
    BY <1>6 DEF get, register_waiter, unregister_waiter, set_read_mask, set_exclude_log_components,
       receive, expire, Finish, Slots, TypeOK, CallTypes
  <2> QED
    BY ZenonT(40), <2>1, <2>2, <2>3, <2>4 DEF Outcome
<1>7. ASSUME NEW c \in Calls, tag_waiter(c) PROVE Outcome'
  <2>1. /\ corr[c] \in Corrs /\ cpc[c] = "tag" /\ cpc'[c] = "send"
        /\ UNCHANGED <<result, sentOn, corr, slot>>
    BY <1>7 DEF tag_waiter, Numbered, Before, TypeOK, CallTypes
  <2>2. \A d \in Calls : d # c => cpc'[d] = cpc[d]
    BY <1>7 DEF tag_waiter, TypeOK, CallTypes
  <2>3. ASSUME NEW d \in Calls, cpc[d] = "unregister" PROVE waiterInstance'[corr[d]] = waiterInstance[corr[d]]
    <3>1. corr[d] # corr[c]
      BY <2>1, <2>3 DEF Numbered
    <3> QED
      BY <1>7, <3>1 DEF tag_waiter, TypeOK, WaiterTypes
  <2> QED
    BY <2>1, <2>2, <2>3 DEF Outcome
<1>8. ASSUME NEW c \in Calls, try_send(c) PROVE Outcome'
  <2>1. /\ cpc[c] = "send" /\ sentOn[c] = 0 /\ result[c] = "none" /\ slot[c] # "reply"
        /\ UNCHANGED <<waiterInstance, corr, slot>>
    BY <1>8 DEF try_send, Sent, Unsent, Slots, Outcome
  <2>2. Refused(c) \in {"untag", "done"} /\ Accepted(c) \in {"await", "read_mask", "done"}
    BY OpFields DEF Refused, Accepted
  <2>3. (op[c].tag = "send") <=> (Accepted(c) = "done")
    BY OpFields DEF Accepted
  <2>4. \A d \in Calls : d # c => /\ cpc'[d] = cpc[d] /\ sentOn'[d] = sentOn[d]
                                  /\ result'[d] = result[d]
    BY SMTT(20), <1>8, TrySend DEF TypeOK, CallTypes
  <2>5. \/ /\ cpc'[c] = Refused(c) /\ sentOn'[c] = 0
           /\ result'[c] \in {"UnknownInstance", "QueueFull"}
        \/ /\ cpc'[c] = Accepted(c)
           /\ result'[c] = IF op[c].tag = "send" THEN "queued" ELSE "none"
    BY <1>8, <2>1, TrySend DEF TypeOK, CallTypes
  <2> QED
    BY <2>1, <2>2, <2>3, <2>4, <2>5 DEF Outcome
<1>9. ASSUME NEW c \in Calls, untag_waiter(c) PROVE Outcome'
  <2>1. /\ corr[c] \in Corrs /\ cpc[c] = "untag" /\ cpc'[c] = "unregister"
        /\ UNCHANGED <<result, sentOn, corr, slot>>
    BY <1>9 DEF untag_waiter, Numbered, Before, TypeOK, CallTypes
  <2>2. \A d \in Calls : d # c => cpc'[d] = cpc[d]
    BY <1>9 DEF untag_waiter, TypeOK, CallTypes
  <2>3. waiterInstance'[corr[c]] = NoInstance
    BY <1>9, <2>1 DEF untag_waiter, TypeOK, WaiterTypes
  <2>4. ASSUME NEW d \in Calls, d # c, cpc[d] = "unregister"
        PROVE  waiterInstance'[corr[d]] = waiterInstance[corr[d]]
    <3>1. corr[d] # corr[c]
      BY <2>1, <2>4 DEF Numbered
    <3> QED
      BY <1>9, <3>1 DEF untag_waiter, TypeOK, WaiterTypes
  <2> QED
    BY <2>1, <2>2, <2>3, <2>4 DEF Outcome
<1>10. CASE UNCHANGED <<cpc, result, sentOn, waiterInstance, corr, slot>>
  BY <1>10 DEF Outcome
<1>11. ASSUME NEW id \in Ids, session(id) \/ try_recv_inbound(id)
      PROVE  UNCHANGED <<cpc, result, sentOn, waiterInstance, corr, slot>>
  BY <1>11 DEF session, try_recv_inbound
<1>12. ASSUME NEW t \in Tokens, insert(t) \/ owns(t) \/ set_heartbeat(t) \/
   complete_waiter(t) \/ push_inbound(t) \/ remove_if(t) \/ fail_waiters(t) \/
   reader_done(t) \/ next(t) \/ end_of_stream(t) \/ deliver(t) \/ hangup(t)
      PROVE  UNCHANGED <<cpc, result, sentOn, waiterInstance, corr, slot>>
  BY <1>12 DEF insert, owns, set_heartbeat, complete_waiter, push_inbound, remove_if,
     fail_waiters, reader_done, next, end_of_stream, deliver, hangup
<1> QED
  BY <1>1, <1>2, <1>3, <1>4, <1>5, <1>6, <1>7, <1>8, <1>9, <1>10, <1>11, <1>12 DEF Next,
     Reader, Peer, Call, vars

\* Every step keeps the second half of the invariant.
LEMMA RepliesStep == TypeOK /\ Routing /\ Replies /\ [Next]_vars => Replies'
  BY WaitersStep, TaggedStep, NotifyingStep, FailingStep, SlotsStep, KnownStep, FiledStep,
     NotStrandedStep, OutcomeStep DEF Routing, Replies

\* The invariant is inductive.
LEMMA Inductive == IInv /\ [Next]_vars => IInv'
  BY TypeStep, RoutingStep, RepliesStep DEF IInv, Routing

----------------------------------------------------------------------------
\* Every state of the session hop satisfies the invariant.
THEOREM Invariance == Spec => []IInv
  BY InitIInv, Inductive, PTL DEF Spec

\* The instance map, the channels, the waiter maps and the calls keep their
\* shape, whatever the readers and the calls do.
THEOREM TypeCorrect == Spec => []TypeOK
<1>1. IInv => TypeOK
  BY DEF IInv
<1> QED
  BY Invariance, <1>1, PTL

\* No entry of the instance map outlives its stream (remove_if), for any
\* number of streams that replace each other on an id.
THEOREM EntriesHaveReaders == Spec => []RegisteredHasReader
<1>1. IInv => RegisteredHasReader
  BY DEF IInv, Routing
<1> QED
  BY Invariance, <1>1, PTL

\* A stream shows up in the heartbeat and the events of its own id alone, and
\* carries envelopes of its own id alone (set_heartbeat, push_inbound, try_send).
THEOREM SessionsApart == Spec => []Isolation
<1>1. ASSUME IInv PROVE Isolation
  <2>1. TypeOK /\ OwnFields /\ Numbered /\ Sent /\ Channels
    BY <1>1 DEF IInv, Routing
  <2>2. ASSUME NEW t \in Tokens, NEW c \in Calls, corr[c] \in delivered[t] \cup ToSet(outbound[t])
        PROVE  cid[c] = sid[t]
    <3>1. corr[c] \in Corrs
      BY <2>1, <2>2, SequenceElements DEF TypeOK, ChannelTypes, ToSet
    <3>2. PICK d \in Calls : corr[d] = corr[c] /\ sentOn[d] = t
      BY <2>1, <2>2 DEF Channels
    <3>3. d = c
      BY <2>1, <3>1, <3>2, Numbers DEF Numbered
    <3> QED
      BY <2>1, <3>2, <3>3, Numbers DEF Sent
  <2> QED
    BY <2>1, <2>2 DEF Isolation, OwnFields
<1> QED
  BY Invariance, <1>1, PTL

\* The view the map holds for an id was sent by some set_session_view.
THEOREM ViewWasSent == Spec => []StoredViewWasSent
<1>1. IInv => StoredViewWasSent
  BY DEF IInv, Routing
<1> QED
  BY Invariance, <1>1, PTL

\* A call that ends with a reply was delivered and has the reply to its own
\* envelope, on whichever stream it came, and a call that was handed one ends
\* with it (complete_waiter), for any number of calls, streams and replies.
THEOREM OwnReply == Spec => []ReplyBelongsToCall
<1>1. IInv => ReplyBelongsToCall
  BY DEF IInv, Replies, Outcome, Slots, ReplyBelongsToCall
<1> QED
  BY Invariance, <1>1, PTL

\* A finished call has left both waiter maps (take_waiter).
THEOREM NoLeak == Spec => []NoWaiterLeak
<1>1. ASSUME IInv PROVE NoWaiterLeak
  <2>1. TypeOK /\ Numbered /\ Waiters /\ Tagged
    BY <1>1 DEF IInv, Routing, Replies
  <2>2. ASSUME NEW c \in Calls, cpc[c] = "done", corr[c] # 0
        PROVE  waiters[corr[c]] = NoCall /\ waiterInstance[corr[c]] = NoInstance
    <3>1. corr[c] \in Corrs
      BY <2>1, <2>2, Numbers DEF TypeOK, CallTypes
    <3>2. waiters[corr[c]] = NoCall
      <4>1. ASSUME waiters[corr[c]] # NoCall PROVE FALSE
        <5>1. PICK w \in Calls : w = waiters[corr[c]]
          BY <2>1, <3>1, <4>1 DEF TypeOK, WaiterTypes
        <5>2. corr[w] = corr[c] /\ cpc[w] \in Registered
          BY <2>1, <3>1, <4>1, <5>1 DEF Waiters
        <5> QED
          BY <2>1, <2>2, <5>2 DEF Numbered, Registered
      <4> QED
        BY <4>1
    <3>3. waiterInstance[corr[c]] = NoInstance
      BY <2>1, <2>2, <3>1 DEF Tagged, Numbered
    <3> QED
      BY <3>2, <3>3
  <2> QED
    BY <2>2 DEF NoWaiterLeak
<1> QED
  BY Invariance, <1>1, PTL

\* No call is left to its timer by a stream that has gone (fail_waiters).
THEOREM NobodyStranded == Spec => []NotStranded
<1>1. IInv => NotStranded
  BY DEF IInv, Replies
<1> QED
  BY Invariance, <1>1, PTL

\* Whoever waits can still be answered (register_waiter before try_send).
THEOREM StillAnswerable == Spec => []ReplyCanStillArrive
<1>1. IInv => ReplyCanStillArrive
  BY DEF IInv, Replies, Known, Waiting, Answering, ReplyCanStillArrive
<1> QED
  BY Invariance, <1>1, PTL

\* A stream that was replaced leaves its successor's entry alone (remove_if).
THEOREM OwnerUnregisters == Spec => OnlyOwnerUnregisters
<1> DEFINE A == \A id \in Ids : owner[id] # 0 /\ owner'[id] = 0 =>
                  rpc[owner[id]] = "leave" /\ rpc'[owner[id]] = "collect"
<1>1. ASSUME IInv, [Next]_vars PROVE [A]_vars
  <2> USE DEF mapVars
  <2>0. TypeOK /\ Opened
    BY <1>1 DEF IInv, Routing
  <2>1. ASSUME NEW t \in Tokens, insert(t) PROVE A
    BY <2>0, <2>1, Numbers DEF insert, TypeOK, MapTypes
  <2>2. ASSUME NEW t \in Tokens, remove_if(t) PROVE A
    <3>1. CASE owner[sid[t]] = t
      <4>1. owner' = [owner EXCEPT ![sid[t]] = 0] /\ rpc' = [rpc EXCEPT ![t] = "collect"]
            /\ rpc[t] = "leave"
        BY <2>2, <3>1 DEF remove_if
      <4> QED
        BY <2>0, <3>1, <4>1 DEF TypeOK, MapTypes
    <3>2. CASE owner[sid[t]] # t
      BY <2>2, <3>2 DEF remove_if
    <3> QED
      BY <3>1, <3>2
  <2>3. CASE UNCHANGED owner
    BY <2>3
  <2>4. ASSUME NEW id \in Ids, session(id) \/ try_recv_inbound(id)
        PROVE  UNCHANGED owner
    BY <2>4 DEF session, try_recv_inbound
  <2>5. ASSUME NEW t \in Tokens, owns(t) \/ set_heartbeat(t) \/ complete_waiter(t) \/
     notify(t) \/ push_inbound(t) \/ fail_waiters(t) \/ take_waiter(t) \/ reader_done(t) \/
     next(t) \/ end_of_stream(t) \/ deliver(t) \/ hangup(t) \/ (\E k \in Corrs :
     take_waiter_instance(t, k))
        PROVE  UNCHANGED owner
    BY <2>5 DEF owns, set_heartbeat, complete_waiter, notify, push_inbound, fail_waiters,
       take_waiter_instance, take_waiter, reader_done, next, end_of_stream, deliver, hangup
  <2>6. ASSUME NEW c \in Calls, enqueue(c) \/ get(c) \/ register_waiter(c) \/ tag_waiter(c)
     \/ try_send(c) \/ receive(c) \/ expire(c) \/ untag_waiter(c) \/ unregister_waiter(c) \/
     set_read_mask(c) \/ set_exclude_log_components(c) \/ (\E sel \in Selectors :
     resolve_or_default(c, sel))
        PROVE  UNCHANGED owner
    BY <2>6 DEF resolve_or_default, enqueue, get, register_waiter, tag_waiter, try_send,
       receive, expire, untag_waiter, unregister_waiter, set_read_mask,
       set_exclude_log_components
  <2> QED
    BY <1>1, <2>1, <2>2, <2>3, <2>4, <2>5, <2>6 DEF Next, Reader, Peer, Call, vars
<1> QED
  BY Invariance, <1>1, PTL DEF Spec, OnlyOwnerUnregisters
=============================================================================
