------------------------- MODULE InboundQueueProofs -------------------------
(***************************************************************************)
(* Proofs about the inbound queue, for every capacity, every set of        *)
(* payloads and every number of pushes: it is ordered and bounded, and it  *)
(* implements EventLog.                                                    *)
(***************************************************************************)
EXTENDS InboundQueue, EnvelopesProofs, FiniteSetTheorems

----------------------------------------------------------------------------
(* Order and bounds.                                                       *)

\* The three things a push can do to a queue within its capacity.
LEMMA PushCases ==
    ASSUME NEW q \in Seq(NumberedEnvelopes), Len(q) <= Cap,
           NEW m \in NumberedEnvelopes
    PROVE  \/ push(q, m, Cap) = q
           \/ Len(q) < Cap /\ push(q, m, Cap) = Append(q, m)
           \/ \E i \in 1..Len(q) :
                /\ eviction_rank(q[i]) > 0
                /\ push(q, m, Cap) = Append(RemoveAt(q, i), m)
<1>1. Len(q) \in Nat /\ Cap \in Nat
  BY LenProperties, CapAssumption
<1>2. CASE Len(q) # Cap
  BY <1>1, <1>2 DEF push
<1>3. CASE Len(q) = Cap /\ (is_heartbeat(m) \/ Evictable(q) = {})
  BY <1>3 DEF push
<1>4. CASE Len(q) = Cap /\ ~is_heartbeat(m) /\ Evictable(q) # {}
  <2>1. eviction_index(q) \in Evictable(q)
    BY <1>4, EvictionIndex
  <2>2. eviction_index(q) \in 1..Len(q) /\ eviction_rank(q[eviction_index(q)]) > 0
    BY <2>1, LenProperties DEF Evictable
  <2>3. push(q, m, Cap) = Append(RemoveAt(q, eviction_index(q)), m)
    BY <1>4 DEF push
  <2> QED
    BY <2>2, <2>3
<1> QED
  BY <1>2, <1>3, <1>4

\* The inductive invariant: what is popped was pushed, besides the properties.
IInv == TypeOK /\ InOrder /\ received <= pushed

LEMMA EnvelopeType ==
    ASSUME NEW p \in Payloads, NEW n \in Nat
    PROVE  Envelope(p, n) \in NumberedEnvelopes /\ Envelope(p, n).seq = n
  BY PayloadsAssumption DEF Envelope, NumberedEnvelopes

LEMMA InitIInv == Init => IInv
  BY CapAssumption, EmptySeq DEF Init, IInv, TypeOK, InOrder, Bounded

\* A push keeps the order: the new envelope comes last, whatever leaves.
LEMMA PushIInv ==
    ASSUME IInv, NEW p \in Payloads, Push(p)
    PROVE  IInv'
<1> DEFINE m == Envelope(p, pushed + 1)
<1>1. /\ items \in Seq(NumberedEnvelopes) /\ pushed \in Nat /\ received \in Nat
      /\ received <= pushed /\ Len(items) <= Cap /\ Len(items) \in Nat /\ Cap \in Nat \ {0}
      /\ DOMAIN items = 1..Len(items)
  BY LenProperties, CapAssumption DEF IInv, TypeOK, Bounded
<1>0. Len(items) \in Nat /\ pushed \in Nat /\ received \in Nat
  BY <1>1
<1>2. m \in NumberedEnvelopes /\ m.seq = pushed + 1
  BY <1>1, EnvelopeType
<1>3. /\ \A i, j \in 1..Len(items) : i < j => items[i].seq < items[j].seq
      /\ \A i \in 1..Len(items) : received < items[i].seq /\ items[i].seq <= pushed
      /\ \A i \in 1..Len(items) : items[i].seq \in Nat
  <2>1. InOrder
    BY DEF IInv
  <2>2. \A i \in 1..Len(items) : items[i] \in NumberedEnvelopes
    BY <1>1, ElementOfSeq
  <2>3. \A i \in 1..Len(items) : items[i].seq \in Nat
    BY <2>2 DEF NumberedEnvelopes
  <2> QED
    BY <1>1, <2>1, <2>3 DEF InOrder
<1>4. pushed' = pushed + 1 /\ received' = received /\ items' = push(items, m, Cap)
  BY DEF Push
<1> HIDE DEF m
<1>5. CASE items' = items
  BY <1>1, <1>3, <1>4, <1>5 DEF IInv, TypeOK, InOrder, Bounded
<1>6. CASE Len(items) < Cap /\ items' = Append(items, m)
  <2>1. /\ items' \in Seq(NumberedEnvelopes) /\ Len(items') = Len(items) + 1
        /\ \A i \in 1..Len(items) : items'[i] = items[i]
        /\ items'[Len(items) + 1] = m
    BY <1>1, <1>2, <1>6, AppendProperties
  <2>2. DOMAIN items' = 1..Len(items) + 1
    BY <2>1, LenProperties
  <2>3. TypeOK' /\ (received <= pushed)'
    BY <2>1, <1>1, <1>4, <1>6 DEF TypeOK, Bounded
  <2>4. \A i \in 1..Len(items) + 1 : /\ received < items'[i].seq
                                     /\ items'[i].seq <= pushed + 1
    BY <2>1, <1>1, <1>2, <1>3
  <2>5. \A i, j \in 1..Len(items) + 1 : i < j => items'[i].seq < items'[j].seq
    <3>1. SUFFICES ASSUME NEW i \in 1..Len(items) + 1, NEW j \in 1..Len(items) + 1, i < j
                   PROVE  items'[i].seq < items'[j].seq
      OBVIOUS
    <3>2. CASE j = Len(items) + 1
      BY <3>1, <3>2, <2>1, <1>1, <1>2, <1>3
    <3>3. CASE j # Len(items) + 1
      BY <3>1, <3>3, <2>1, <1>0, <1>3
    <3> QED
      BY <3>2, <3>3
  <2> QED
    BY <2>2, <2>3, <2>4, <2>5, <1>4 DEF IInv, InOrder
<1>7. ASSUME NEW k \in 1..Len(items), items' = Append(RemoveAt(items, k), m)
      PROVE  IInv'
  <2> DEFINE r == RemoveAt(items, k)
  <2>1. /\ r \in Seq(NumberedEnvelopes) /\ Len(r) = Len(items) - 1
        /\ \A i \in 1..(Len(items) - 1) : r[i] = IF i < k THEN items[i] ELSE items[i + 1]
    BY <1>1, RemoveAtProperties
  <2>2. items' = Append(r, m)
    BY <1>7
  <2> HIDE DEF r
  <2>3. /\ items' \in Seq(NumberedEnvelopes) /\ Len(items') = Len(items)
        /\ \A i \in 1..(Len(items) - 1) : items'[i] = IF i < k THEN items[i] ELSE items[i + 1]
        /\ items'[Len(items)] = m
    <3>1. /\ Append(r, m) \in Seq(NumberedEnvelopes)
          /\ Len(Append(r, m)) = Len(r) + 1
          /\ \A i \in 1..Len(r) : Append(r, m)[i] = r[i]
          /\ Append(r, m)[Len(r) + 1] = m
      BY <2>1, <1>2, AppendProperties
    <3>2. Len(r) + 1 = Len(items)
      BY <2>1, <1>1
    <3> QED
      BY <3>1, <3>2, <2>1, <2>2
  <2>4. DOMAIN items' = 1..Len(items)
    BY <2>3, LenProperties
  <2>5. TypeOK' /\ (received <= pushed)'
    BY <2>3, <1>1, <1>4 DEF TypeOK, Bounded
  <2>6. \A i \in 1..Len(items) : /\ received < items'[i].seq
                                 /\ items'[i].seq <= pushed + 1
                                 /\ i < Len(items) => items'[i].seq <= pushed
                                 /\ items'[i].seq \in Nat
    BY SMTT(20), <2>3, <1>1, <1>2, <1>3
  <2>7. \A i, j \in 1..Len(items) : i < j => items'[i].seq < items'[j].seq
    <3>1. SUFFICES ASSUME NEW i \in 1..Len(items), NEW j \in 1..Len(items), i < j
                   PROVE  items'[i].seq < items'[j].seq
      OBVIOUS
    <3>2. CASE j = Len(items)
      BY <3>1, <3>2, <2>3, <2>6, <1>1, <1>2
    <3>3. CASE j # Len(items)
      <4>1. i \in 1..(Len(items) - 1) /\ j \in 1..(Len(items) - 1)
        BY <3>1, <3>3, <1>0
      <4>2. PICK a \in 1..Len(items), b \in 1..Len(items) :
              a < b /\ items'[i] = items[a] /\ items'[j] = items[b]
        <5>1. CASE j < k
          BY <5>1, <4>1, <3>1, <2>3, <1>0
        <5>2. CASE i < k /\ j >= k
          BY <5>2, <4>1, <3>1, <2>3, <1>0
        <5>3. CASE i >= k
          BY <5>3, <4>1, <3>1, <2>3, <1>0
        <5> QED
          BY <5>1, <5>2, <5>3, <4>1, <1>0
      <4> QED
        BY <4>2, <1>3
    <3> QED
      BY <3>2, <3>3
  <2> QED
    BY <2>4, <2>5, <2>6, <2>7, <1>4 DEF IInv, InOrder
<1> QED
  BY <1>1, <1>2, <1>4, <1>5, <1>6, <1>7, PushCases

\* A pop takes the first envelope, and all the others are later.
LEMMA TryRecvIInv ==
    ASSUME IInv, try_recv
    PROVE  IInv'
<1>1. /\ items \in Seq(NumberedEnvelopes) /\ items # <<>>
      /\ Len(items) <= Cap /\ DOMAIN items = 1..Len(items) /\ Len(items) \in Nat \ {0}
      /\ Cap \in Nat
  BY LenProperties, EmptySeq, CapAssumption DEF IInv, TypeOK, Bounded, try_recv
<1>2. pushed' = pushed /\ received' = items[1].seq /\ items' = Tail(items)
  BY <1>1 DEF try_recv
<1>3. /\ items' \in Seq(NumberedEnvelopes) /\ Len(items') = Len(items) - 1
      /\ \A i \in 1..Len(items') : items'[i] = items[i + 1]
  BY <1>1, <1>2, HeadTailProperties
<1>4. DOMAIN items' = 1..(Len(items) - 1)
  BY <1>3, LenProperties
<1>5. /\ \A i, j \in 1..Len(items) : i < j => items[i].seq < items[j].seq
      /\ \A i \in 1..Len(items) : items[i].seq <= pushed
  BY <1>1 DEF IInv, InOrder
<1>6. items[1].seq \in Nat /\ pushed \in Nat
  <2>1. items[1] \in NumberedEnvelopes
    BY <1>1, ElementOfSeq
  <2> QED
    BY <2>1 DEF IInv, TypeOK, NumberedEnvelopes
<1>7. Len(items) \in Nat \ {0}
  BY <1>1
<1>8. \A i \in 1..(Len(items) - 1) : i + 1 \in 1..Len(items) /\ 1 < i + 1
  BY <1>7
<1>9. \A i \in 1..(Len(items) - 1) : items'[i] = items[i + 1]
  BY <1>3, <1>7
<1>10. TypeOK' /\ (received <= pushed)'
  <2>1. Len(items') <= Cap
    BY <1>1, <1>3
  <2>2. items[1].seq <= pushed
    BY <1>5, <1>7
  <2> QED
    BY <2>1, <2>2, <1>2, <1>3, <1>6 DEF TypeOK, Bounded
<1>11. InOrder'
  <2>1. \A i \in 1..(Len(items) - 1) : items[1].seq < items'[i].seq /\ items'[i].seq <= pushed
    BY <1>5, <1>7, <1>8, <1>9
  <2>2. \A i, j \in 1..(Len(items) - 1) : i < j => items'[i].seq < items'[j].seq
    BY <1>5, <1>7, <1>8, <1>9
  <2> QED
    BY <2>1, <2>2, <1>2, <1>4 DEF InOrder
<1> QED
  BY <1>10, <1>11 DEF IInv

LEMMA NextIInv == IInv /\ [Next]_vars => IInv'
<1>1. SUFFICES ASSUME IInv, [Next]_vars PROVE IInv'
  OBVIOUS
<1>2. CASE \E p \in Payloads : Push(p)
  BY <1>1, <1>2, PushIInv
<1>3. CASE try_recv
  BY <1>1, <1>3, TryRecvIInv
<1>4. CASE UNCHANGED vars
  BY <1>1, <1>4 DEF IInv, TypeOK, InOrder, Bounded, vars
<1> QED
  BY <1>1, <1>2, <1>3, <1>4 DEF Next

\* The inductive invariant holds in every reachable state of the queue.
THEOREM Invariance == Spec => []IInv
  BY InitIInv, NextIInv, PTL DEF Spec

\* The variables of the queue keep their types, and the queue never exceeds its
\* capacity, whatever the capacity, although push tests for equality only.
THEOREM TypeCorrect == Spec => []TypeOK
  BY Invariance, PTL DEF IInv

\* Envelopes stay in the order they were pushed, whatever push evicts.
THEOREM OrderCorrect == Spec => []InOrder
  BY Invariance, PTL DEF IInv

----------------------------------------------------------------------------
(* The refinement: the events held are the set of the envelopes queued.    *)

\* A queue within its capacity holds at most that many different events.
LEMMA HeldBound ==
    ASSUME NEW q \in Seq(NumberedEnvelopes), Len(q) <= Cap
    PROVE  Cardinality(ToSet(q)) <= Cap
<1>1. Len(q) \in Nat /\ DOMAIN q = 1..Len(q) /\ Cap \in Nat
  BY LenProperties, CapAssumption
<1>2. q \in Surjection(1..Len(q), ToSet(q))
  <2>1. q \in [1..Len(q) -> ToSet(q)]
    BY <1>1, LenProperties DEF ToSet
  <2> QED
    BY <2>1, <1>1 DEF Surjection, ToSet
<1>3. IsFiniteSet(1..Len(q)) /\ Cardinality(1..Len(q)) = Len(q)
  <2>1. 1 \in Int /\ Len(q) \in Int
    BY <1>1
  <2>2. \A a, b \in Int : /\ IsFiniteSet(a..b)
                           /\ Cardinality(a..b) = IF a > b THEN 0 ELSE b - a + 1
    BY FS_Interval, Zenon
  <2>3. /\ IsFiniteSet(1..Len(q))
        /\ Cardinality(1..Len(q)) = IF 1 > Len(q) THEN 0 ELSE Len(q) - 1 + 1
    BY <2>1, <2>2
  <2> QED
    BY <2>3, <1>1
<1>4. Cardinality(ToSet(q)) <= Len(q) /\ IsFiniteSet(ToSet(q))
  BY <1>2, <1>3, FS_Surjection
<1>5. Cardinality(ToSet(q)) \in Nat
  BY <1>4, FS_CardinalityType
<1> QED
  BY <1>1, <1>4, <1>5

\* An envelope that push may evict is not durable.
LEMMA EvictedNotDurable ==
    ASSUME NEW m \in NumberedEnvelopes, eviction_rank(m) > 0
    PROVE  ~is_never_drop(m)
  BY RankRange

\* What an append, and an append behind a removal, do to the set of events.
LEMMA AppendHeld ==
    ASSUME NEW q \in Seq(NumberedEnvelopes), NEW m \in NumberedEnvelopes
    PROVE  ToSet(Append(q, m)) = ToSet(q) \cup {m}
<1>1. /\ Append(q, m) \in Seq(NumberedEnvelopes) /\ Len(Append(q, m)) = Len(q) + 1
      /\ \A i \in 1..Len(q) : Append(q, m)[i] = q[i]
      /\ Append(q, m)[Len(q) + 1] = m
  BY AppendProperties
<1>2. Len(q) \in Nat /\ DOMAIN q = 1..Len(q) /\ DOMAIN Append(q, m) = 1..Len(q) + 1
  BY <1>1, LenProperties
<1>3. 1..Len(q) + 1 = 1..Len(q) \cup {Len(q) + 1}
  BY <1>2
<1> QED
  BY <1>1, <1>2, <1>3 DEF ToSet

LEMMA RemoveHeld ==
    ASSUME NEW q \in Seq(NumberedEnvelopes), NEW k \in 1..Len(q),
           \A i, j \in 1..Len(q) : i # j => q[i] # q[j]
    PROVE  ToSet(RemoveAt(q, k)) = ToSet(q) \ {q[k]}
<1> DEFINE r == RemoveAt(q, k)
<1>1. /\ r \in Seq(NumberedEnvelopes) /\ Len(r) = Len(q) - 1
      /\ \A j \in 1..(Len(q) - 1) : r[j] = IF j < k THEN q[j] ELSE q[j + 1]
  BY RemoveAtProperties
<1>2. Len(q) \in Nat /\ DOMAIN q = 1..Len(q)
  BY LenProperties
<1> HIDE DEF r
<1>3. DOMAIN r = 1..(Len(q) - 1)
  BY <1>1, LenProperties
<1>4. \A j \in 1..(Len(q) - 1) : \E i \in 1..Len(q) : i # k /\ r[j] = q[i]
  <2>1. SUFFICES ASSUME NEW j \in 1..(Len(q) - 1)
                 PROVE  \E i \in 1..Len(q) : i # k /\ r[j] = q[i]
    OBVIOUS
  <2>2. CASE j < k
    <3>1. j \in 1..Len(q) /\ j # k
      BY <2>2, <1>2
    <3> QED
      BY <3>1, <2>2, <1>1
  <2>3. CASE j >= k
    <3>1. j + 1 \in 1..Len(q) /\ j + 1 # k
      BY <2>3, <1>2
    <3>2. ~(j < k)
      BY <2>3, <1>2
    <3> QED
      BY <3>1, <3>2, <1>1
  <2> QED
    BY <2>2, <2>3, <1>2
<1>5. \A i \in 1..Len(q) : i # k => \E j \in 1..(Len(q) - 1) : r[j] = q[i]
  <2>1. SUFFICES ASSUME NEW i \in 1..Len(q), i # k
                 PROVE  \E j \in 1..(Len(q) - 1) : r[j] = q[i]
    OBVIOUS
  <2>2. CASE i < k
    <3>1. i \in 1..(Len(q) - 1)
      BY <2>2, <1>2
    <3> QED
      BY <3>1, <2>2, <1>1
  <2>3. CASE i > k
    <3>1. i - 1 \in 1..(Len(q) - 1) /\ ~(i - 1 < k) /\ (i - 1) + 1 = i
      BY <2>3, <1>2
    <3>2. r[i - 1] = q[(i - 1) + 1]
      BY <3>1, <1>1
    <3> QED
      BY <3>1, <3>2
  <2> QED
    BY <2>1, <2>2, <2>3, <1>2
<1>6. ToSet(r) \subseteq ToSet(q) \ {q[k]}
  <2>1. SUFFICES ASSUME NEW j \in 1..(Len(q) - 1)
                 PROVE  r[j] \in ToSet(q) /\ r[j] # q[k]
    BY <1>3 DEF ToSet
  <2>2. PICK i \in 1..Len(q) : i # k /\ r[j] = q[i]
    BY <1>4
  <2> QED
    BY <2>2, <1>2 DEF ToSet
<1>7. ToSet(q) \ {q[k]} \subseteq ToSet(r)
  <2>1. SUFFICES ASSUME NEW i \in 1..Len(q), q[i] # q[k]
                 PROVE  q[i] \in ToSet(r)
    BY <1>2 DEF ToSet
  <2>2. i # k
    BY <2>1
  <2>3. PICK j \in 1..(Len(q) - 1) : r[j] = q[i]
    BY <2>2, <1>5
  <2> QED
    BY <2>3, <1>3 DEF ToSet
<1> QED
  BY <1>6, <1>7 DEF r

LEMMA LogInit == Init => AsEventLog!Init
  BY DEF Init, AsEventLog!Init, ToSet

\* A push is an arrival: refused, held, or held in the place of another event.
LEMMA LogPush ==
    ASSUME IInv, IInv', NEW p \in Payloads, Push(p)
    PROVE  AsEventLog!Arrive
<1> DEFINE m == Envelope(p, pushed + 1)
<1>1. /\ items \in Seq(NumberedEnvelopes) /\ pushed \in Nat /\ Len(items) <= Cap
      /\ Len(items) \in Nat /\ Cap \in Nat /\ DOMAIN items = 1..Len(items)
  BY LenProperties, CapAssumption DEF IInv, TypeOK, Bounded
<1>2. m \in NumberedEnvelopes /\ m.seq = pushed + 1
  BY <1>1, EnvelopeType
<1>3. pushed' = pushed + 1 /\ received' = received /\ items' = push(items, m, Cap)
  BY DEF Push
<1>4. Cardinality(ToSet(items')) <= Cap
  BY HeldBound DEF IInv, TypeOK, Bounded
<1> HIDE DEF m
<1>5. CASE items' = items
  BY <1>3, <1>5 DEF AsEventLog!Arrive
<1>6. ASSUME NEW lost \in SUBSET ToSet(items), \A e \in lost : ~is_never_drop(e),
             ToSet(items') = (ToSet(items) \ lost) \cup {m}
      PROVE  AsEventLog!Arrive
  <2>1. m \in ToSet(items')
    BY <1>6
  <2> QED
    BY <2>1, <1>2, <1>3, <1>4, <1>6 DEF AsEventLog!Arrive
<1>7. CASE items' = Append(items, m)
  <2>1. ToSet(items') = (ToSet(items) \ {}) \cup {m}
    BY <1>1, <1>2, <1>7, AppendHeld
  <2>2. {} \in SUBSET ToSet(items) /\ \A e \in {} : ~is_never_drop(e)
    OBVIOUS
  <2> QED
    BY <2>1, <2>2, <1>6
<1>8. ASSUME NEW k \in 1..Len(items), eviction_rank(items[k]) > 0,
             items' = Append(RemoveAt(items, k), m)
      PROVE  AsEventLog!Arrive
  <2>1. items[k] \in NumberedEnvelopes /\ items[k] \in ToSet(items)
    BY <1>1, ElementOfSeq DEF ToSet
  <2>2. ~is_never_drop(items[k])
    BY <2>1, <1>8, EvictedNotDurable
  <2>3. \A i, j \in 1..Len(items) : i # j => items[i] # items[j]
    <3>1. SUFFICES ASSUME NEW i \in 1..Len(items), NEW j \in 1..Len(items), i < j
                   PROVE  items[i].seq # items[j].seq
      BY <1>1
    <3>2. items[i].seq < items[j].seq
      BY <3>1, <1>1 DEF IInv, InOrder
    <3>3. items[i] \in NumberedEnvelopes /\ items[j] \in NumberedEnvelopes
      BY <1>1, ElementOfSeq
    <3>4. items[i].seq \in Nat /\ items[j].seq \in Nat
      BY <3>3 DEF NumberedEnvelopes
    <3> QED
      BY <3>2, <3>4
  <2>4. ToSet(RemoveAt(items, k)) = ToSet(items) \ {items[k]}
    BY <1>1, <2>3, RemoveHeld
  <2>5. RemoveAt(items, k) \in Seq(NumberedEnvelopes)
    BY <1>1, RemoveAtProperties
  <2>6. ToSet(items') = (ToSet(items) \ {items[k]}) \cup {m}
    BY <2>4, <2>5, <1>2, <1>8, AppendHeld
  <2>7. {items[k]} \in SUBSET ToSet(items) /\ \A e \in {items[k]} : ~is_never_drop(e)
    BY <2>1, <2>2
  <2> QED
    BY <2>6, <2>7, <1>6
<1> QED
  BY <1>1, <1>2, <1>3, <1>5, <1>7, <1>8, PushCases

\* A pop is the observation of the earliest event held.
LEMMA LogTryRecv ==
    ASSUME IInv, try_recv
    PROVE  AsEventLog!Observe
<1>1. /\ items \in Seq(NumberedEnvelopes) /\ items # <<>>
      /\ DOMAIN items = 1..Len(items) /\ Len(items) \in Nat \ {0}
  BY LenProperties, EmptySeq DEF IInv, TypeOK, try_recv
<1>2. pushed' = pushed /\ received' = items[1].seq /\ items' = Tail(items)
  BY <1>1 DEF try_recv
<1>3. Len(items) \in Nat \ {0}
  BY <1>1
<1>4. /\ items' \in Seq(NumberedEnvelopes) /\ Len(items') = Len(items) - 1
      /\ \A i \in 1..(Len(items) - 1) : items'[i] = items[i + 1]
  <2>1. /\ Tail(items) \in Seq(NumberedEnvelopes)
        /\ Len(Tail(items)) = Len(items) - 1
        /\ \A i \in 1..Len(Tail(items)) : Tail(items)[i] = items[i + 1]
    BY <1>1, HeadTailProperties
  <2> QED
    BY <2>1, <1>2
<1>5. DOMAIN items' = 1..(Len(items) - 1)
  BY <1>4, LenProperties
<1>6. /\ \A i, j \in 1..Len(items) : i < j => items[i].seq < items[j].seq
      /\ received < items[1].seq
  BY <1>1 DEF IInv, InOrder
<1>7. \A i \in 1..Len(items) : items[i].seq \in Nat
  <2>1. \A i \in 1..Len(items) : items[i] \in NumberedEnvelopes
    BY <1>1, ElementOfSeq
  <2> QED
    BY <2>1 DEF NumberedEnvelopes
<1>8. 1 \in 1..Len(items) /\ \A i \in 1..Len(items) : i = 1 \/ 1 < i
  BY <1>3
<1>9. \A i \in 1..Len(items) : items[1].seq <= items[i].seq
  BY <1>6, <1>7, <1>8
<1>10. ToSet(items') = ToSet(items) \ {items[1]}
  <2>1. ToSet(items') \subseteq ToSet(items) \ {items[1]}
    <3>1. SUFFICES ASSUME NEW i \in 1..(Len(items) - 1)
                   PROVE  items'[i] \in ToSet(items) /\ items'[i] # items[1]
      BY <1>5 DEF ToSet
    <3>2. i + 1 \in 1..Len(items) /\ 1 < i + 1
      BY <1>3
    <3>3. items[1].seq < items[i + 1].seq
      BY <3>2, <1>6, <1>8
    <3>4. items[i + 1] # items[1]
      BY <3>2, <3>3, <1>7, <1>8
    <3> QED
      BY <3>2, <3>4, <1>1, <1>4 DEF ToSet
  <2>2. ToSet(items) \ {items[1]} \subseteq ToSet(items')
    <3>1. SUFFICES ASSUME NEW i \in 1..Len(items), items[i] # items[1]
                   PROVE  items[i] \in ToSet(items')
      BY <1>1 DEF ToSet
    <3>2. i # 1
      BY <3>1
    <3>3. i - 1 \in 1..(Len(items) - 1) /\ (i - 1) + 1 = i
      BY <3>2, <1>3
    <3>4. items'[i - 1] = items[(i - 1) + 1]
      BY <3>3, <1>4
    <3>5. items'[i - 1] = items[i]
      BY <3>3, <3>4
    <3> QED
      BY <3>3, <3>5, <1>5 DEF ToSet
  <2> QED
    BY <2>1, <2>2
<1>11. items[1] \in ToSet(items) /\ \A f \in ToSet(items) : items[1].seq <= f.seq
  BY <1>1, <1>8, <1>9 DEF ToSet
<1>12. received' > received
  BY <1>2, <1>6, <1>7, <1>8 DEF IInv, TypeOK
<1> QED
  BY <1>2, <1>10, <1>11, <1>12 DEF AsEventLog!Observe

\* The queue implements the event log: every observer sees a duplicate-free,
\* ordered log from which no durable event disappears once it is queued.
THEOREM Refinement == Spec => ImplementsEventLog
<1>1. IInv /\ IInv' /\ [Next]_vars => [AsEventLog!Next]_AsEventLog!logVars
  <2>1. SUFFICES ASSUME IInv, IInv', [Next]_vars
                 PROVE  [AsEventLog!Next]_AsEventLog!logVars
    OBVIOUS
  <2>2. CASE \E p \in Payloads : Push(p)
    BY <2>1, <2>2, LogPush DEF AsEventLog!Next
  <2>3. CASE try_recv
    BY <2>1, <2>3, LogTryRecv DEF AsEventLog!Next
  <2>4. CASE UNCHANGED vars
    BY <2>4 DEF vars, AsEventLog!logVars
  <2> QED
    BY <2>1, <2>2, <2>3, <2>4 DEF Next
<1> QED
  BY <1>1, LogInit, Invariance, PTL DEF Spec, ImplementsEventLog, AsEventLog!Spec

----------------------------------------------------------------------------
(* What an eviction costs.                                                 *)

\* The envelopes in the queue differ.
LEMMA HeldApart ==
    ASSUME IInv, NEW i \in 1..Len(items), NEW j \in 1..Len(items), i # j
    PROVE  items[i] # items[j] /\ (i < j => items[i].seq < items[j].seq)
<1>1. items \in Seq(NumberedEnvelopes) /\ Len(items) \in Nat /\ DOMAIN items = 1..Len(items)
  BY LenProperties DEF IInv, TypeOK
<1>2. items[i].seq \in Nat /\ items[j].seq \in Nat
  <2>1. items[i] \in NumberedEnvelopes /\ items[j] \in NumberedEnvelopes
    BY <1>1, ElementOfSeq
  <2> QED
    BY <2>1 DEF NumberedEnvelopes
<1>3. (i < j => items[i].seq < items[j].seq) /\ (j < i => items[j].seq < items[i].seq)
  BY <1>1 DEF IInv, InOrder
<1>4. i < j \/ j < i
  BY <1>1
<1> QED
  BY <1>2, <1>3, <1>4

\* A push loses nothing, or what eviction_index names.
LEMMA PushLoses ==
    ASSUME IInv, NEW p \in Payloads, Push(p),
           NEW lost \in ToSet(items) \ ToSet(items')
    PROVE  /\ Evictable(items) # {} /\ eviction_index(items) \in 1..Len(items)
           /\ lost = items[eviction_index(items)]
<1> DEFINE m == Envelope(p, pushed + 1)
<1>1. /\ items \in Seq(NumberedEnvelopes) /\ pushed \in Nat
      /\ Len(items) \in Nat /\ DOMAIN items = 1..Len(items)
  BY LenProperties DEF IInv, TypeOK
<1>2. m \in NumberedEnvelopes
  BY <1>1, EnvelopeType
<1>3. items' = push(items, m, Cap)
  BY DEF Push
<1> HIDE DEF m
<1>4. items' # items
  OBVIOUS
<1>5. items' # Append(items, m)
  BY <1>1, <1>2, AppendHeld
<1>6. Evictable(items) # {} /\ items' = Append(RemoveAt(items, eviction_index(items)), m)
  BY <1>3, <1>4, <1>5 DEF push
<1>7. PICK k : k = eviction_index(items)
  OBVIOUS
<1>8. k \in 1..Len(items)
  BY <1>1, <1>6, <1>7, EvictionIndex DEF Evictable
<1>9. ToSet(RemoveAt(items, k)) = ToSet(items) \ {items[k]}
  BY <1>1, <1>8, HeldApart, RemoveHeld
<1>10. RemoveAt(items, k) \in Seq(NumberedEnvelopes)
  BY <1>1, <1>8, RemoveAtProperties
<1>11. ToSet(items') = (ToSet(items) \ {items[k]}) \cup {m}
  BY <1>2, <1>6, <1>7, <1>9, <1>10, AppendHeld
<1> QED
  BY <1>6, <1>7, <1>8, <1>11

\* What the eviction ranks say of the envelopes that have them.
LEMMA RankNames ==
    ASSUME NEW m
    PROVE  /\ is_heartbeat(m) <=> eviction_rank(m) = 4
           /\ Telemetry(m) <=> eviction_rank(m) = 3
           /\ (m.name = Log /\ ~is_never_drop(m)) <=> eviction_rank(m) \in {2, 3}
  BY DEF eviction_rank, is_heartbeat, is_never_drop, Telemetry, Heartbeat, Log, InputAck,
         UiResult, Snapshot, SnapshotError

\* What stays after a push that evicts was worth at least as much as what went:
\* MEM and SCT logs go before other logs and after heartbeats, one envelope per
\* push, for every capacity and every sequence of pushes.
THEOREM EvictionCorrect == Spec => EvictsLeastValuable
<1> DEFINE Step ==
      pushed' # pushed =>
          \A lost \in ToSet(items) \ ToSet(items') :
            /\ ~is_never_drop(lost)
            /\ ToSet(items) \ ToSet(items') = {lost}
            /\ \A kept \in ToSet(items) \cap ToSet(items') :
                 /\ is_heartbeat(kept) => is_heartbeat(lost)
                 /\ Telemetry(kept) => is_heartbeat(lost) \/ Telemetry(lost)
                 /\ kept.name = Log /\ ~is_never_drop(kept) => lost.name \in {Heartbeat, Log}
<1>1. ASSUME IInv, [Next]_vars, pushed' # pushed,
             NEW lost \in ToSet(items) \ ToSet(items')
      PROVE  /\ eviction_rank(lost) > 0
             /\ ToSet(items) \ ToSet(items') = {lost}
             /\ \A kept \in ToSet(items) \cap ToSet(items') :
                  eviction_rank(kept) <= eviction_rank(lost)
  <2>1. PICK p \in Payloads : Push(p)
    BY <1>1 DEF Next, try_recv, vars
  <2>2. PICK k : k = eviction_index(items)
    OBVIOUS
  <2>3. Evictable(items) # {} /\ k \in 1..Len(items) /\ lost = items[k]
    BY <1>1, <2>1, <2>2, PushLoses
  <2>4. items \in Seq(NumberedEnvelopes) /\ DOMAIN items = 1..Len(items)
    BY <1>1, LenProperties DEF IInv, TypeOK
  <2>5. /\ k \in Evictable(items)
        /\ \A j \in Evictable(items) :
              \/ eviction_rank(items[j]) < eviction_rank(items[k])
              \/ eviction_rank(items[j]) = eviction_rank(items[k]) /\ k <= j
    BY <2>2, <2>3, <2>4, EvictionIndex
  <2>6. eviction_rank(lost) > 0
    BY <2>3, <2>5 DEF Evictable
  <2>7. \A other \in ToSet(items) \ ToSet(items') : other = lost
    BY <1>1, <2>1, <2>2, <2>3, PushLoses
  <2>8. ASSUME NEW kept \in ToSet(items) \cap ToSet(items')
        PROVE  eviction_rank(kept) <= eviction_rank(lost)
    <3>1. PICK j \in 1..Len(items) : kept = items[j]
      BY <2>4 DEF ToSet
    <3>2. eviction_rank(lost) \in 0..4 /\ eviction_rank(kept) \in 0..4
      BY RankRange
    <3>3. CASE j \in Evictable(items)
      BY <2>3, <2>5, <3>1, <3>2, <3>3
    <3>4. CASE j \notin Evictable(items)
      <4>1. ~(eviction_rank(kept) > 0)
        BY <2>4, <3>1, <3>4 DEF Evictable
      <4> QED
        BY <2>6, <3>2, <4>1
    <3> QED
      BY <3>3, <3>4
  <2> QED
    BY <1>1, <2>6, <2>7, <2>8
<1>2. ASSUME IInv, [Next]_vars
      PROVE  Step
  <2>1. SUFFICES ASSUME pushed' # pushed, NEW lost \in ToSet(items) \ ToSet(items')
                 PROVE  /\ ~is_never_drop(lost)
                        /\ ToSet(items) \ ToSet(items') = {lost}
                        /\ \A kept \in ToSet(items) \cap ToSet(items') :
                             /\ is_heartbeat(kept) => is_heartbeat(lost)
                             /\ Telemetry(kept) => is_heartbeat(lost) \/ Telemetry(lost)
                             /\ kept.name = Log /\ ~is_never_drop(kept)
                                  => lost.name \in {Heartbeat, Log}
    OBVIOUS
  <2>2. eviction_rank(lost) \in 0..4 /\ ~is_never_drop(lost)
    BY <1>1, <1>2, <2>1, RankRange
  <2>3. SUFFICES ASSUME NEW kept \in ToSet(items) \cap ToSet(items')
                 PROVE  /\ is_heartbeat(kept) => is_heartbeat(lost)
                        /\ Telemetry(kept) => is_heartbeat(lost) \/ Telemetry(lost)
                        /\ kept.name = Log /\ ~is_never_drop(kept)
                             => lost.name \in {Heartbeat, Log}
    BY <1>1, <1>2, <2>1, <2>2
  <2>4. eviction_rank(kept) \in 0..4 /\ eviction_rank(kept) <= eviction_rank(lost)
    BY <1>1, <1>2, <2>1, <2>3, RankRange
  <2>5. is_heartbeat(kept) => is_heartbeat(lost)
    BY <2>2, <2>4, RankNames
  <2>6. Telemetry(kept) => is_heartbeat(lost) \/ Telemetry(lost)
    BY <2>2, <2>4, RankNames
  <2>7. kept.name = Log /\ ~is_never_drop(kept) => lost.name \in {Heartbeat, Log}
    <3>1. kept.name = Log /\ ~is_never_drop(kept) => eviction_rank(lost) \in {2, 3, 4}
      BY <2>2, <2>4, RankNames
    <3>2. eviction_rank(lost) = 4 => lost.name = Heartbeat
      BY RankNames DEF is_heartbeat
    <3>3. eviction_rank(lost) \in {2, 3} => lost.name = Log
      BY RankNames
    <3> QED
      BY <3>1, <3>2, <3>3
  <2> QED
    BY <2>5, <2>6, <2>7
<1>3. IInv /\ [Next]_vars => [Step]_vars
  BY <1>2
<1> QED
  BY <1>3, Invariance, PTL DEF Spec, EvictsLeastValuable
=============================================================================
