-------------------------- MODULE EnvelopesProofs --------------------------
(***************************************************************************)
(* What the operators of Envelopes compute, for every queue and every      *)
(* envelope: the eviction policy and what a push keeps.                    *)
(***************************************************************************)
EXTENDS Envelopes, SequenceTheorems, WellFoundedInduction, TLAPS

\* Every nonempty set of naturals has a least element.
LEMMA LeastNatural ==
    ASSUME NEW T, T \subseteq Nat, T # {}
    PROVE  \E x \in T : \A y \in T : x <= y
<1>1. \E x \in T : \A y \in T : ~ (<<y, x>> \in OpToRel(<, Nat))
  BY NatLessThanWellFounded, WFMin
<1>2. PICK x \in T : \A y \in T : ~ (<<y, x>> \in OpToRel(<, Nat))
  BY <1>1
<1>3. \A y \in T : ~(y < x)
  BY <1>2 DEF OpToRel
<1> QED
  BY <1>3

\* The rank of an envelope is one of five, and a never-dropped one has rank 0.
LEMMA RankRange ==
    ASSUME NEW m
    PROVE  /\ eviction_rank(m) \in 0..4
           /\ is_never_drop(m) => eviction_rank(m) = 0
  BY DEF eviction_rank, is_heartbeat, is_never_drop, Heartbeat, Log, InputAck, UiResult,
         Snapshot, SnapshotError

\* Positions ranked by a function have a worst one that comes before its equals.
LEMMA WorstFirst ==
    ASSUME NEW E, E \subseteq Nat, E # {}, NEW f \in [E -> 0..4]
    PROVE  \E i \in E : \A j \in E : f[j] < f[i] \/ (f[j] = f[i] /\ i <= j)
<1> DEFINE D == {4 - f[i] : i \in E}
<1>1. \A i \in E : f[i] \in 0..4
  OBVIOUS
<1>2. D \subseteq Nat /\ D # {}
  <2>1. \A i \in E : 4 - f[i] \in Nat
    BY <1>1
  <2> QED
    BY <2>1
<1>3. PICK d \in D : \A e \in D : d <= e
  <2> HIDE DEF D
  <2> QED  BY <1>2, LeastNatural
<1>4. PICK w \in E : d = 4 - f[w]
  BY <1>3
<1>5. \A j \in E : f[j] <= f[w]
  <2>1. SUFFICES ASSUME NEW j \in E PROVE f[j] <= f[w]
    OBVIOUS
  <2>2. 4 - f[w] <= 4 - f[j]
    BY <1>3, <1>4
  <2> QED
    BY <2>2, <1>1
<1> DEFINE T == {i \in E : f[i] = f[w]}
<1>6. PICK i \in T : \A j \in T : i <= j
  <2>1. T \subseteq Nat /\ T # {}
    OBVIOUS
  <2> HIDE DEF T
  <2> QED  BY <2>1, LeastNatural
<1> QED
  BY <1>1, <1>5, <1>6

\* Where something can be evicted, eviction_index names it: a position of the
\* worst rank, and of these the first.
LEMMA EvictionIndex ==
    ASSUME NEW S, NEW q \in Seq(S), Evictable(q) # {}
    PROVE  LET i == eviction_index(q)
           IN  /\ i \in Evictable(q)
               /\ \A j \in Evictable(q) :
                    \/ eviction_rank(q[j]) < eviction_rank(q[i])
                    \/ eviction_rank(q[j]) = eviction_rank(q[i]) /\ i <= j
<1> DEFINE E == Evictable(q)
           f == [i \in E |-> eviction_rank(q[i])]
<1>1. \A i \in E : i \in 1..Len(q)
  BY LenProperties DEF Evictable
<1>2. E \subseteq Nat
  BY <1>1, LenProperties
<1>3. f \in [E -> 0..4]
  BY <1>1, RankRange
<1>4. \E i \in E : \A j \in E : f[j] < f[i] \/ (f[j] = f[i] /\ i <= j)
  <2> HIDE DEF f, E
  <2> QED  BY <1>2, <1>3, WorstFirst DEF E
<1>5. \E i \in E : \A j \in E : (eviction_rank(q[j]) < eviction_rank(q[i]))
                               \/ (eviction_rank(q[j]) = eviction_rank(q[i]) /\ i <= j)
  BY <1>4
<1> QED
  BY <1>5 DEF eviction_index

\* What removing one position of a sequence leaves.
LEMMA RemoveAtProperties ==
    ASSUME NEW S, NEW s \in Seq(S), NEW i \in 1..Len(s)
    PROVE  /\ RemoveAt(s, i) \in Seq(S)
           /\ Len(RemoveAt(s, i)) = Len(s) - 1
           /\ \A j \in 1..(Len(s) - 1) :
                RemoveAt(s, i)[j] = IF j < i THEN s[j] ELSE s[j + 1]
<1> DEFINE a == SubSeq(s, 1, i - 1)
           b == SubSeq(s, i + 1, Len(s))
<1>0. Len(s) \in Nat /\ \A j \in 1..Len(s) : s[j] \in S
  BY LenProperties, ElementOfSeq
<1>1. /\ a \in Seq(S) /\ Len(a) = i - 1
      /\ \A j \in 1..(i - 1) : a[j] = s[j]
  BY <1>0, SubSeqProperties
<1>2. /\ b \in Seq(S) /\ Len(b) = Len(s) - i
      /\ \A j \in 1..(Len(s) - i) : b[j] = s[i + j]
  BY <1>0, SubSeqProperties
<1> HIDE DEF a, b
<1>3. /\ a \o b \in Seq(S)
      /\ Len(a \o b) = Len(a) + Len(b)
      /\ \A j \in 1..Len(a) + Len(b) :
           (a \o b)[j] = IF j <= Len(a) THEN a[j] ELSE b[j - Len(a)]
  BY <1>1, <1>2, ConcatProperties
<1>4. Len(a) + Len(b) = Len(s) - 1
  BY <1>0, <1>1, <1>2
<1>5. \A j \in 1..(Len(s) - 1) : (a \o b)[j] = IF j < i THEN s[j] ELSE s[j + 1]
  <2>1. SUFFICES ASSUME NEW j \in 1..(Len(s) - 1)
                 PROVE  (a \o b)[j] = IF j < i THEN s[j] ELSE s[j + 1]
    OBVIOUS
  <2>2. CASE j < i
    BY <2>2, <1>0, <1>1, <1>3, <1>4
  <2>3. CASE j >= i
    <3>1. /\ (a \o b)[j] = b[j - (i - 1)]
          /\ j - (i - 1) \in 1..(Len(s) - i)
      BY <2>3, <1>0, <1>1, <1>3, <1>4
    <3>2. b[j - (i - 1)] = s[i + (j - (i - 1))] /\ i + (j - (i - 1)) = j + 1
      BY <3>1, <1>2, <1>0
    <3> QED
      BY <3>1, <3>2, <2>3
  <2>4. j < i \/ j >= i
    BY <1>0
  <2> QED
    BY <2>2, <2>3, <2>4
<1> QED
  BY <1>3, <1>4, <1>5 DEF RemoveAt, a, b

\* A push adds at most the new envelope, and no other.
LEMMA PushElements ==
    ASSUME NEW S, NEW q \in Seq(S), NEW m \in S, NEW cap \in Nat
    PROVE  /\ push(q, m, cap) \in Seq(S)
           /\ ToSet(push(q, m, cap)) \subseteq ToSet(q) \cup {m}
<1>0. /\ Len(q) \in Nat /\ DOMAIN q = 1..Len(q)
      /\ Append(q, m) \in Seq(S)
      /\ ToSet(Append(q, m)) \subseteq ToSet(q) \cup {m}
  BY LenProperties, AppendProperties DEF ToSet
<1>1. CASE Len(q) # cap
  BY <1>0, <1>1 DEF push
<1>2. CASE Len(q) = cap /\ (is_heartbeat(m) \/ Evictable(q) = {})
  BY <1>0, <1>2 DEF push
<1>3. CASE Len(q) = cap /\ ~is_heartbeat(m) /\ Evictable(q) # {}
  <2> DEFINE i == eviction_index(q)
             r == RemoveAt(q, i)
  <2>1. i \in 1..Len(q)
    BY <1>0, <1>3, EvictionIndex DEF Evictable
  <2>2. push(q, m, cap) = Append(r, m)
    BY <1>3 DEF push
  <2> HIDE DEF i
  <2>3. /\ r \in Seq(S) /\ Len(r) = Len(q) - 1
        /\ \A j \in 1..(Len(q) - 1) : r[j] = IF j < i THEN q[j] ELSE q[j + 1]
    BY <2>1, RemoveAtProperties
  <2>4. \A j \in 1..(Len(q) - 1) : r[j] \in ToSet(q)
    BY <1>0, <2>1, <2>3 DEF ToSet
  <2> HIDE DEF r
  <2>5. /\ Append(r, m) \in Seq(S)
        /\ ToSet(Append(r, m)) \subseteq ToSet(r) \cup {m}
    BY <2>3, LenProperties, AppendProperties DEF ToSet
  <2>6. ToSet(r) \subseteq ToSet(q)
    BY <2>3, <2>4, LenProperties DEF ToSet
  <2> QED
    BY <2>2, <2>5, <2>6
<1> QED
  BY <1>1, <1>2, <1>3

\* The elements of a queue that gained one at the end or lost the first.
LEMMA SequenceElements ==
    /\ ToSet(<<>>) = {}
    /\ \A S : \A q \in Seq(S), x \in S :
          ToSet(q) \subseteq S /\ ToSet(Append(q, x)) = ToSet(q) \cup {x}
    /\ \A S : \A q \in Seq(S) : q # <<>> =>
          /\ Head(q) \in ToSet(q)
          /\ ToSet(Tail(q)) \subseteq ToSet(q)
          /\ ToSet(q) = {Head(q)} \cup ToSet(Tail(q))
<1>1. ToSet(<<>>) = {}
  BY DEF ToSet
<1>2. ASSUME NEW S, NEW q \in Seq(S), NEW x \in S
      PROVE  ToSet(q) \subseteq S /\ ToSet(Append(q, x)) = ToSet(q) \cup {x}
  <2>1. /\ Len(q) \in Nat /\ DOMAIN q = 1..Len(q)
        /\ \A i \in 1..Len(q) : q[i] \in S
    BY LenProperties, ElementOfSeq
  <2>2. /\ DOMAIN Append(q, x) = 1..(Len(q) + 1)
        /\ \A i \in 1..Len(q) : Append(q, x)[i] = q[i]
        /\ Append(q, x)[Len(q) + 1] = x
    BY AppendProperties
  <2>3. ToSet(Append(q, x)) \subseteq ToSet(q) \cup {x}
    BY <2>1, <2>2 DEF ToSet
  <2>4. ToSet(q) \cup {x} \subseteq ToSet(Append(q, x))
    BY <2>1, <2>2 DEF ToSet
  <2> QED
    BY <2>1, <2>3, <2>4 DEF ToSet
<1>3. ASSUME NEW S, NEW q \in Seq(S), q # <<>>
      PROVE  /\ Head(q) \in ToSet(q)
             /\ ToSet(Tail(q)) \subseteq ToSet(q)
             /\ ToSet(q) = {Head(q)} \cup ToSet(Tail(q))
  <2>1. /\ Len(q) \in Nat /\ Len(q) > 0 /\ DOMAIN q = 1..Len(q)
        /\ Head(q) = q[1]
    BY <1>3, LenProperties, EmptySeq, HeadTailProperties
  <2>2. /\ Tail(q) \in Seq(S) /\ Len(Tail(q)) = Len(q) - 1
        /\ \A i \in 1..(Len(q) - 1) : Tail(q)[i] = q[i + 1]
    BY <1>3, HeadTailProperties
  <2>3. DOMAIN Tail(q) = 1..(Len(q) - 1)
    BY <2>2, LenProperties
  <2>4. Head(q) \in ToSet(q) /\ ToSet(Tail(q)) \subseteq ToSet(q)
    BY <2>1, <2>2, <2>3 DEF ToSet
  <2>5. ASSUME NEW i \in 1..Len(q) PROVE q[i] \in {Head(q)} \cup ToSet(Tail(q))
    <3>1. CASE i = 1
      BY <3>1, <2>1
    <3>2. CASE i # 1
      <4>1. i - 1 \in 1..(Len(q) - 1) /\ (i - 1) + 1 = i
        BY <3>2, <2>1
      <4> QED
        BY <4>1, <2>2, <2>3 DEF ToSet
    <3> QED
      BY <3>1, <3>2
  <2> QED
    BY <2>1, <2>4, <2>5 DEF ToSet
<1> QED
  BY <1>1, <1>2, <1>3
=============================================================================
