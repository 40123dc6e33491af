--------------------------- MODULE AdmissionProofs ---------------------------
(***************************************************************************)
(* Proofs about the client slots of Admission, for any number of requests, *)
(* clients and slots.                                                      *)
(***************************************************************************)
EXTENDS Admission, FiniteSetTheorems, SequenceTheorems, WellFoundedInduction,
        TLAPS

(* The requests that hold one of client k's slots.                         *)
HoldersOf(k) == {r \in Requests : key[r] = k /\ slot[r] = "holder"}

(* Which request is in which slot state, and how the table agrees.         *)
Slots ==
  /\ \A k \in Keys : holders[k] = Cardinality(HoldersOf(k))
  /\ \A r \in Requests : slot[r] # "none" => r \in admitted
  /\ \A r \in done : slot[r] \notin {"holder", "waiting"}
  /\ \A r \in enforced : slot[r] # "discarded"

(* A request begins before it does anything else.                          *)
Begins ==
  /\ \A r \in admitted \cup done \cup enforced : Begun(r)
  /\ \A r \in closed \cup late \cup flagged : r \in admitted
  /\ \A r \in Requests : stmt[r] # "none" => r \in admitted \cup done
  /\ \A r \in Requests : stmt[r] \in {"waiting"} \cup Awake
                            => r \in enforced \cap admitted

(* An enforced request that has not given up has its slot, or is still in  *)
(* its wait for it.                                                        *)
Covered ==
  \A r \in (enforced \cap admitted) \ (done \cup failed) :
    \/ slot[r] = "holder"
    \/ slot[r] = "waiting" /\ stmt[r] \in {"waiting"} \cup Awake

(* An observed request is counted when it leaves the queue, if it was late.*)
Counted ==
  \A r \in Requests \ enforced :
    IF slot[r] = "waiting" THEN r \notin flagged ELSE r \in flagged <=> r \in late

Table == TypeOK /\ Slots /\ QueueExact /\ NoIdleSlot
Marks == Begins /\ Covered /\ NoLostWakeup /\ Counted
IInv == Table /\ Marks
-----------------------------------------------------------------------------
(* Sequences                                                               *)

(* Sets of indices have a least element: the shortest of the intervals     *)
(* 1..x that end in one.                                                   *)
LEMMA LeastExists ==
  ASSUME NEW n \in Nat, NEW S \in SUBSET (1..n), S # {}
  PROVE  Min(S) \in S /\ \A y \in S : Min(S) <= y
<1> DEFINE T == {1..x : x \in S}
           R == StrictSubsetOrdering(1..n)
<1>1. IsWellFoundedOn(R, SUBSET (1..n))
  <2>1. IsFiniteSet(1..n)
    BY FS_Interval
  <2> QED
    BY <2>1, FS_StrictSubsetOrderingWellFounded, FS_FiniteSubsetsOfFinite
<1>2. T \subseteq SUBSET (1..n) /\ T # {}
  <2>1. \A x \in S : 1..x \subseteq 1..n
    OBVIOUS
  <2> QED
    BY <2>1
<1>3. \E I \in T : \A J \in T : ~ (<<J, I>> \in R)
  <2> HIDE DEF T, R
  <2> QED
    BY <1>1, <1>2, WFMin
<1>4. PICK x \in S : \A y \in S : ~ (<<1..y, 1..x>> \in R)
  BY <1>3
<1>5. ASSUME NEW y \in S, ~ (x <= y)
      PROVE  FALSE
  <2>1. 1..y \subseteq 1..x /\ 1..y # 1..x
    BY <1>5
  <2>2. <<1..y, 1..x>> \in R
    BY <2>1 DEF StrictSubsetOrdering
  <2> QED
    BY <2>2, <1>4
<1> QED
  BY <1>5 DEF Min

LEMMA RemoveFirstIsRemoveAt ==
  ASSUME NEW q, NEW r, \E i \in 1..Len(q) : q[i] = r
  PROVE  RemoveFirst(q, r) = RemoveAt(q, Min({i \in 1..Len(q) : q[i] = r}))
BY DEF RemoveFirst, SelectInSeq

(* Deleting one element of a sequence without repetitions.                 *)
LEMMA RemovedAt ==
  ASSUME NEW S, NEW q \in Seq(S), NEW m \in 1..Len(q)
  PROVE  /\ RemoveAt(q, m) \in Seq(S)
         /\ Len(RemoveAt(q, m)) = Len(q) - 1
         /\ \A i \in 1..(Len(q) - 1) :
              RemoveAt(q, m)[i] = IF i < m THEN q[i] ELSE q[i + 1]
<1> DEFINE front == SubSeq(q, 1, m - 1)
           back == SubSeq(q, m + 1, Len(q))
<1>1. /\ front \in Seq(S) /\ Len(front) = m - 1
      /\ \A i \in 1..(m-1) : front[i] = q[i]
  <2>1. \A i \in 1..(m-1) : q[i] \in S
    OBVIOUS
  <2>2. 1 \in Int /\ m - 1 \in Int /\ m - 1 - 1 + 1 = m - 1
    OBVIOUS
  <2> QED
    BY <2>1, <2>2, SubSeqProperties
<1>2. /\ back \in Seq(S) /\ Len(back) = Len(q) - m
      /\ \A i \in 1..(Len(q) - m) : back[i] = q[m + i]
  <2>1. \A i \in (m+1)..Len(q) : q[i] \in S
    OBVIOUS
  <2>2. m + 1 \in Int /\ Len(q) \in Int
    OBVIOUS
  <2> QED
    BY <2>1, <2>2, SubSeqProperties
<1> HIDE DEF front, back
<1>3. RemoveAt(q, m) = front \o back
  BY DEF RemoveAt, front, back
<1>4. /\ front \o back \in Seq(S)
      /\ Len(front \o back) = Len(front) + Len(back)
      /\ \A i \in 1..(Len(front) + Len(back)) : (front \o back)[i] =
           IF i <= Len(front) THEN front[i] ELSE back[i - Len(front)]
  BY <1>1, <1>2, ConcatProperties
<1>5. Len(q) \in Nat /\ Len(front) + Len(back) = Len(q) - 1
  BY <1>1, <1>2
<1>6. ASSUME NEW i \in 1..(Len(q) - 1)
      PROVE  (front \o back)[i] = IF i < m THEN q[i] ELSE q[i + 1]
  <2>1. CASE i < m
    <3>1. (front \o back)[i] = front[i]
      BY <2>1, <1>1, <1>4, <1>5
    <3> QED
      BY <3>1, <2>1, <1>1
  <2>2. CASE ~ (i < m)
    <3>1. (front \o back)[i] = back[i - (m - 1)]
      BY <2>2, <1>1, <1>4, <1>5
    <3>2. i - (m - 1) \in 1..(Len(q) - m) /\ m + (i - (m - 1)) = i + 1
      BY <2>2, <1>5
    <3> QED
      BY <3>1, <3>2, <2>2, <1>2
  <2> QED
    BY <2>1, <2>2
<1> QED
  BY <1>3, <1>4, <1>5, <1>6

LEMMA RemovedFirst ==
  ASSUME NEW S, NEW q \in Seq(S), NEW r, IsInjective(q)
  PROVE  /\ RemoveFirst(q, r) \in Seq(S)
         /\ IsInjective(RemoveFirst(q, r))
         /\ ToSet(RemoveFirst(q, r)) = ToSet(q) \ {r}
<1>1. CASE ~ \E i \in 1..Len(q) : q[i] = r
  BY <1>1 DEF RemoveFirst, ToSet
<1>2. CASE \E i \in 1..Len(q) : q[i] = r
  <2> DEFINE I == {i \in 1..Len(q) : q[i] = r}
             m == Min(I)
             p == RemoveAt(q, m)
  <2>1. m \in 1..Len(q) /\ q[m] = r
    <3>1. I \in SUBSET (1..Len(q)) /\ I # {} /\ Len(q) \in Nat
      BY <1>2
    <3>2. m \in I
      <4> HIDE DEF I
      <4> QED
        BY <3>1, LeastExists
    <3> QED
      BY <3>2
  <2>2. RemoveFirst(q, r) = p
    BY <1>2, RemoveFirstIsRemoveAt
  <2> HIDE DEF m
  <2>3. /\ p \in Seq(S)
        /\ Len(p) = Len(q) - 1
        /\ \A i \in 1..(Len(q) - 1) : p[i] = IF i < m THEN q[i] ELSE q[i + 1]
    BY <2>1, RemovedAt
  <2> HIDE DEF p
  <2>4. DOMAIN q = 1..Len(q) /\ DOMAIN p = 1..(Len(q) - 1) /\ Len(q) \in Nat
    BY <2>3
  <2>5. \A i, j \in 1..Len(q) : q[i] = q[j] => i = j
    BY <2>4 DEF IsInjective
  <2>6. \A i, j \in 1..(Len(q) - 1) : p[i] = p[j] => i = j
    BY <2>1, <2>3, <2>4, <2>5
  <2>7. ASSUME NEW i \in 1..Len(q), q[i] # r
        PROVE  q[i] \in ToSet(p)
    <3>1. CASE i < m
      <4>1. i \in 1..(Len(q) - 1) /\ p[i] = q[i]
        BY <3>1, <2>1, <2>3
      <4> QED
        BY <4>1, <2>4 DEF ToSet
    <3>2. CASE i > m
      <4>1. i - 1 \in 1..(Len(q) - 1) /\ p[i - 1] = q[i]
        BY <3>2, <2>1, <2>3
      <4> QED
        BY <4>1, <2>4 DEF ToSet
    <3> QED
      BY <3>1, <3>2, <2>7, <2>1
  <2>8. ASSUME NEW i \in 1..(Len(q) - 1)
        PROVE  \E j \in 1..Len(q) : j # m /\ p[i] = q[j]
    BY <2>1, <2>3, <2>4
  <2>9. ToSet(q) = {q[i] : i \in 1..Len(q)}
    BY <2>4 DEF ToSet
  <2>10. ToSet(p) = {p[i] : i \in 1..(Len(q) - 1)}
    BY <2>4 DEF ToSet
  <2>11. ToSet(p) = ToSet(q) \ {r}
    <3>1. ToSet(p) \subseteq ToSet(q) \ {r}
      BY <2>8, <2>9, <2>10, <2>1, <2>5
    <3>2. ToSet(q) \ {r} \subseteq ToSet(p)
      BY <2>7, <2>9
    <3> QED
      BY <3>1, <3>2
  <2>12. IsInjective(p)
    BY <2>6, <2>4 DEF IsInjective
  <2> QED
    BY <2>2, <2>3, <2>11, <2>12
<1> QED
  BY <1>1, <1>2

(* A request not in the queue joins it.                                    *)
LEMMA Appended ==
  ASSUME NEW S, NEW q \in Seq(S), NEW r \in S, IsInjective(q), r \notin ToSet(q)
  PROVE  /\ Append(q, r) \in Seq(S)
         /\ IsInjective(Append(q, r))
         /\ ToSet(Append(q, r)) = ToSet(q) \cup {r}
<1> DEFINE p == Append(q, r)
<1>1. /\ p \in Seq(S) /\ Len(p) = Len(q) + 1
      /\ \A i \in 1..Len(q) : p[i] = q[i]
      /\ p[Len(q) + 1] = r
      /\ Len(q) \in Nat
  OBVIOUS
<1> HIDE DEF p
<1>2. DOMAIN q = 1..Len(q) /\ DOMAIN p = 1..(Len(q) + 1)
  BY <1>1
<1>3. \A i \in 1..Len(q) : q[i] # r
  BY <1>2 DEF ToSet
<1>4. \A i, j \in 1..Len(q) : q[i] = q[j] => i = j
  BY <1>2 DEF IsInjective
<1>5. IsInjective(p)
  BY <1>1, <1>2, <1>3, <1>4 DEF IsInjective
<1>6. ToSet(p) = ToSet(q) \cup {r}
  <2>1. \A i \in 1..(Len(q) + 1) : i \in 1..Len(q) \/ i = Len(q) + 1
    BY <1>1
  <2> QED
    BY <1>1, <1>2, <2>1 DEF ToSet
<1> QED
  BY <1>1, <1>5, <1>6 DEF p

(* The head of a queue is served and leaves it.                            *)
LEMMA Served ==
  ASSUME NEW S, NEW q \in Seq(S), NEW t \in 0..Len(q), IsInjective(q)
  PROVE  /\ SubSeq(q, t + 1, Len(q)) \in Seq(S)
         /\ Len(SubSeq(q, t + 1, Len(q))) = Len(q) - t
         /\ IsInjective(SubSeq(q, t + 1, Len(q)))
         /\ ToSet(SubSeq(q, t + 1, Len(q))) = ToSet(q) \ {q[i] : i \in 1..t}
<1> DEFINE p == SubSeq(q, t + 1, Len(q))
<1>1. /\ p \in Seq(S) /\ Len(p) = Len(q) - t
      /\ \A i \in 1..(Len(q) - t) : p[i] = q[t + i]
  <2>1. \A i \in (t+1)..Len(q) : q[i] \in S
    OBVIOUS
  <2>2. t + 1 \in Int /\ Len(q) \in Int
    OBVIOUS
  <2> QED
    BY <2>1, <2>2, SubSeqProperties
<1> HIDE DEF p
<1>2. DOMAIN q = 1..Len(q) /\ DOMAIN p = 1..(Len(q) - t) /\ Len(q) \in Nat
  BY <1>1
<1>3. \A i, j \in 1..Len(q) : q[i] = q[j] => i = j
  BY <1>2 DEF IsInjective
<1>4. IsInjective(p)
  BY <1>1, <1>2, <1>3 DEF IsInjective
<1>5. ToSet(q) = {q[i] : i \in 1..Len(q)}
  BY <1>2 DEF ToSet
<1>6. ToSet(p) = {q[i] : i \in (t+1)..Len(q)}
  <2>1. \A i \in (t+1)..Len(q) : i - t \in 1..(Len(q) - t) /\ p[i - t] = q[i]
    BY <1>1, <1>2
  <2>2. \A i \in 1..(Len(q) - t) : t + i \in (t+1)..Len(q) /\ p[i] = q[t + i]
    BY <1>1, <1>2
  <2>3. ToSet(p) = {p[i] : i \in 1..(Len(q) - t)}
    BY <1>2 DEF ToSet
  <2> QED
    BY <2>1, <2>2, <2>3
<1>7. \A i \in 1..Len(q) : i \in 1..t \/ i \in (t+1)..Len(q)
  OBVIOUS
<1>8. \A i \in 1..t, j \in (t+1)..Len(q) : q[i] # q[j]
  BY <1>3
<1>9. ToSet(p) = ToSet(q) \ {q[i] : i \in 1..t}
  BY <1>5, <1>6, <1>7, <1>8
<1> QED
  BY <1>1, <1>4, <1>9 DEF p
-----------------------------------------------------------------------------
(* The waiters a release serves: an initial segment of the queue, all but  *)
(* its last element expired.  Only the release of a full client has        *)
(* waiters to serve, and it has one slot to give.                          *)
LEMMA HandOver ==
  ASSUME NEW q \in Seq(Requests), NEW room \in Int,
         room = 1 \/ q = <<>>
  PROVE  \E t \in 0..Len(q) :
           /\ Cardinality(Taken(q, room)) = t
           /\ Handed(q, room) \cup Discarded(q, room) = {q[i] : i \in 1..t}
           /\ \A x \in Discarded(q, room) : Expired(x)
           /\ \/ Handed(q, room) = {} /\ t = Len(q)
              \/ /\ t > 0 /\ ~Expired(q[t])
                 /\ Handed(q, room) = {q[t]}
<1>1. CASE q = <<>>
  <2>1. Taken(q, room) = {}
    BY <1>1 DEF Taken
  <2>2. Cardinality(Taken(q, room)) = 0
    BY <2>1, FS_EmptySet
  <2>3. Handed(q, room) = {} /\ Discarded(q, room) = {}
    BY <2>1 DEF Handed, Discarded
  <2>4. 0 \in 0..Len(q) /\ Len(q) = 0 /\ {q[i] : i \in 1..0} = {}
    BY <1>1
  <2> QED
    BY <2>2, <2>3, <2>4
<1>2. CASE q # <<>>
  <2> DEFINE N == {j \in 1..Len(q) : ~Expired(q[j])}
             Before(i) == {j \in 1..(i-1) : ~Expired(q[j])}
  <2>1. room = 1 /\ Len(q) \in Nat /\ DOMAIN q = 1..Len(q)
    BY <1>2
  <2>2. Taken(q, room) = {i \in 1..Len(q) : Before(i) = {}}
    <3>1. ASSUME NEW i \in 1..Len(q)
          PROVE  Cardinality(Before(i)) < 1 <=> Before(i) = {}
      <4>1. IsFiniteSet(Before(i))
        <5>1. IsFiniteSet(1..(i-1)) /\ Before(i) \subseteq 1..(i-1)
          BY FS_Interval
        <5> HIDE DEF Before
        <5> QED
          BY <5>1, FS_Subset
      <4> HIDE DEF Before
      <4>2. Cardinality(Before(i)) \in Nat
        BY <4>1, FS_CardinalityType
      <4> QED
        BY <4>1, <4>2, FS_EmptySet
    <3> QED
      BY <2>1, <3>1 DEF Taken
  <2>3. CASE N = {}
    <3>1. Taken(q, room) = 1..Len(q)
      <4>1. \A i \in 1..Len(q) : 1..(i-1) \subseteq 1..Len(q)
        BY <2>1
      <4>2. \A i \in 1..Len(q) : Before(i) = {}
        BY <4>1, <2>3
      <4> HIDE DEF Before
      <4> QED
        BY <4>2, <2>2
    <3>2. Cardinality(1..Len(q)) = Len(q)
      BY <2>1, FS_Interval
    <3>3. Handed(q, room) = {}
      BY <3>1, <2>3 DEF Handed
    <3>4. Discarded(q, room) = {q[i] : i \in 1..Len(q)}
      BY <3>1, <2>3 DEF Discarded
    <3>5. \A x \in Discarded(q, room) : Expired(x)
      BY DEF Discarded
    <3>6. Len(q) \in 0..Len(q)
      BY <2>1
    <3>7. Handed(q, room) \cup Discarded(q, room) = {q[i] : i \in 1..Len(q)}
      BY <3>3, <3>4
    <3>8. Cardinality(Taken(q, room)) = Len(q)
      BY <3>1, <3>2
    <3> QED
      BY <3>3, <3>5, <3>6, <3>7, <3>8
  <2>4. CASE N # {}
    <3> DEFINE t == Min(N)
    <3>1. t \in N /\ \A y \in N : t <= y
      <4>1. N \in SUBSET (1..Len(q))
        OBVIOUS
      <4> HIDE DEF N
      <4> QED
        BY <2>4, <4>1, <2>1, LeastExists
    <3> HIDE DEF t
    <3>2. t \in 1..Len(q) /\ ~Expired(q[t]) /\ \A j \in 1..(t-1) : Expired(q[j])
      BY <3>1, <2>1
    <3>3. Taken(q, room) = 1..t
      BY <2>2, <3>2, <2>1
    <3>4. Cardinality(1..t) = t
      BY <3>2, <2>1, FS_Interval
    <3>5. Handed(q, room) = {q[t]}
      BY <3>2, <3>3 DEF Handed
    <3>6. Handed(q, room) \cup Discarded(q, room) = {q[i] : i \in 1..t}
      BY <3>3 DEF Handed, Discarded
    <3>7. \A x \in Discarded(q, room) : Expired(x)
      BY DEF Discarded
    <3>8. t \in 0..Len(q) /\ t > 0
      BY <3>2
    <3>9. Cardinality(Taken(q, room)) = t
      BY <3>3, <3>4
    <3> QED
      BY <3>2, <3>5, <3>6, <3>7, <3>8, <3>9
  <2> QED
    BY <2>3, <2>4
<1> QED
  BY <1>1, <1>2
-----------------------------------------------------------------------------
LEMMA Updated ==
  ASSUME NEW D, NEW R, NEW f \in [D -> R], NEW d \in D, NEW v \in R
  PROVE  /\ [f EXCEPT ![d] = v] \in [D -> R]
         /\ [f EXCEPT ![d] = v][d] = v
         /\ \A e \in D \ {d} : [f EXCEPT ![d] = v][e] = f[e]
OBVIOUS

LEMMA QueueEmptyIffNobody ==
  ASSUME NEW S, NEW q \in Seq(S)
  PROVE  q = <<>> <=> ToSet(q) = {}
<1>1. Len(q) \in Nat /\ DOMAIN q = 1..Len(q)
  OBVIOUS
<1>2. q # <<>> => q[1] \in ToSet(q)
  BY <1>1 DEF ToSet
<1>3. q = <<>> => ToSet(q) = {}
  BY DEF ToSet
<1> QED
  BY <1>2, <1>3

(* What release does, with the waiters it hands a slot and those it drops. *)
HandsOver(r, H, D) ==
  LET k == key[r]
  IN /\ H \cup D \subseteq ToSet(waiters[k])
     /\ \A x \in H : ~Expired(x)
     /\ \A x \in D : Expired(x)
     /\ \A i, j \in DOMAIN waiters[k] :
          i < j /\ waiters[k][j] \in H => waiters[k][i] \in D
     /\ holders' \in [Keys -> Int]
     /\ \A x \in Keys \ {k} : holders'[x] = holders[x] /\ waiters'[x] = waiters[x]
     /\ waiters' \in [Keys -> Seq(Requests)]
     /\ IsInjective(waiters'[k])
     /\ ToSet(waiters'[k]) = ToSet(waiters[k]) \ (H \cup D)
     /\ \/ /\ H = {} /\ waiters'[k] = <<>>
           /\ holders'[k] = holders[k] - 1
        \/ /\ holders'[k] = holders[k] /\ holders[k] = ClientCap
           /\ \E h : H = {h}
     /\ slot' \in [Requests -> SlotStates]
     /\ slot'[r] = "none"
     /\ \A x \in H \ {r} : slot'[x] = "holder"
     /\ \A x \in D \ {r} : slot'[x] = "discarded"
     /\ \A x \in Requests \ (H \cup D \cup {r}) : slot'[x] = slot[x]
     /\ closed' = closed \cup (H \cap enforced)
     /\ flagged' = flagged \cup D

LEMMA ReleaseHandsOver ==
  ASSUME Table, NEW r \in Requests, key[r] \in Keys, release(r)
  PROVE  \E H, D \in SUBSET Requests : HandsOver(r, H, D)
<1> DEFINE k == key[r]
           q == waiters[k]
           room == ClientCap - (holders[k] - 1)
           H == Handed(q, room)
           D == Discarded(q, room)
           T == Taken(q, room)
           served == SubSeq(q, Cardinality(T) + 1, Len(q))
           freed == holders[k] - 1 + Cardinality(H)
<1>1. /\ q \in Seq(Requests) /\ IsInjective(q) /\ k \in Keys
      /\ holders \in [Keys -> Int] /\ waiters \in [Keys -> Seq(Requests)]
      /\ slot \in [Requests -> SlotStates] /\ ClientCap \in Nat
  BY AdmissionAssumption DEF Table, TypeOK, QueueExact
<1>2. q # <<>> => holders[k] = ClientCap
  BY <1>1 DEF Table, NoIdleSlot
<1>3. room \in Int /\ (room = 1 \/ q = <<>>)
  BY <1>1, <1>2
<1>4. /\ holders' = [holders EXCEPT ![k] = freed]
      /\ waiters' = [waiters EXCEPT ![k] = served]
      /\ slot' = [x \in Requests |->
           IF x = r THEN "none"
           ELSE IF x \in H THEN "holder"
           ELSE IF x \in D THEN "discarded"
           ELSE slot[x]]
      /\ closed' = closed \cup (H \cap enforced)
      /\ flagged' = flagged \cup D
  BY Zenon DEF release
<1>5. \A x \in H : ~Expired(x)
  BY DEF Handed
<1> HIDE DEF H, D, T, room, k
<1>6. PICK t \in 0..Len(q) :
        /\ Cardinality(T) = t
        /\ H \cup D = {q[i] : i \in 1..t}
        /\ \A x \in D : Expired(x)
        /\ \/ H = {} /\ t = Len(q)
           \/ t > 0 /\ ~Expired(q[t]) /\ H = {q[t]}
  BY <1>1, <1>3, HandOver DEF H, D, T
<1> HIDE DEF q
<1>7. /\ served \in Seq(Requests) /\ Len(served) = Len(q) - t
      /\ IsInjective(served)
      /\ ToSet(served) = ToSet(q) \ (H \cup D)
  <2>1. served = SubSeq(q, t + 1, Len(q))
    BY <1>6
  <2>2. q \in Seq(Requests) /\ IsInjective(q)
    BY <1>1
  <2> HIDE DEF served, freed
  <2>3. /\ SubSeq(q, t + 1, Len(q)) \in Seq(Requests)
        /\ Len(SubSeq(q, t + 1, Len(q))) = Len(q) - t
        /\ IsInjective(SubSeq(q, t + 1, Len(q)))
        /\ ToSet(SubSeq(q, t + 1, Len(q))) = ToSet(q) \ {q[i] : i \in 1..t}
    BY <2>2, Served
  <2> QED
    BY <2>1, <2>3, <1>6
<1> HIDE DEF served, freed
<1>8. DOMAIN q = 1..Len(q) /\ Len(q) \in Nat /\ H \cup D \subseteq ToSet(q)
  <2>1. DOMAIN q = 1..Len(q) /\ Len(q) \in Nat
    BY <1>1
  <2>2. 1..t \subseteq 1..Len(q)
    BY <2>1
  <2> QED
    BY <1>6, <2>1, <2>2 DEF ToSet
<1>9. ToSet(q) \subseteq Requests
  BY <1>1 DEF ToSet
<1>10. ASSUME NEW i \in DOMAIN q, NEW j \in DOMAIN q, i < j, q[j] \in H
       PROVE  q[i] \in D
  <2>1. t > 0 /\ H = {q[t]}
    BY <1>6, <1>10
  <2>2. j = t
    BY <2>1, <1>1, <1>8, <1>10 DEF IsInjective
  <2>3. q[i] \in H \cup D /\ q[i] # q[t]
    BY <2>2, <1>1, <1>6, <1>8, <1>10 DEF IsInjective
  <2> QED
    BY <2>1, <2>3
<1>11. \/ H = {} /\ served = <<>> /\ freed = holders[k] - 1
       \/ /\ freed = holders[k] /\ holders[k] = ClientCap
          /\ \E h : H = {h}
  <2>1. CASE H = {} /\ t = Len(q)
    <3>1. Cardinality(H) = 0
      BY <2>1, FS_EmptySet
    <3>2. served = <<>>
      BY <2>1, <1>7, <1>8
    <3> QED
      BY <2>1, <3>1, <3>2, <1>1 DEF freed
  <2>2. CASE t > 0 /\ H = {q[t]}
    <3>1. Cardinality(H) = 1
      BY <2>2, FS_Singleton
    <3>2. q # <<>>
      BY <2>2, <1>8
    <3>3. holders[k] = ClientCap
      BY <3>2, <1>2
    <3>4. holders[k] \in Int
      BY <1>1
    <3>5. freed = holders[k]
      BY <3>1, <3>4 DEF freed
    <3> QED
      BY <2>2, <3>3, <3>5
  <2> QED
    BY <2>1, <2>2, <1>6
<1>12. freed \in Int
  BY <1>11, <1>1
<1>13. /\ holders' \in [Keys -> Int] /\ holders'[k] = freed
       /\ \A x \in Keys \ {k} : holders'[x] = holders[x]
  BY <1>1, <1>4, <1>12, Updated
<1>14. /\ waiters' \in [Keys -> Seq(Requests)] /\ waiters'[k] = served
       /\ \A x \in Keys \ {k} : waiters'[x] = waiters[x]
  BY <1>1, <1>4, <1>7, Updated
<1>15. /\ slot' \in [Requests -> SlotStates]
       /\ slot'[r] = "none"
       /\ \A x \in H \ {r} : slot'[x] = "holder"
       /\ \A x \in D \ {r} : slot'[x] = "discarded"
       /\ \A x \in Requests \ (H \cup D \cup {r}) : slot'[x] = slot[x]
  <2>1. H \cup D \subseteq Requests
    BY <1>8, <1>9
  <2>2. \A x \in D : x \notin H
    BY <1>5, <1>6
  <2> QED
    BY <1>1, <1>4, <2>1, <2>2 DEF SlotStates
<1>16. HandsOver(r, H, D)
  BY <1>4, <1>5, <1>6, <1>7, <1>8, <1>10, <1>11, <1>13, <1>14, <1>15
     DEF HandsOver, k, q
<1>17. H \in SUBSET Requests /\ D \in SUBSET Requests
  BY <1>8, <1>9
<1> QED
  BY <1>16, <1>17
-----------------------------------------------------------------------------
LEMMA HoldersFinite ==
  ASSUME NEW k \in Keys
  PROVE  IsFiniteSet(HoldersOf(k)) /\ Cardinality(HoldersOf(k)) \in Nat
<1>1. HoldersOf(k) \subseteq Requests
  BY DEF HoldersOf
<1>2. IsFiniteSet(HoldersOf(k))
  BY <1>1, FS_Subset, AdmissionAssumption
<1> QED
  BY <1>2, FS_CardinalityType

LEMMA Dequeued ==
  ASSUME Table, NEW r \in Requests, key[r] \in Keys, dequeue(r)
  PROVE  /\ waiters' \in [Keys -> Seq(Requests)]
         /\ \A x \in Keys \ {key[r]} : waiters'[x] = waiters[x]
         /\ IsInjective(waiters'[key[r]])
         /\ ToSet(waiters'[key[r]]) = ToSet(waiters[key[r]]) \ {r}
         /\ waiters[key[r]] = <<>> => waiters'[key[r]] = <<>>
<1> DEFINE k == key[r]
           q == waiters[k]
           p == RemoveFirst(q, r)
<1>1. waiters' = [waiters EXCEPT ![k] = p]
  BY DEF dequeue
<1>2. /\ waiters \in [Keys -> Seq(Requests)] /\ q \in Seq(Requests)
      /\ IsInjective(q) /\ k \in Keys
  BY DEF Table, TypeOK, QueueExact
<1> HIDE DEF p, q, k
<1>3. p \in Seq(Requests) /\ IsInjective(p) /\ ToSet(p) = ToSet(q) \ {r}
  BY <1>2, RemovedFirst DEF p
<1>4. /\ waiters' \in [Keys -> Seq(Requests)] /\ waiters'[k] = p
      /\ \A x \in Keys \ {k} : waiters'[x] = waiters[x]
  BY <1>1, <1>2, <1>3, Updated
<1>5. q = <<>> => p = <<>>
  <2>1. q = <<>> => ToSet(q) = {}
    BY <1>2, QueueEmptyIffNobody
  <2>2. ToSet(p) = {} => p = <<>>
    BY <1>3, QueueEmptyIffNobody
  <2> QED
    BY <2>1, <2>2, <1>3
<1> QED
  BY <1>3, <1>4, <1>5 DEF k, q

LEMMA Joined ==
  ASSUME Table, NEW r \in Requests, key[r] \in Keys, slot[r] # "waiting",
         waiters' = [waiters EXCEPT ![key[r]] = Append(@, r)]
  PROVE  /\ waiters' \in [Keys -> Seq(Requests)]
         /\ \A x \in Keys \ {key[r]} : waiters'[x] = waiters[x]
         /\ IsInjective(waiters'[key[r]])
         /\ ToSet(waiters'[key[r]]) = ToSet(waiters[key[r]]) \cup {r}
<1> DEFINE k == key[r]
           q == waiters[k]
           p == Append(q, r)
<1>1. waiters' = [waiters EXCEPT ![k] = p]
  OBVIOUS
<1>2. /\ waiters \in [Keys -> Seq(Requests)] /\ q \in Seq(Requests)
      /\ IsInjective(q) /\ k \in Keys /\ r \notin ToSet(q)
  BY DEF Table, TypeOK, QueueExact
<1> HIDE DEF p, q, k
<1>3. p \in Seq(Requests) /\ IsInjective(p) /\ ToSet(p) = ToSet(q) \cup {r}
  BY <1>2, Appended DEF p
<1>4. /\ waiters' \in [Keys -> Seq(Requests)] /\ waiters'[k] = p
      /\ \A x \in Keys \ {k} : waiters'[x] = waiters[x]
  BY <1>1, <1>2, <1>3, Updated
<1> QED
  BY <1>3, <1>4 DEF k, q
-----------------------------------------------------------------------------
(* The types of what the slot table is not about.                          *)
OtherTypes ==
  /\ key \in [Requests -> Keys \cup {NoKey}]
  /\ {enforced, admitted, done, closed, late, flagged, failed}
        \subseteq SUBSET Requests
  /\ stmt \in [Requests -> StmtStates]
  /\ sent \in [Requests -> Nat]

(* Steps that leave the slots and queues alone.                            *)
LEMMA TableUntouched ==
  ASSUME Table, OtherTypes', UNCHANGED <<tableVars, slot>>,
         admitted \subseteq admitted',
         \A r \in Requests : slot[r] # "none" => key'[r] = key[r],
         \A r \in Requests : slot[r] \in {"holder", "waiting"}
                              => (r \in done' <=> r \in done),
         \A r \in enforced' : slot[r] # "discarded"
  PROVE  Table'
<1>1. TypeOK'
  BY DEF Table, TypeOK, OtherTypes, tableVars
<1>2. \A k \in Keys : HoldersOf(k)' = HoldersOf(k)
  BY DEF HoldersOf
<1>3. Slots'
  BY <1>2 DEF Table, TypeOK, Slots, tableVars, OtherTypes
<1>4. ASSUME NEW k \in Keys
      PROVE  {r \in Requests \ done : key[r] = k /\ slot[r] = "waiting"}'
              = {r \in Requests \ done : key[r] = k /\ slot[r] = "waiting"}
  OBVIOUS
<1>5. QueueExact'
  BY <1>4 DEF Table, QueueExact, tableVars
<1>6. NoIdleSlot'
  BY DEF Table, NoIdleSlot, tableVars
<1> QED
  BY <1>1, <1>3, <1>5, <1>6 DEF Table

(* finish of a holder.                                                     *)
LEMMA TableRelease ==
  ASSUME Table, Begins, OtherTypes', NEW r \in Requests, slot[r] = "holder",
         release(r), done' = done \cup {r}, UNCHANGED <<key, enforced, admitted>>
  PROVE  Table'
<1> DEFINE k == key[r]
<1>1. k \in Keys
  BY DEF Table, Slots, Begins, Begun, TypeOK
<1>2. PICK H \in SUBSET Requests, D \in SUBSET Requests : HandsOver(r, H, D)
  BY <1>1, ReleaseHandsOver
<1>3. ToSet(waiters[k]) = {x \in Requests \ done : key[x] = k /\ slot[x] = "waiting"}
  BY <1>1 DEF Table, QueueExact
<1>4. /\ H \cap D = {} /\ r \notin H \cup D
      /\ \A x \in H \cup D : x \notin done /\ key[x] = k /\ slot[x] = "waiting"
  BY <1>2, <1>3 DEF HandsOver
<1>5. /\ slot' \in [Requests -> SlotStates] /\ slot'[r] = "none"
      /\ \A x \in H : slot'[x] = "holder"
      /\ \A x \in D : slot'[x] = "discarded"
      /\ \A x \in Requests \ (H \cup D \cup {r}) : slot'[x] = slot[x]
  BY <1>2, <1>4 DEF HandsOver
<1>6. \A x \in Keys \ {k} : HoldersOf(x)' = HoldersOf(x)
  BY <1>4, <1>5 DEF HoldersOf
<1>7. ASSUME NEW x \in Keys, x = k
      PROVE  HoldersOf(x)' = (HoldersOf(k) \ {r}) \cup H
  BY <1>4, <1>5, <1>7 DEF HoldersOf
<1>8. r \in HoldersOf(k) /\ H \cap HoldersOf(k) = {}
  BY <1>4 DEF HoldersOf
<1>9. /\ IsFiniteSet(HoldersOf(k) \ {r})
      /\ Cardinality(HoldersOf(k) \ {r}) = holders[k] - 1
      /\ holders[k] \in 1..ClientCap
  <2>1. holders[k] = Cardinality(HoldersOf(k)) /\ holders[k] \in 0..ClientCap
    BY <1>1 DEF Table, Slots, TypeOK
  <2>2. IsFiniteSet(HoldersOf(k)) /\ HoldersOf(k) # {}
    BY <1>1, <1>8, HoldersFinite
  <2>3. /\ IsFiniteSet(HoldersOf(k) \ {r})
        /\ Cardinality(HoldersOf(k) \ {r}) = Cardinality(HoldersOf(k)) - 1
    BY <2>2, <1>8, FS_RemoveElement
  <2>4. holders[k] # 0
    BY <2>1, <2>2, FS_EmptySet
  <2> QED
    BY <2>1, <2>3, <2>4, AdmissionAssumption
<1>10. /\ holders'[k] = Cardinality((HoldersOf(k) \ {r}) \cup H)
       /\ holders'[k] \in 0..ClientCap
  <2>1. CASE H = {} /\ holders'[k] = holders[k] - 1
    <3>1. (HoldersOf(k) \ {r}) \cup H = HoldersOf(k) \ {r}
      BY <2>1
    <3> QED
      BY <3>1, <2>1, <1>9, AdmissionAssumption
  <2>2. CASE holders'[k] = holders[k] /\ \E h : H = {h}
    <3>1. PICK h : H = {h}
      BY <2>2
    <3>2. h \notin HoldersOf(k) \ {r}
      BY <3>1, <1>8
    <3>3. Cardinality((HoldersOf(k) \ {r}) \cup {h}) = holders[k] - 1 + 1
      BY <3>2, <1>9, FS_AddElement
    <3>4. (HoldersOf(k) \ {r}) \cup H = (HoldersOf(k) \ {r}) \cup {h}
      BY <3>1
    <3>5. Cardinality((HoldersOf(k) \ {r}) \cup H) = holders[k] - 1 + 1
      BY <3>3, <3>4
    <3>6. holders[k] \in 0..ClientCap /\ holders[k] - 1 + 1 = holders[k]
      BY <1>9
    <3> QED
      BY <3>5, <3>6, <2>2
  <2>3. \/ H = {} /\ holders'[k] = holders[k] - 1
        \/ holders'[k] = holders[k] /\ \E h : H = {h}
    BY <1>2 DEF HandsOver
  <2> QED
    BY <2>1, <2>2, <2>3
<1>11. TypeOK'
  <2>1. holders' \in [Keys -> 0..ClientCap]
    BY <1>2, <1>10 DEF HandsOver, Table, TypeOK
  <2> QED
    BY <2>1, <1>2 DEF HandsOver, TypeOK, OtherTypes
<1>12. Slots'
  <2>1. \A x \in Keys : holders'[x] = Cardinality(HoldersOf(x)')
    <3>1. \A x \in Keys : x = k => holders'[x] = Cardinality(HoldersOf(x)')
      BY <1>7, <1>10
    <3>2. ASSUME NEW x \in Keys \ {k}
          PROVE  holders'[x] = Cardinality(HoldersOf(x)')
      <4>1. holders'[x] = holders[x]
        BY <1>2 DEF HandsOver
      <4>2. holders[x] = Cardinality(HoldersOf(x))
        BY DEF Table, Slots
      <4>3. HoldersOf(x)' = HoldersOf(x)
        BY <1>6
      <4> QED
        BY <4>1, <4>2, <4>3
    <3> QED
      BY <3>1, <3>2
  <2>2. \A x \in Requests : slot'[x] # "none" => x \in admitted'
    BY <1>4, <1>5 DEF Table, Slots
  <2>3. \A x \in done' : slot'[x] \notin {"holder", "waiting"}
    <3>1. done' \subseteq Requests
      BY DEF OtherTypes
    <3> QED
      BY <3>1, <1>4, <1>5 DEF Table, Slots
  <2>4. \A x \in enforced' : slot'[x] # "discarded"
    <3>1. \A x \in D : x \notin enforced
      BY <1>2 DEF HandsOver, Expired
    <3>2. enforced \subseteq Requests /\ enforced' = enforced
      BY DEF Table, TypeOK
    <3>3. \A x \in enforced : slot[x] # "discarded"
      BY DEF Table, Slots
    <3>4. ASSUME NEW x \in enforced PROVE slot'[x] # "discarded"
      <4>1. x \in Requests /\ x \notin D
        BY <3>1, <3>2
      <4>2. x \in H \/ x = r \/ slot'[x] = slot[x]
        BY <4>1, <1>5
      <4> QED
        BY <4>1, <4>2, <3>3, <1>5
    <3> QED
      BY <3>2, <3>4
  <2> QED
    BY <2>1, <2>2, <2>3, <2>4 DEF Slots
<1>13. QueueExact'
  <2>1. ASSUME NEW x \in Keys
        PROVE  /\ IsInjective(waiters'[x])
               /\ ToSet(waiters'[x])
                    = {y \in Requests \ done' : key'[y] = x /\ slot'[y] = "waiting"}
    <3>1. CASE x # k
      <4>1. {y \in Requests \ done' : key'[y] = x /\ slot'[y] = "waiting"}
             = {y \in Requests \ done : key[y] = x /\ slot[y] = "waiting"}
        BY <3>1, <1>4, <1>5
      <4>2. waiters'[x] = waiters[x]
        BY <3>1, <1>2 DEF HandsOver
      <4>3. /\ IsInjective(waiters[x])
            /\ ToSet(waiters[x]) = {y \in Requests \ done : key[y] = x /\ slot[y] = "waiting"}
        BY DEF Table, QueueExact
      <4> QED
        BY <4>1, <4>2, <4>3
    <3>2. CASE x = k
      <4>1. {y \in Requests \ done' : key'[y] = x /\ slot'[y] = "waiting"}
             = ToSet(waiters[k]) \ (H \cup D)
        BY <3>2, <1>3, <1>4, <1>5
      <4>2. /\ IsInjective(waiters'[k])
            /\ ToSet(waiters'[k]) = ToSet(waiters[k]) \ (H \cup D)
        BY <1>2 DEF HandsOver
      <4> QED
        BY <3>2, <4>1, <4>2
    <3> QED
      BY <3>1, <3>2
  <2> QED
    BY <2>1 DEF QueueExact
<1>14. NoIdleSlot'
  BY <1>2 DEF HandsOver, Table, NoIdleSlot
<1> QED
  BY <1>11, <1>12, <1>13, <1>14 DEF Table

(* A request that leaves the queue of its own, at its end or giving up.    *)
LEMMA TableLeave ==
  ASSUME Table, OtherTypes', NEW r \in Requests, key[r] \in Keys,
         slot[r] # "holder", dequeue(r), slot' = [slot EXCEPT ![r] = "none"],
         done' \in {done, done \cup {r}},
         UNCHANGED <<holders, key, enforced, admitted>>
  PROVE  Table'
<1> DEFINE k == key[r]
<1>1. /\ slot \in [Requests -> SlotStates] /\ slot' \in [Requests -> SlotStates]
      /\ slot'[r] = "none" /\ \A x \in Requests \ {r} : slot'[x] = slot[x]
  BY DEF Table, TypeOK, SlotStates
<1>2. /\ waiters' \in [Keys -> Seq(Requests)]
      /\ \A x \in Keys \ {k} : waiters'[x] = waiters[x]
      /\ IsInjective(waiters'[k])
      /\ ToSet(waiters'[k]) = ToSet(waiters[k]) \ {r}
      /\ waiters[k] = <<>> => waiters'[k] = <<>>
  BY Dequeued
<1>3. TypeOK'
  BY <1>1, <1>2 DEF Table, TypeOK, OtherTypes
<1>4. Slots'
  <2>1. \A x \in Keys : HoldersOf(x)' = HoldersOf(x)
    BY <1>1 DEF HoldersOf
  <2>2. \A x \in Requests : slot'[x] # "none" => x \in admitted'
    BY <1>1 DEF Table, Slots
  <2>3. \A x \in done' : slot'[x] \notin {"holder", "waiting"}
    BY <1>1 DEF Table, Slots, OtherTypes
  <2>4. \A x \in enforced' : slot'[x] # "discarded"
    BY <1>1 DEF Table, Slots, OtherTypes
  <2> QED
    BY <2>1, <2>2, <2>3, <2>4 DEF Table, Slots
<1>5. QueueExact'
  <2>1. ASSUME NEW x \in Keys
        PROVE  /\ IsInjective(waiters'[x])
               /\ ToSet(waiters'[x])
                    = {y \in Requests \ done' : key'[y] = x /\ slot'[y] = "waiting"}
    <3>1. {y \in Requests \ done' : key'[y] = x /\ slot'[y] = "waiting"}
           = {y \in Requests \ done : key[y] = x /\ slot[y] = "waiting"} \ {r}
      BY <1>1
    <3>2. CASE x # k
      BY <3>1, <3>2, <1>2 DEF Table, QueueExact
    <3>3. CASE x = k
      BY <3>1, <3>3, <1>2 DEF Table, QueueExact
    <3> QED
      BY <3>2, <3>3
  <2> QED
    BY <2>1 DEF QueueExact
<1>6. NoIdleSlot'
  BY <1>2 DEF Table, NoIdleSlot
<1> QED
  BY <1>3, <1>4, <1>5, <1>6 DEF Table

(* The first statement of a request finds a slot.                          *)
LEMMA TableTake ==
  ASSUME Table, OtherTypes', NEW r \in Requests \ (admitted \cup done),
         key[r] \in Keys, TakeSlot(r), admitted' = admitted \cup {r},
         UNCHANGED requestVars
  PROVE  Table'
<1> DEFINE k == key[r]
<1>1. /\ slot \in [Requests -> SlotStates] /\ slot[r] = "none"
      /\ slot' \in [Requests -> SlotStates]
      /\ slot'[r] = "holder" /\ \A x \in Requests \ {r} : slot'[x] = slot[x]
  BY DEF Table, Slots, TypeOK, SlotStates, TakeSlot
<1>2. holders[k] < ClientCap /\ holders[k] \in 0..ClientCap
  BY DEF TakeSlot, Table, TypeOK
<1>3. /\ holders' \in [Keys -> 0..ClientCap] /\ holders'[k] = holders[k] + 1
      /\ \A x \in Keys \ {k} : holders'[x] = holders[x]
  BY <1>2, AdmissionAssumption DEF TakeSlot, Table, TypeOK
<1>4. TypeOK'
  BY <1>1, <1>3 DEF Table, TypeOK, OtherTypes, TakeSlot
<1>5. Slots'
  <2>1. \A x \in Keys \ {k} : HoldersOf(x)' = HoldersOf(x)
    BY <1>1 DEF HoldersOf, requestVars
  <2>2. ASSUME NEW x \in Keys, x = k
        PROVE  Cardinality(HoldersOf(x)') = Cardinality(HoldersOf(x)) + 1
    <3>1. HoldersOf(x)' = HoldersOf(x) \cup {r} /\ r \notin HoldersOf(x)
      BY <2>2, <1>1 DEF HoldersOf, requestVars
    <3>2. Cardinality(HoldersOf(x) \cup {r}) = Cardinality(HoldersOf(x)) + 1
      BY <3>1, HoldersFinite, FS_AddElement
    <3> QED
      BY <3>1, <3>2
  <2>3. \A x \in Keys : holders[x] = Cardinality(HoldersOf(x))
    BY DEF Table, Slots
  <2>4. \A x \in Keys : holders'[x] = Cardinality(HoldersOf(x)')
    BY <1>3, <2>1, <2>2, <2>3
  <2>5. \A x \in Requests : slot'[x] # "none" => x \in admitted'
    BY <1>1 DEF Table, Slots
  <2>6. \A x \in done' : slot'[x] \notin {"holder", "waiting"}
    BY <1>1 DEF Table, Slots, TypeOK, requestVars
  <2>7. \A x \in enforced' : slot'[x] # "discarded"
    BY <1>1 DEF Table, Slots, TypeOK, requestVars
  <2> QED
    BY <2>4, <2>5, <2>6, <2>7 DEF Slots
<1>6. ASSUME NEW x \in Keys
      PROVE  /\ waiters'[x] = waiters[x]
             /\ {y \in Requests \ done' : key'[y] = x /\ slot'[y] = "waiting"}
                 = {y \in Requests \ done : key[y] = x /\ slot[y] = "waiting"}
  BY <1>1 DEF requestVars, TakeSlot
<1>7. QueueExact'
  BY <1>6 DEF Table, QueueExact
<1>8. NoIdleSlot'
  BY <1>2, <1>3, <1>6 DEF Table, NoIdleSlot
<1> QED
  BY <1>4, <1>5, <1>7, <1>8 DEF Table

(* The first statement of a request finds none left.                       *)
LEMMA TableJoin ==
  ASSUME Table, OtherTypes', NEW r \in Requests \ (admitted \cup done),
         key[r] \in Keys, JoinQueue(r), admitted' = admitted \cup {r},
         UNCHANGED requestVars
  PROVE  Table'
<1> DEFINE k == key[r]
<1>1. /\ slot \in [Requests -> SlotStates] /\ slot[r] = "none"
      /\ slot' \in [Requests -> SlotStates]
      /\ slot'[r] = "waiting" /\ \A x \in Requests \ {r} : slot'[x] = slot[x]
  BY DEF Table, Slots, TypeOK, SlotStates, JoinQueue
<1>2. /\ waiters' \in [Keys -> Seq(Requests)]
      /\ \A x \in Keys \ {k} : waiters'[x] = waiters[x]
      /\ IsInjective(waiters'[k])
      /\ ToSet(waiters'[k]) = ToSet(waiters[k]) \cup {r}
  BY <1>1, Joined DEF JoinQueue
<1>3. holders' = holders /\ holders[k] = ClientCap
  BY AdmissionAssumption DEF JoinQueue, Table, TypeOK
<1>4. TypeOK'
  BY <1>1, <1>2, <1>3 DEF Table, TypeOK, OtherTypes
<1>5. Slots'
  <2>1. \A x \in Keys : HoldersOf(x)' = HoldersOf(x)
    BY <1>1 DEF HoldersOf, requestVars
  <2>2. \A x \in Requests : slot'[x] # "none" => x \in admitted'
    BY <1>1 DEF Table, Slots
  <2>3. \A x \in done' : slot'[x] \notin {"holder", "waiting"}
    BY <1>1 DEF Table, Slots, TypeOK, requestVars
  <2>4. \A x \in enforced' : slot'[x] # "discarded"
    BY <1>1 DEF Table, Slots, TypeOK, requestVars
  <2> QED
    BY <1>3, <2>1, <2>2, <2>3, <2>4 DEF Table, Slots
<1>6. QueueExact'
  <2>1. ASSUME NEW x \in Keys
        PROVE  /\ IsInjective(waiters'[x])
               /\ ToSet(waiters'[x])
                    = {y \in Requests \ done' : key'[y] = x /\ slot'[y] = "waiting"}
    <3>1. CASE x # k
      <4>1. {y \in Requests \ done' : key'[y] = x /\ slot'[y] = "waiting"}
             = {y \in Requests \ done : key[y] = x /\ slot[y] = "waiting"}
        BY <3>1, <1>1 DEF requestVars
      <4> QED
        BY <3>1, <4>1, <1>2 DEF Table, QueueExact
    <3>2. CASE x = k
      <4>1. {y \in Requests \ done' : key'[y] = x /\ slot'[y] = "waiting"}
             = {y \in Requests \ done : key[y] = x /\ slot[y] = "waiting"} \cup {r}
        BY <3>2, <1>1 DEF requestVars
      <4> QED
        BY <3>2, <4>1, <1>2 DEF Table, QueueExact
    <3> QED
      BY <3>1, <3>2
  <2> QED
    BY <2>1 DEF QueueExact
<1>7. NoIdleSlot'
  BY <1>2, <1>3 DEF Table, NoIdleSlot
<1> QED
  BY <1>4, <1>5, <1>6, <1>7 DEF Table
-----------------------------------------------------------------------------
LEMMA ReleaseTypes ==
  ASSUME Table, NEW r \in Requests, key[r] \in Keys, release(r)
  PROVE  closed' \subseteq Requests /\ flagged' \subseteq Requests
<1>1. PICK H \in SUBSET Requests, D \in SUBSET Requests : HandsOver(r, H, D)
  BY ReleaseHandsOver
<1>2. closed' = closed \cup (H \cap enforced) /\ flagged' = flagged \cup D
  BY <1>1 DEF HandsOver
<1> QED
  BY <1>2 DEF Table, TypeOK

LEMMA OtherTypesNext ==
  ASSUME Table, NEW r \in Requests,
         \/ Begin(r) \/ finish(r)
         \/ Admit(r) \/ Late(r) \/ Wake(r) \/ Resume(r) \/ GiveUp(r)
         \/ StatementEnds(r)
  PROVE  OtherTypes'
<1>1. CASE Begin(r)
  BY <1>1 DEF Begin, stmtVars, Table, TypeOK, OtherTypes
<1>2. CASE finish(r)
  <2>1. key[r] \in Keys
    BY <1>2 DEF finish, Begun, Table, TypeOK
  <2>2. closed' \subseteq Requests /\ flagged' \subseteq Requests
    <3>1. CASE release(r)
      BY <3>1, <2>1, ReleaseTypes
    <3>2. CASE LeaveQueue(r)
      BY <3>2 DEF LeaveQueue, Table, TypeOK
    <3>3. CASE UNCHANGED <<tableVars, slot, closed, flagged>>
      BY <3>3 DEF Table, TypeOK
    <3> QED
      BY <1>2, <3>1, <3>2, <3>3 DEF finish
  <2> QED
    BY <1>2, <2>2 DEF finish, stmtVars, Table, TypeOK, OtherTypes
<1>3. CASE Admit(r)
  <2>1. /\ \E s \in {"waiting", "running"} : stmt' = [stmt EXCEPT ![r] = s]
        /\ sent' = [sent EXCEPT ![r] = @ + 1]
        /\ admitted' \in {admitted, admitted \cup {r}}
        /\ UNCHANGED <<requestVars, closed, late, flagged, failed>>
    BY <1>3 DEF Admit
  <2> QED
    BY <2>1 DEF requestVars, Table, TypeOK, OtherTypes, StmtStates
<1>4. CASE Late(r)
  BY <1>4 DEF Late, requestVars, stmtVars, Table, TypeOK, OtherTypes
<1>5. CASE Wake(r)
  <2>1. \E s \in Awake : stmt' = [stmt EXCEPT ![r] = s]
    BY <1>5 DEF Wake, Awake
  <2> QED
    BY <1>5, <2>1 DEF Wake, requestVars, Table, TypeOK, OtherTypes, StmtStates
<1>6. CASE Resume(r)
  BY <1>6 DEF Resume, requestVars, Table, TypeOK, OtherTypes, StmtStates
<1>7. CASE GiveUp(r)
  BY <1>7 DEF GiveUp, requestVars, Table, TypeOK, OtherTypes, StmtStates
<1>8. CASE StatementEnds(r)
  BY <1>8 DEF StatementEnds, requestVars, Table, TypeOK, OtherTypes, StmtStates
<1> QED
  BY <1>1, <1>2, <1>3, <1>4, <1>5, <1>6, <1>7, <1>8

LEMMA TableNext == Table /\ Begins /\ [Next]_vars => Table'
<1> SUFFICES ASSUME Table, Begins, [Next]_vars
             PROVE  Table'
  OBVIOUS
<1>1. ASSUME NEW r \in Requests, Begin(r)
      PROVE  Table'
  <2>1. slot[r] = "none"
    BY <1>1 DEF Begin, Begins, Table, Slots
  <2> QED
    BY <1>1, <2>1, OtherTypesNext, TableUntouched
       DEF Begin, tableVars, Table, TypeOK, Slots
<1>2. ASSUME NEW r \in Requests, finish(r)
      PROVE  Table'
  <2>1. key[r] \in Keys /\ OtherTypes'
    BY <1>2, OtherTypesNext DEF finish, Begun, Table, TypeOK
  <2>2. done' = done \cup {r} /\ UNCHANGED <<key, enforced, admitted>>
    BY <1>2 DEF finish
  <2>3. CASE slot[r] = "holder" /\ release(r)
    BY <2>1, <2>2, <2>3, TableRelease
  <2>4. CASE LeaveQueue(r)
    BY <2>1, <2>2, <2>4, TableLeave DEF LeaveQueue
  <2>5. CASE slot[r] \in {"none", "discarded"}
               /\ UNCHANGED <<tableVars, slot, closed, flagged>>
    BY <2>1, <2>2, <2>5, TableUntouched DEF Table, Slots
  <2> QED
    BY <1>2, <2>3, <2>4, <2>5 DEF finish
<1>3. ASSUME NEW r \in Requests, Admit(r)
      PROVE  Table'
  <2>1. key[r] \in Keys /\ OtherTypes' /\ UNCHANGED requestVars
    BY <1>3, OtherTypesNext DEF Admit, Begun, Table, TypeOK
  <2>2. CASE r \in done \cup admitted
    BY <1>3, <2>1, <2>2, TableUntouched DEF Admit, requestVars, Table, Slots
  <2>3. CASE r \notin done \cup admitted
    <3>1. /\ r \in Requests \ (admitted \cup done)
          /\ admitted' = admitted \cup {r}
          /\ TakeSlot(r) \/ JoinQueue(r)
      BY <1>3, <2>3 DEF Admit
    <3> QED
      BY <2>1, <3>1, TableTake, TableJoin
  <2> QED
    BY <2>2, <2>3
<1>4. ASSUME NEW r \in Requests, GiveUp(r)
      PROVE  Table'
  <2>1. key[r] \in Keys
    BY <1>4 DEF GiveUp, Begins, Begun, Table, TypeOK, Awake
  <2> QED
    BY <1>4, <2>1, OtherTypesNext, TableLeave
       DEF GiveUp, Granted, requestVars
<1>5. ASSUME NEW r \in Requests,
             Late(r) \/ Wake(r) \/ Resume(r) \/ StatementEnds(r)
      PROVE  Table'
  <2>1. UNCHANGED <<tableVars, slot, requestVars, admitted>>
    BY <1>5 DEF Late, Wake, Resume, StatementEnds
  <2>2. OtherTypes'
    BY <1>5, OtherTypesNext
  <2> QED
    BY <2>1, <2>2, TableUntouched DEF requestVars, Table, Slots
<1>6. ASSUME UNCHANGED vars
      PROVE  Table'
  <2>1. /\ UNCHANGED <<tableVars, slot, requestVars, admitted>>
        /\ UNCHANGED <<closed, late, flagged, stmt, sent, failed>>
    BY <1>6 DEF vars, stmtVars
  <2>2. OtherTypes'
    BY <2>1 DEF OtherTypes, requestVars, Table, TypeOK
  <2> QED
    BY <2>1, <2>2, TableUntouched DEF requestVars, Table, Slots
<1> QED
  BY <1>1, <1>2, <1>3, <1>4, <1>5, <1>6 DEF Next
-----------------------------------------------------------------------------
LEMMA BeginsNext == Table /\ Begins /\ [Next]_vars => Begins'
<1> SUFFICES ASSUME Table, Begins, [Next]_vars
             PROVE  Begins'
  OBVIOUS
<1>1. ASSUME NEW r \in Requests, Begin(r)
      PROVE  Begins'
  <2>1. /\ Begun(r)' /\ \A x \in Requests \ {r} : key'[x] = key[x]
        /\ enforced \subseteq enforced' /\ enforced' \subseteq enforced \cup {r}
    BY <1>1, AdmissionAssumption DEF Begin, Begun, Table, TypeOK
  <2>2. UNCHANGED <<done, admitted, closed, late, flagged, stmt>>
    BY <1>1 DEF Begin, stmtVars
  <2> QED
    BY <2>1, <2>2 DEF Begins, Begun, Table, TypeOK
<1>2. ASSUME NEW r \in Requests, finish(r)
      PROVE  Begins'
  <2>1. key[r] \in Keys /\ Begun(r)
    BY <1>2 DEF finish, Begun, Table, TypeOK
  <2>2. /\ done' = done \cup {r}
        /\ UNCHANGED <<key, enforced, admitted, late, stmt>>
    BY <1>2 DEF finish, stmtVars
  <2>3. ASSUME NEW x \in closed' \cup flagged'
        PROVE  x \in admitted
    <3>1. CASE release(r)
      <4>1. PICK H \in SUBSET Requests, D \in SUBSET Requests : HandsOver(r, H, D)
        BY <3>1, <2>1, ReleaseHandsOver
      <4>2. /\ H \cup D \subseteq ToSet(waiters[key[r]])
            /\ closed' = closed \cup (H \cap enforced) /\ flagged' = flagged \cup D
        BY <4>1 DEF HandsOver
      <4>3. \A y \in ToSet(waiters[key[r]]) : y \in Requests /\ slot[y] = "waiting"
        BY <2>1 DEF Table, QueueExact
      <4> QED
        BY <2>3, <4>2, <4>3 DEF Begins, Table, Slots
    <3>2. CASE LeaveQueue(r)
      BY <2>3, <3>2 DEF LeaveQueue, Begins, Table, Slots
    <3>3. CASE UNCHANGED <<tableVars, slot, closed, flagged>>
      BY <2>3, <3>3 DEF Begins
    <3> QED
      BY <1>2, <3>1, <3>2, <3>3 DEF finish
  <2> QED
    BY <2>1, <2>2, <2>3 DEF Begins, Begun
<1>3. ASSUME NEW r \in Requests, Admit(r)
      PROVE  Begins'
  <2>1. /\ Begun(r) /\ r \in admitted' \cup done
        /\ admitted \subseteq admitted'
        /\ admitted' \subseteq admitted \cup {r}
        /\ UNCHANGED <<key, enforced, done, closed, late, flagged>>
    BY <1>3 DEF Admit, requestVars
  <2>2. stmt' = [stmt EXCEPT ![r] =
          IF r \in enforced /\ slot'[r] = "waiting" /\ r \notin admitted
          THEN "waiting" ELSE "running"]
    BY <1>3 DEF Admit
  <2>3. stmt'[r] \in {"waiting"} \cup Awake => r \in enforced \cap admitted'
    <3>1. CASE r \in done \cup admitted
      <4>1. r \in done \/ r \in admitted
        BY <3>1
      <4>2. UNCHANGED slot
        BY <1>3, <3>1 DEF Admit
      <4>3. stmt'[r] = "running"
        BY <2>2, <4>1, <4>2 DEF Table, TypeOK, Slots
      <4> QED
        BY <4>3 DEF Awake
    <3>2. CASE r \notin done \cup admitted
      <4>1. r \in admitted'
        BY <1>3, <3>2 DEF Admit
      <4>2. stmt'[r] \in {"waiting", "running"}
        BY <2>2 DEF Table, TypeOK
      <4>3. stmt'[r] = "waiting" => r \in enforced
        BY <2>2 DEF Table, TypeOK
      <4> QED
        BY <4>1, <4>2, <4>3 DEF Awake
    <3> QED
      BY <3>1, <3>2
  <2>4. \A x \in Requests \ {r} : stmt'[x] = stmt[x]
    BY <2>2 DEF Table, TypeOK
  <2> QED
    BY <2>1, <2>3, <2>4 DEF Begins, Begun
<1>4. ASSUME NEW r \in Requests, Late(r)
      PROVE  Begins'
  BY <1>4 DEF Late, requestVars, stmtVars, Begins, Begun, Table, Slots
<1>5. ASSUME NEW r \in Requests, Wake(r) \/ Resume(r) \/ StatementEnds(r)
      PROVE  Begins'
  <2>1. /\ stmt[r] # "none"
        /\ stmt'[r] \in Awake => stmt[r] = "waiting"
        /\ stmt'[r] # "waiting"
        /\ \A x \in Requests \ {r} : stmt'[x] = stmt[x]
        /\ UNCHANGED <<key, enforced, done, admitted, closed, late, flagged>>
    BY <1>5 DEF Wake, Resume, StatementEnds, requestVars, Awake, Table, TypeOK
  <2> QED
    BY <2>1 DEF Begins, Begun
<1>6. ASSUME NEW r \in Requests, GiveUp(r)
      PROVE  Begins'
  <2>1. /\ stmt[r] \in Awake /\ flagged' \subseteq flagged \cup {r}
        /\ stmt'[r] = "none" /\ \A x \in Requests \ {r} : stmt'[x] = stmt[x]
        /\ UNCHANGED <<key, enforced, done, admitted, closed, late>>
    BY <1>6 DEF GiveUp, requestVars, Table, TypeOK
  <2> QED
    BY <2>1 DEF Begins, Begun, Awake
<1>7. ASSUME UNCHANGED vars
      PROVE  Begins'
  BY <1>7 DEF vars, requestVars, stmtVars, Begins, Begun
<1> QED
  BY <1>1, <1>2, <1>3, <1>4, <1>5, <1>6, <1>7 DEF Next
-----------------------------------------------------------------------------
(* What the end of request r does to the requests: H get a slot, D are     *)
(* dropped from the queue.                                                 *)
Ends(r, H, D) ==
  /\ r \notin H \cup D
  /\ \A x \in H \cup D : slot[x] = "waiting"
  /\ \A x \in H : slot'[x] = "holder" /\ ~Expired(x)
  /\ \A x \in D : slot'[x] = "discarded" /\ Expired(x)
  /\ \A x \in Requests \ (H \cup D \cup {r}) : slot'[x] = slot[x]
  /\ slot'[r] # "waiting"
  /\ closed \cup (H \cap enforced) \subseteq closed'
  /\ r \in enforced /\ slot[r] = "waiting" => r \in closed'
  /\ \A x \in Requests \ {r} : x \in flagged' <=> x \in flagged \cup D
  /\ r \in flagged' <=> r \in flagged \/ (slot[r] = "waiting" /\ Expired(r))

LEMMA FinishEnds ==
  ASSUME Table, NEW r \in Requests, finish(r)
  PROVE  \E H, D \in SUBSET Requests : Ends(r, H, D)
<1>1. key[r] \in Keys
  BY DEF finish, Begun, Table, TypeOK
<1>2. CASE slot[r] = "holder" /\ release(r)
  <2>1. PICK H \in SUBSET Requests, D \in SUBSET Requests : HandsOver(r, H, D)
    BY <1>1, <1>2, ReleaseHandsOver
  <2>2. \A x \in ToSet(waiters[key[r]]) : slot[x] = "waiting"
    BY <1>1 DEF Table, QueueExact
  <2>3. r \notin H \cup D /\ \A x \in H \cup D : slot[x] = "waiting"
    BY <1>2, <2>1, <2>2 DEF HandsOver
  <2>4. Ends(r, H, D)
    BY <1>2, <2>1, <2>3 DEF HandsOver, Ends
  <2> QED
    BY <2>4
<1>3. CASE LeaveQueue(r)
  <2>1. Ends(r, {}, {})
    BY <1>3 DEF LeaveQueue, Ends, Table, TypeOK
  <2> QED
    BY <2>1
<1>4. CASE slot[r] \in {"none", "discarded"}
             /\ UNCHANGED <<tableVars, slot, closed, flagged>>
  <2>1. Ends(r, {}, {})
    BY <1>4 DEF Ends
  <2> QED
    BY <2>1
<1> QED
  BY <1>2, <1>3, <1>4 DEF finish

LEMMA CoveredNext == IInv /\ [Next]_vars => Covered'
<1> SUFFICES ASSUME IInv, [Next]_vars
             PROVE  Covered'
  OBVIOUS
<1> USE DEF IInv, Table, Marks, Covered
<1>1. ASSUME NEW r \in Requests, Begin(r)
      PROVE  Covered'
  <2>1. r \notin admitted /\ enforced' \subseteq enforced \cup {r}
    BY <1>1 DEF Begin, Begins
  <2> QED
    BY <1>1, <2>1 DEF Begin, stmtVars
<1>2. ASSUME NEW r \in Requests, finish(r)
      PROVE  Covered'
  <2>1. PICK H \in SUBSET Requests, D \in SUBSET Requests : Ends(r, H, D)
    BY <1>2, FinishEnds
  <2>2. /\ done' = done \cup {r}
        /\ UNCHANGED <<enforced, admitted, stmt, failed>>
    BY <1>2 DEF finish, stmtVars
  <2>3. enforced \subseteq Requests
    BY DEF TypeOK
  <2>4. D \cap enforced = {}
    BY <2>1 DEF Ends, Expired
  <2> QED
    BY <2>1, <2>2, <2>3, <2>4 DEF Ends
<1>3. ASSUME NEW r \in Requests, Admit(r)
      PROVE  Covered'
  <2>1. /\ UNCHANGED <<enforced, done, failed>>
        /\ admitted' \subseteq admitted \cup {r}
        /\ stmt[r] = "none"
        /\ stmt' = [stmt EXCEPT ![r] =
             IF r \in enforced /\ slot'[r] = "waiting" /\ r \notin admitted
             THEN "waiting" ELSE "running"]
    BY <1>3 DEF Admit, requestVars
  <2>2. \A x \in Requests \ {r} : stmt'[x] = stmt[x]
    BY <2>1 DEF TypeOK
  <2>3. \A x \in Requests \ {r} : slot'[x] = slot[x]
    BY <1>3 DEF Admit, TakeSlot, JoinQueue, TypeOK
  <2>4. CASE r \in done \cup admitted
    <3>1. slot' = slot /\ admitted' = admitted
      BY <1>3, <2>4 DEF Admit
    <3> QED
      BY <2>1, <2>2, <3>1 DEF Awake, TypeOK
  <2>5. CASE r \notin done \cup admitted
    <3>1. slot'[r] \in {"holder", "waiting"}
      BY <1>3, <2>5 DEF Admit, TakeSlot, JoinQueue, TypeOK
    <3>2. r \in enforced /\ slot'[r] = "waiting" => stmt'[r] = "waiting"
      BY <2>1, <2>5 DEF TypeOK
    <3> QED
      BY <2>1, <2>2, <2>3, <3>1, <3>2 DEF TypeOK
  <2> QED
    BY <2>4, <2>5
<1>4. ASSUME NEW r \in Requests, Late(r)
      PROVE  Covered'
  BY <1>4 DEF Late, requestVars, stmtVars
<1>5. ASSUME NEW r \in Requests, Wake(r) \/ Resume(r) \/ StatementEnds(r)
      PROVE  Covered'
  <2>1. /\ \A x \in Requests \ {r} : stmt'[x] = stmt[x]
        /\ UNCHANGED <<enforced, done, admitted, slot, failed>>
        /\ \/ stmt'[r] \in Awake
           \/ r \in done \/ slot[r] = "holder"
           \/ stmt[r] = "running"
    BY <1>5 DEF Wake, Resume, StatementEnds, Granted, requestVars, Awake, TypeOK
  <2>2. enforced \subseteq Requests
    BY DEF TypeOK
  <2> QED
    BY <2>1, <2>2 DEF Awake
<1>6. ASSUME NEW r \in Requests, GiveUp(r)
      PROVE  Covered'
  <2>1. /\ \A x \in Requests \ {r} : stmt'[x] = stmt[x] /\ slot'[x] = slot[x]
        /\ failed' = failed \cup {r}
        /\ UNCHANGED <<enforced, done, admitted>>
    BY <1>6 DEF GiveUp, requestVars, TypeOK
  <2> QED
    BY <2>1 DEF TypeOK
<1>7. ASSUME UNCHANGED vars
      PROVE  Covered'
  BY <1>7 DEF vars, requestVars, stmtVars
<1> QED
  BY <1>1, <1>2, <1>3, <1>4, <1>5, <1>6, <1>7 DEF Next

LEMMA NoLostWakeupNext == IInv /\ [Next]_vars => NoLostWakeup'
<1> SUFFICES ASSUME IInv, [Next]_vars
             PROVE  NoLostWakeup'
  OBVIOUS
<1> USE DEF IInv, Table, Marks, NoLostWakeup
<1>1. ASSUME NEW r \in Requests, finish(r)
      PROVE  NoLostWakeup'
  <2>1. PICK H \in SUBSET Requests, D \in SUBSET Requests : Ends(r, H, D)
    BY <1>1, FinishEnds
  <2>2. stmt' = stmt
    BY <1>1 DEF finish, stmtVars
  <2>3. ASSUME NEW x \in Requests, stmt[x] = "waiting"
        PROVE  slot'[x] = "waiting" \/ x \in closed'
    <3>1. x \in enforced /\ (slot[x] = "waiting" \/ x \in closed)
      BY <2>3 DEF Begins
    <3>2. D \cap enforced = {}
      BY <2>1 DEF Ends, Expired
    <3> QED
      BY <3>1, <3>2, <2>1 DEF Ends
  <2> QED
    BY <2>2, <2>3
<1>2. ASSUME NEW r \in Requests, Admit(r)
      PROVE  NoLostWakeup'
  <2>1. /\ closed' = closed
        /\ stmt' = [stmt EXCEPT ![r] =
             IF r \in enforced /\ slot'[r] = "waiting" /\ r \notin admitted
             THEN "waiting" ELSE "running"]
    BY <1>2 DEF Admit
  <2>2. \A x \in Requests \ {r} : slot'[x] = slot[x]
    BY <1>2 DEF Admit, TakeSlot, JoinQueue, TypeOK
  <2> QED
    BY <2>1, <2>2 DEF TypeOK
<1>3. ASSUME NEW r \in Requests, Wake(r) \/ Resume(r) \/ StatementEnds(r)
      PROVE  NoLostWakeup'
  BY <1>3 DEF Wake, Resume, StatementEnds, TypeOK
<1>4. ASSUME NEW r \in Requests, GiveUp(r)
      PROVE  NoLostWakeup'
  BY <1>4 DEF GiveUp, TypeOK
<1>5. ASSUME UNCHANGED <<stmt, slot, closed>>
      PROVE  NoLostWakeup'
  BY <1>5
<1> QED
  BY <1>1, <1>2, <1>3, <1>4, <1>5 DEF Next, Begin, Late, vars, stmtVars

LEMMA CountedNext == IInv /\ [Next]_vars => Counted'
<1> SUFFICES ASSUME IInv, [Next]_vars
             PROVE  Counted'
  OBVIOUS
<1> USE DEF IInv, Table, Marks, Counted
<1>1. ASSUME NEW r \in Requests, Begin(r)
      PROVE  Counted'
  BY <1>1 DEF Begin
<1>2. ASSUME NEW r \in Requests, finish(r)
      PROVE  Counted'
  <2>1. PICK H \in SUBSET Requests, D \in SUBSET Requests : Ends(r, H, D)
    BY <1>2, FinishEnds
  <2>2. UNCHANGED <<enforced, late>>
    BY <1>2 DEF finish
  <2>3. ASSUME NEW x \in Requests \ enforced
        PROVE  IF slot'[x] = "waiting" THEN x \notin flagged'
               ELSE x \in flagged' <=> x \in late
    <3>1. CASE x = r
      BY <3>1, <2>1 DEF Ends, Expired
    <3>2. CASE x \in H \cup D
      BY <3>2, <2>1 DEF Ends, Expired
    <3>3. CASE x \notin H \cup D \cup {r}
      BY <3>3, <2>1 DEF Ends
    <3> QED
      BY <3>1, <3>2, <3>3
  <2> QED
    BY <2>2, <2>3
<1>3. ASSUME NEW r \in Requests, Admit(r)
      PROVE  Counted'
  <2>1. UNCHANGED <<enforced, late, flagged>>
    BY <1>3 DEF Admit, requestVars
  <2>2. CASE r \in done \cup admitted
    BY <1>3, <2>1, <2>2 DEF Admit
  <2>3. CASE r \notin done \cup admitted
    <3>1. r \notin flagged \cup late
      BY <2>3 DEF Begins
    <3>2. \A x \in Requests \ {r} : slot'[x] = slot[x]
      BY <1>3, <2>3 DEF Admit, TakeSlot, JoinQueue, TypeOK
    <3> QED
      BY <2>1, <3>1, <3>2
  <2> QED
    BY <2>2, <2>3
<1>4. ASSUME NEW r \in Requests, Late(r)
      PROVE  Counted'
  BY <1>4 DEF Late, requestVars
<1>5. ASSUME NEW r \in Requests, GiveUp(r)
      PROVE  Counted'
  <2>1. /\ r \in enforced
        /\ \A x \in Requests \ {r} : slot'[x] = slot[x]
        /\ \A x \in Requests \ {r} : x \in flagged' <=> x \in flagged
        /\ UNCHANGED <<enforced, late>>
    BY <1>5 DEF GiveUp, Begins, requestVars, TypeOK
  <2> QED
    BY <2>1
<1>6. ASSUME UNCHANGED <<enforced, slot, late, flagged>>
      PROVE  Counted'
  BY <1>6
<1> QED
  BY <1>1, <1>2, <1>3, <1>4, <1>5, <1>6
     DEF Next, Wake, Resume, StatementEnds, vars, requestVars

LEMMA IInvInit == Init => IInv
<1> SUFFICES ASSUME Init
             PROVE  IInv
  OBVIOUS
<1>1. TypeOK
  BY AdmissionAssumption DEF Init, TypeOK, SlotStates, StmtStates
<1>2. \A k \in Keys : Cardinality(HoldersOf(k)) = 0
  <2>1. \A k \in Keys : HoldersOf(k) = {}
    BY DEF Init, HoldersOf
  <2> QED
    BY <2>1, FS_EmptySet
<1>3. Slots
  BY <1>2 DEF Init, Slots
<1>4. QueueExact
  BY DEF Init, QueueExact, IsInjective, ToSet
<1> QED
  BY <1>1, <1>3, <1>4 DEF Init, IInv, Table, Marks, NoIdleSlot, Begins, Covered,
     NoLostWakeup, Counted, Awake

LEMMA IInvHolds == Spec => []IInv
<1>1. IInv /\ [Next]_vars => IInv'
  BY TableNext, BeginsNext, CoveredNext, NoLostWakeupNext, CountedNext
     DEF IInv, Marks
<1> QED
  BY IInvInit, <1>1, PTL DEF Spec
-----------------------------------------------------------------------------
(* Every variable has its type: release and TakeSlot keep a client's count *)
(* between zero and ClientCap.                                             *)
THEOREM TypeCorrect == Spec => []TypeOK
<1>1. IInv => TypeOK
  BY DEF IInv, Table
<1> QED
  BY IInvHolds, <1>1, PTL

(* A client is charged for exactly the slots of its unfinished requests,   *)
(* whatever hand-overs meet timeouts and ends of requests.                 *)
THEOREM SlotsExact == Spec => []HoldersExact
<1>1. IInv => HoldersExact
  BY DEF IInv, Table, Slots, HoldersExact, HoldersOf
<1> QED
  BY IInvHolds, <1>1, PTL

(* release, finish, Admit and dequeue keep a client's queue equal to the   *)
(* set of its waiting requests.                                            *)
THEOREM QueuesExact == Spec => []QueueExact
<1>1. IInv => QueueExact
  BY DEF IInv, Table
<1> QED
  BY IInvHolds, <1>1, PTL

(* release passes on every slot somebody waits for.                        *)
THEOREM SlotsBusy == Spec => []NoIdleSlot
<1>1. IInv => NoIdleSlot
  BY DEF IInv, Table
<1> QED
  BY IInvHolds, <1>1, PTL

(* An enforced request asleep in Admit is queued, or woken.                *)
THEOREM WakeupsArrive == Spec => []NoLostWakeup
<1>1. IInv => NoLostWakeup
  BY DEF IInv, Marks
<1> QED
  BY IInvHolds, <1>1, PTL

(* A running statement of an enforced request is covered by a slot.        *)
THEOREM SlotBeforeStatement == Spec => []RunsWithSlot
<1>1. IInv => RunsWithSlot
  BY DEF IInv, Table, TypeOK, Marks, Begins, Covered, Awake, RunsWithSlot
<1> QED
  BY IInvHolds, <1>1, PTL

(* Observing counts a finished request exactly if it stayed queued for     *)
(* ClientWait.                                                             *)
THEOREM ObservingExact == Spec => []ObservedCountsLate
<1>1. IInv => ObservedCountsLate
  BY DEF IInv, Table, TypeOK, Slots, Marks, Counted, ObservedCountsLate
<1> QED
  BY IInvHolds, <1>1, PTL

(* No step gives a waiter a slot past an older one of its client.          *)
THEOREM ServedInOrder == Spec => OldestFirst
<1> DEFINE A == \A k \in Keys : \A i, j \in DOMAIN waiters[k] :
                  i < j /\ slot'[waiters[k][j]] = "holder"
                    => slot'[waiters[k][i]] # "waiting"
<1>1. ASSUME IInv, Next, NEW k \in Keys,
             NEW i \in DOMAIN waiters[k], NEW j \in DOMAIN waiters[k],
             i < j, slot'[waiters[k][j]] = "holder"
      PROVE  slot'[waiters[k][i]] # "waiting"
  <2>1. \A x \in ToSet(waiters[k]) :
          x \in Requests /\ key[x] = k /\ slot[x] = "waiting"
    BY <1>1 DEF IInv, Table, QueueExact
  <2>2. waiters[k][j] \in ToSet(waiters[k])
    BY DEF ToSet
  <2>3. PICK r \in Requests : finish(r)
    <3>1. SUFFICES ASSUME NEW x \in Requests,
                          \/ Begin(x) \/ Admit(x) \/ Late(x) \/ Wake(x)
                          \/ Resume(x) \/ GiveUp(x) \/ StatementEnds(x)
                   PROVE  slot'[waiters[k][j]] # "holder"
      BY <1>1 DEF Next
    <3>2. slot \in [Requests -> SlotStates] /\ waiters[k][j] \in admitted
      BY <1>1, <2>1, <2>2 DEF IInv, Table, TypeOK, Slots
    <3>3. CASE Admit(x)
      BY <3>2, <3>3, <2>1, <2>2 DEF Admit, TakeSlot, JoinQueue
    <3>4. CASE GiveUp(x)
      BY <3>2, <3>4, <2>1, <2>2 DEF GiveUp
    <3>5. CASE slot' = slot
      BY <3>5, <2>1, <2>2
    <3> QED
      BY <3>1, <3>3, <3>4, <3>5 DEF Begin, Late, Wake, Resume, StatementEnds
  <2>4. key[r] \in Keys /\ slot[r] = "holder" /\ release(r)
    <3>1. waiters[k][j] \in Requests /\ slot[waiters[k][j]] = "waiting"
      BY <2>1, <2>2
    <3> QED
      BY <1>1, <2>3, <3>1 DEF finish, LeaveQueue, Begun, IInv, Table, TypeOK
  <2>5. PICK H \in SUBSET Requests, D \in SUBSET Requests : HandsOver(r, H, D)
    BY <1>1, <2>4, ReleaseHandsOver DEF IInv
  <2>6. \A x \in ToSet(waiters[key[r]]) : slot[x] = "waiting" /\ key[x] = key[r]
    BY <1>1, <2>4 DEF IInv, Table, QueueExact
  <2>7. waiters[k][j] \in H
    BY <2>1, <2>2, <2>4, <2>5, <1>1 DEF HandsOver
  <2>8. k = key[r]
    <3>1. waiters[k][j] \in ToSet(waiters[key[r]])
      BY <2>5, <2>7 DEF HandsOver
    <3> QED
      BY <3>1, <2>1, <2>2, <2>6
  <2>9. waiters[k][i] \in D /\ waiters[k][i] # r
    BY <1>1, <2>4, <2>5, <2>6, <2>7, <2>8 DEF HandsOver
  <2> QED
    BY <2>5, <2>9 DEF HandsOver
<1>2. ASSUME IInv, UNCHANGED vars
      PROVE  [A]_vars
  BY <1>2
<1>3. IInv /\ [Next]_vars => [A]_vars
  BY <1>1, <1>2
<1> QED
  BY IInvHolds, <1>3, PTL DEF Spec, OldestFirst
=============================================================================
