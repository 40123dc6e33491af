-------------------------- MODULE SentPathsProofs --------------------------
(***************************************************************************)
(* Theorems of SentPaths, for any workers, pairs, paths and bounds: map    *)
(* and list stay in step, a pair heard over one path has no repeats, and a *)
(* repeat is streamed once per TTL.                                        *)
(***************************************************************************)
EXTENDS SentPaths, FiniteSetTheorems, SequenceTheorems, WellFoundedInduction,
        TLAPS

Times == 0..MaxTime
Jobs ==
  [pc : {"idle"}] \cup [pc : {"marking"}, hearing : Hearings, inserted : BOOLEAN]
  \cup [pc : {"locking"}, hearing : Hearings, inserted : BOOLEAN, now : Times]
Broadcasts ==
  [hearing : Hearings, repeat : BOOLEAN, now : Times, marked : Times, n : Nat]

PairKey(p) == [pair |-> p, path |-> NoPath]
PathKey(p, a) == [pair |-> p, path |-> a]

(* A state of sentPaths: the list has each key of the map once.            *)
Good(s) ==
  /\ s.order \in Seq(Entries)
  /\ \A i, j \in 1..Len(s.order) : s.order[i].key = s.order[j].key => i = j
  /\ s.at = {s.order[i].key : i \in 1..Len(s.order)}
  /\ Len(s.order) <= MaxEntries

(* How a pair p that was only heard over path a is in the list: its key    *)
(* right before its hearing and of the same time, or, when it had to make  *)
(* room alone, its hearing at the front, where it is next.                 *)
Follows(s, p, a) ==
  \A i \in 1..Len(s.order) :
    s.order[i].key = PairKey(p)
      => i < Len(s.order) /\ s.order[i + 1] = [key |-> PathKey(p, a), at |-> s.order[i].at]
Leads(s, p, a) ==
  \A i \in 1..Len(s.order) :
    s.order[i].key = PathKey(p, a)
      => \/ i > 1 /\ s.order[i - 1] = [key |-> PairKey(p), at |-> s.order[i].at]
         \/ i = 1 /\ Len(s.order) >= MaxEntries - 1
Paired(s, p, a) == Follows(s, p, a) /\ Leads(s, p, a)

(* A hearing marked as new at time t is in the list with that time, until  *)
(* it had to make room or TTL has passed.                                  *)
Traced(s, h, t, now) ==
  \/ h \in s.crowded
  \/ now - t >= TTL
  \/ \E i \in 1..Len(s.order) : s.order[i] = [key |-> h, at |-> t]

sent == [at |-> at, order |-> order, crowded |-> crowded]

Types ==
  /\ clock \in Times
  /\ worker \in [Workers -> Jobs]
  /\ paths \in [Pairs -> SUBSET Paths]
  /\ streamed \subseteq Broadcasts
  /\ \A w \in Workers :
       /\ worker[w].pc # "idle" => worker[w].hearing.path \in paths[worker[w].hearing.pair]
       /\ worker[w].pc = "locking" => worker[w].now <= clock

OnePath ==
  \A p \in Pairs, a \in Paths : paths[p] \subseteq {a} => Paired(sent, p, a)

OtherPath ==
  /\ \A p \in Pairs : IsFiniteSet(paths[p])
  /\ \A e \in streamed : e.repeat =>
       /\ e.hearing.path \in paths[e.hearing.pair]
       /\ \E b \in paths[e.hearing.pair] : b # e.hearing.path

Numbered ==
  /\ IsFiniteSet(streamed)
  /\ \A e \in streamed : e.n < Cardinality(streamed)

RepeatsTraced ==
  \A e \in streamed : e.repeat => Traced(sent, e.hearing, e.now, clock)

IInv ==
  /\ Types
  /\ Good(sent)
  /\ OnePath
  /\ OtherPath
  /\ Numbered
  /\ RepeatsTraced
  /\ RepeatOncePerTTL

-----------------------------------------------------------------------------
(* The list                                                                *)

(* Sets of numbers up to n have a least element: the shortest of the       *)
(* intervals 0..x that end in one.                                         *)
LEMMA LeastExists ==
  ASSUME NEW n \in Nat, NEW S \in SUBSET (0..n), S # {}
  PROVE  Min(S) \in S /\ \A y \in S : Min(S) <= y
<1> DEFINE T == {0..x : x \in S}
           R == StrictSubsetOrdering(0..n)
<1>1. IsWellFoundedOn(R, SUBSET (0..n))
  <2>1. IsFiniteSet(0..n)
    BY FS_Interval
  <2> QED
    BY <2>1, FS_StrictSubsetOrderingWellFounded, FS_FiniteSubsetsOfFinite
<1>2. T \subseteq SUBSET (0..n) /\ T # {}
  <2>1. \A x \in S : 0..x \subseteq 0..n
    OBVIOUS
  <2> QED
    BY <2>1
<1>3. \E I \in T : \A J \in T : ~ (<<J, I>> \in R)
  <2> HIDE DEF T, R
  <2> QED
    BY <1>1, <1>2, WFMin
<1>4. PICK x \in S : \A y \in S : ~ (<<0..y, 0..x>> \in R)
  BY <1>3
<1>5. ASSUME NEW y \in S, ~ (x <= y)
      PROVE  FALSE
  <2>1. 0..y \subseteq 0..x /\ 0..y # 0..x
    BY <1>5
  <2>2. <<0..y, 0..x>> \in R
    BY <2>1 DEF StrictSubsetOrdering
  <2> QED
    BY <2>2, <1>4
<1> QED
  BY <1>5 DEF Min

(* Why add drops n entries off the front of q, and no more: each of them   *)
(* had expired, or the list was full when its turn came.                   *)
LEMMA StaleDrops ==
  ASSUME NEW q \in Seq(Entries), NEW now \in Int
  PROVE  /\ Stale(q, now) \in 0..Len(q)
         /\ \/ Stale(q, now) = Len(q)
            \/ /\ now - q[Stale(q, now) + 1].at < TTL
               /\ Len(q) - Stale(q, now) < MaxEntries
         /\ \A j \in 1..Stale(q, now) :
              now - q[j].at >= TTL \/ Len(q) - j + 1 >= MaxEntries
<1> DEFINE Stays(n) == n = Len(q) \/ (now - q[n + 1].at < TTL /\ Len(q) - n < MaxEntries)
           S == {n \in 0..Len(q) : Stays(n)}
           n == Stale(q, now)
<1>0. Len(q) \in Nat
  OBVIOUS
<1>1. n \in S /\ \A m \in S : n <= m
  <2>1. Len(q) \in S /\ S \in SUBSET (0..Len(q))
    BY <1>0
  <2>2. n = Min(S)
    BY DEF Stale
  <2> HIDE DEF S, n
  <2> QED
    BY <1>0, <2>1, <2>2, LeastExists
<1>2. ASSUME NEW j \in 1..n
      PROVE  now - q[j].at >= TTL \/ Len(q) - j + 1 >= MaxEntries
  <2>1. j - 1 \in 0..Len(q) /\ j - 1 < n /\ j - 1 # Len(q) /\ j \in 1..Len(q)
    BY <1>0, <1>1
  <2>2. ~ Stays(j - 1)
    BY <1>1, <2>1
  <2>3. ~ (now - q[j].at < TTL /\ Len(q) - (j - 1) < MaxEntries)
    BY <2>1, <2>2
  <2>4. q[j].at \in Int /\ TTL \in Int /\ MaxEntries \in Int
    <3>1. q[j] \in Entries
      BY <2>1
    <3> QED
      BY <3>1, SentAssumption DEF Entries
  <2> QED
    BY <1>0, <2>3, <2>4
<1> QED
  BY <1>1, <1>2

(* f is s without its first n entries, each of which was to go.            *)
Drops(s, f, now, n) ==
  /\ Len(f.order) = Len(s.order) - n
  /\ \A i \in 1..Len(f.order) : f.order[i] = s.order[i + n]
  /\ \A j \in 1..n :
       \/ now - s.order[j].at >= TTL
       \/ Len(s.order) - j + 1 >= MaxEntries /\ s.order[j].key \in f.crowded
  /\ Len(f.order) > 0 => now - f.order[1].at < TTL
  /\ Len(f.order) < MaxEntries
  /\ s.crowded \subseteq f.crowded

LEMMA Forgets ==
  ASSUME NEW s, Good(s), NEW now \in Int
  PROVE  /\ Good(Forget(s, now))
         /\ \E n \in 0..Len(s.order) : Drops(s, Forget(s, now), now, n)
<1> DEFINE q == s.order
           n == Stale(q, now)
           f == Forget(s, now)
<1>0. q \in Seq(Entries) /\ Len(q) \in Nat /\ \A i \in 1..Len(q) : q[i] \in Entries
  BY DEF Good
<1>1. /\ n \in 0..Len(q)
      /\ n = Len(q) \/ (now - q[n + 1].at < TTL /\ Len(q) - n < MaxEntries)
      /\ \A j \in 1..n : now - q[j].at >= TTL \/ Len(q) - j + 1 >= MaxEntries
  BY <1>0, StaleDrops
<1>2. /\ f.order = SubSeq(q, n + 1, Len(q))
      /\ f.at = s.at \ {q[i].key : i \in 1..n}
      /\ f.crowded = s.crowded \cup Crowding(q, n)
  BY DEF Forget
<1> HIDE DEF n, f, q
<1>3. /\ f.order \in Seq(Entries)
      /\ Len(f.order) = Len(q) - n
      /\ \A i \in 1..(Len(q) - n) : f.order[i] = q[i + n]
  <2>1. \A i \in (n + 1)..Len(q) : q[i] \in Entries
    BY <1>0, <1>1
  <2>2. /\ SubSeq(q, n + 1, Len(q)) \in Seq(Entries)
        /\ Len(SubSeq(q, n + 1, Len(q))) = IF n + 1 <= Len(q) THEN Len(q) - (n + 1) + 1 ELSE 0
        /\ \A i \in 1..(Len(q) - (n + 1) + 1) : SubSeq(q, n + 1, Len(q))[i] = q[n + 1 + i - 1]
    <3>1. n + 1 \in Int /\ Len(q) \in Int
      BY <1>0, <1>1
    <3> QED
      BY <2>1, <3>1, SubSeqProperties
  <2> QED
    BY <1>0, <1>1, <1>2, <2>2
<1>4. \A i, j \in 1..Len(q) : q[i].key = q[j].key => i = j
  BY DEF Good, q
<1>5. s.at = {q[i].key : i \in 1..Len(q)} /\ Len(q) <= MaxEntries
  BY DEF Good, q
<1>6. f.at = {f.order[i].key : i \in 1..Len(f.order)}
  <2>1. ASSUME NEW k \in f.at PROVE \E i \in 1..Len(f.order) : f.order[i].key = k
    <3>1. PICK i \in 1..Len(q) : q[i].key = k /\ i \notin 1..n
      BY <1>2, <1>5
    <3>2. i - n \in 1..(Len(q) - n) /\ i - n + n = i
      BY <1>0, <1>1, <3>1
    <3> QED
      BY <1>3, <3>1, <3>2
  <2>2. ASSUME NEW i \in 1..Len(f.order) PROVE f.order[i].key \in f.at
    <3>1. i + n \in 1..Len(q) /\ i + n \notin 1..n /\ f.order[i] = q[i + n]
      BY <1>0, <1>1, <1>3
    <3>2. \A j \in 1..n : q[j].key # q[i + n].key
      BY <1>0, <1>1, <1>4, <3>1
    <3> QED
      BY <1>2, <1>5, <3>1, <3>2
  <2> QED
    BY <2>1, <2>2
<1>7. Good(f)
  <2>1. ASSUME NEW i \in 1..Len(f.order), NEW j \in 1..Len(f.order),
               f.order[i].key = f.order[j].key
        PROVE  i = j
    <3>1. i + n \in 1..Len(q) /\ j + n \in 1..Len(q)
      BY <1>0, <1>1, <1>3
    <3>2. q[i + n].key = q[j + n].key
      BY <1>3, <2>1
    <3>3. i + n = j + n
      BY <1>4, <3>1, <3>2
    <3> QED
      BY <1>1, <3>3
  <2>2. Len(f.order) <= MaxEntries
    BY <1>0, <1>1, <1>3, <1>5, SentAssumption
  <2> QED
    BY <1>3, <1>6, <2>1, <2>2 DEF Good
<1>8. Drops(s, f, now, n)
  <2>1. ASSUME NEW j \in 1..n, Len(q) - j + 1 >= MaxEntries PROVE q[j].key \in f.crowded
    BY <1>2, <2>1 DEF Crowding
  <2>2. Len(f.order) > 0 => now - f.order[1].at < TTL
    <3>1. SUFFICES ASSUME Len(f.order) > 0 PROVE now - f.order[1].at < TTL
      OBVIOUS
    <3>2. n # Len(q) /\ 1 \in 1..(Len(q) - n) /\ 1 + n = n + 1
      BY <1>0, <1>1, <1>3, <3>1
    <3> QED
      BY <1>1, <1>3, <3>2
  <2>3. Len(f.order) < MaxEntries
    BY <1>0, <1>1, <1>3, SentAssumption
  <2> QED
    BY <1>1, <1>2, <1>3, <2>1, <2>2, <2>3 DEF Drops, q
<1> QED
  BY <1>1, <1>7, <1>8 DEF f, q

(* What forgetting leaves of a state needs no more of it.                  *)
LEMMA ForgetsOnce ==
  ASSUME NEW s, Good(s), NEW now \in Int,
         Len(s.order) > 0 => now - s.order[1].at < TTL, Len(s.order) < MaxEntries
  PROVE  Forget(s, now).order = s.order /\ Forget(s, now).at = s.at
<1> DEFINE q == s.order
           n == Stale(q, now)
<1>1. q \in Seq(Entries) /\ Len(q) \in Nat
  BY DEF Good
<1>2. n = 0
  <2>1. /\ n \in 0..Len(q)
        /\ \A j \in 1..n : now - q[j].at >= TTL \/ Len(q) - j + 1 >= MaxEntries
    BY <1>1, StaleDrops
  <2>2. Len(q) > 0 => q[1].at \in Int
    <3>1. Len(q) > 0 => q[1] \in Entries
      BY <1>1
    <3> QED
      BY <3>1, SentAssumption DEF Entries
  <2>3. TTL \in Int /\ MaxEntries \in Int
    BY SentAssumption
  <2> QED
    BY <1>1, <2>1, <2>2, <2>3
<1>3. SubSeq(q, 1, Len(q)) = q
  BY <1>1, SubSeqFull
<1> QED
  BY <1>2, <1>3 DEF Forget

(* r is what add makes of the state f, from which it forgot what was old:  *)
(* a key that is not there goes to the end.                                *)
Appends(f, r, k, now) ==
  /\ r.new <=> k \notin f.at
  /\ Good(r.state)
  /\ r.state.crowded = f.crowded
  /\ k \in f.at => r.state = f
  /\ k \notin f.at =>
       /\ Len(r.state.order) = Len(f.order) + 1
       /\ \A i \in 1..Len(f.order) : r.state.order[i] = f.order[i]
       /\ r.state.order[Len(f.order) + 1] = [key |-> k, at |-> now]

LEMMA Adds ==
  ASSUME NEW s, Good(s), NEW k \in Keys, NEW now \in Times
  PROVE  Appends(Forget(s, now), Added(s, k, now), k, now)
<1> DEFINE f == Forget(s, now)
           r == Added(s, k, now)
           e == [key |-> k, at |-> now]
<1>1. Good(f) /\ Len(f.order) < MaxEntries
  <2>1. now \in Int
    BY SentAssumption DEF Times
  <2> QED
    BY <2>1, Forgets DEF Drops
<1>2. CASE k \in f.at
  BY <1>1, <1>2 DEF Added, Appends
<1>3. CASE k \notin f.at
  <2>1. /\ r.new
        /\ r.state = [f EXCEPT !.at = @ \cup {k}, !.order = Append(@, e)]
    BY <1>3 DEF Added
  <2>2. /\ r.state.order = Append(f.order, e)
        /\ r.state.at = f.at \cup {k}
        /\ r.state.crowded = f.crowded
    BY <2>1 DEF Forget
  <2> HIDE DEF f, r
  <2>3. /\ f.order \in Seq(Entries)
        /\ \A i, j \in 1..Len(f.order) : f.order[i].key = f.order[j].key => i = j
        /\ f.at = {f.order[i].key : i \in 1..Len(f.order)}
    BY <1>1 DEF Good
  <2>4. e \in Entries
    BY DEF Entries, Times
  <2>5. /\ r.state.order \in Seq(Entries)
        /\ Len(r.state.order) = Len(f.order) + 1
        /\ \A i \in 1..Len(f.order) : r.state.order[i] = f.order[i]
        /\ r.state.order[Len(f.order) + 1] = e
        /\ Len(f.order) \in Nat
    BY <2>2, <2>3, <2>4
  <2>6. \A i \in 1..Len(f.order) : f.order[i].key # k
    BY <1>3, <2>3
  <2>7. \A i \in 1..Len(r.state.order) :
          i \in 1..Len(f.order) \/ i = Len(f.order) + 1
    BY <2>5
  <2>8. \A i, j \in 1..Len(r.state.order) :
          r.state.order[i].key = r.state.order[j].key => i = j
    <3>1. SUFFICES ASSUME NEW i \in 1..Len(r.state.order), NEW j \in 1..Len(r.state.order),
                          r.state.order[i].key = r.state.order[j].key
                   PROVE  i = j
      OBVIOUS
    <3>2. e.key = k
      OBVIOUS
    <3>3. CASE i \in 1..Len(f.order) /\ j \in 1..Len(f.order)
      <4>1. f.order[i].key = f.order[j].key
        BY <2>5, <3>1, <3>3
      <4> QED
        BY <2>3, <3>3, <4>1
    <3>4. CASE i \in 1..Len(f.order) /\ j = Len(f.order) + 1
      <4>1. f.order[i].key = k
        BY <2>5, <3>1, <3>2, <3>4
      <4> QED
        BY <2>6, <3>4, <4>1
    <3>5. CASE i = Len(f.order) + 1 /\ j \in 1..Len(f.order)
      <4>1. f.order[j].key = k
        BY <2>5, <3>1, <3>2, <3>5
      <4> QED
        BY <2>6, <3>5, <4>1
    <3> QED
      BY <2>7, <3>3, <3>4, <3>5
  <2>9. r.state.at = {r.state.order[i].key : i \in 1..Len(r.state.order)}
    <3>1. \A x \in r.state.at : \E i \in 1..Len(r.state.order) : r.state.order[i].key = x
      BY <2>2, <2>3, <2>5
    <3>2. ASSUME NEW i \in 1..Len(r.state.order) PROVE r.state.order[i].key \in r.state.at
      <4>1. CASE i \in 1..Len(f.order)
        <5>1. f.order[i].key \in f.at /\ r.state.order[i] = f.order[i]
          BY <2>3, <2>5, <4>1
        <5> QED
          BY <2>2, <5>1
      <4>2. CASE i = Len(f.order) + 1
        <5>1. r.state.order[i].key = k
          BY <2>5, <4>2
        <5> QED
          BY <2>2, <5>1
      <4> QED
        BY <2>7, <4>1, <4>2
    <3> DEFINE keys == {r.state.order[i].key : i \in 1..Len(r.state.order)}
    <3>3. r.state.at \subseteq keys
      BY <3>1
    <3>4. keys \subseteq r.state.at
      BY <3>2
    <3> QED
      BY <3>3, <3>4
  <2>10. Len(r.state.order) <= MaxEntries
    BY <1>1, <2>5, SentAssumption
  <2>11. Good(r.state)
    BY <2>5, <2>8, <2>9, <2>10 DEF Good
  <2> QED
    BY <1>3, <2>1, <2>2, <2>5, <2>11 DEF Appends, f, r
<1> QED
  BY <1>2, <1>3

-----------------------------------------------------------------------------
(* Repeats                                                                 *)

(* What add does to the trace of a repeat, h, of time t: it stays, and h   *)
(* is not new before the trace is gone.                                    *)
LEMMA AddedTraces ==
  ASSUME NEW s, Good(s), NEW k \in Keys, NEW now \in Times, NEW then \in Times,
         now <= then, NEW h, NEW t \in Times, Traced(s, h, t, then)
  PROVE  LET r == Added(s, k, now)
         IN /\ Traced(r.state, h, t, then)
            /\ k = h /\ r.new => h \in r.state.crowded \/ then - t >= TTL
<1> DEFINE f == Forget(s, now)
           r == Added(s, k, now)
<1>1. Good(f) /\ \E n \in 0..Len(s.order) : Drops(s, f, now, n)
  <2>1. now \in Int
    BY SentAssumption DEF Times
  <2> QED
    BY <2>1, Forgets
<1>2. Appends(f, r, k, now)
  BY Adds
<1> HIDE DEF f, r
<1>3. PICK n \in 0..Len(s.order) : Drops(s, f, now, n)
  BY <1>1
<1>4. Len(s.order) \in Nat /\ Len(f.order) \in Nat /\ Len(f.order) = Len(s.order) - n
  <2>1. Len(s.order) \in Nat /\ Len(f.order) \in Nat
    BY <1>1 DEF Good
  <2>2. Len(f.order) = Len(s.order) - n
    BY <1>3 DEF Drops
  <2> QED
    BY <2>1, <2>2
<1>5. /\ now \in Int /\ then \in Int /\ t \in Int /\ TTL \in Int
  BY SentAssumption DEF Times
<1>6. CASE h \in s.crowded
  <2>1. h \in r.state.crowded
    BY <1>2, <1>3, <1>6 DEF Drops, Appends
  <2> QED
    BY <2>1 DEF Traced, r
<1>7. CASE then - t >= TTL
  BY <1>7 DEF Traced, r
<1>8. CASE \E i \in 1..Len(s.order) : s.order[i] = [key |-> h, at |-> t]
  <2>1. PICK i \in 1..Len(s.order) : s.order[i] = [key |-> h, at |-> t]
    BY <1>8
  <2>2. CASE i <= n
    <3>1. i \in 1..n
      BY <1>4, <2>2
    <3>2. now - t >= TTL \/ h \in f.crowded
      BY <1>3, <2>1, <3>1 DEF Drops
    <3>3. then - t >= TTL \/ h \in r.state.crowded
      BY <1>2, <1>5, <3>2 DEF Appends
    <3> QED
      BY <3>3 DEF Traced, r
  <2>3. CASE n < i
    <3>1. i - n \in 1..Len(f.order) /\ i - n + n = i
      BY <1>4, <2>3
    <3>2. f.order[i - n] = [key |-> h, at |-> t]
      BY <1>3, <2>1, <3>1 DEF Drops
    <3>3. h \in f.at
      <4>1. f.order[i - n].key = h
        BY <3>2
      <4> QED
        BY <1>1, <3>1, <4>1 DEF Good
    <3>4. i - n \in 1..Len(r.state.order) /\ r.state.order[i - n] = [key |-> h, at |-> t]
      <4>1. CASE k \in f.at
        <5>1. r.state = f
          BY <1>2, <4>1 DEF Appends
        <5> QED
          BY <3>1, <3>2, <5>1
      <4>2. CASE k \notin f.at
        <5>1. /\ Len(r.state.order) = Len(f.order) + 1
              /\ \A j \in 1..Len(f.order) : r.state.order[j] = f.order[j]
          BY <1>2, <4>2 DEF Appends
        <5>2. i - n \in 1..Len(r.state.order)
          BY <1>4, <3>1, <5>1
        <5> QED
          BY <3>1, <3>2, <5>1, <5>2
      <4> QED
        BY <4>1, <4>2
    <3>5. Traced(r.state, h, t, then)
      BY <3>4 DEF Traced
    <3> QED
      BY <1>2, <3>3, <3>5 DEF r, Appends
  <2> QED
    BY <1>4, <2>2, <2>3
<1> QED
  BY <1>6, <1>7, <1>8 DEF Traced

(* mark: the same, and a hearing it finds new is traced from then on.      *)
LEMMA MarkedTraces ==
  ASSUME NEW s, Good(s), NEW x \in Hearings, NEW now \in Times, NEW then \in Times,
         now <= then
  PROVE  LET m == Marked(s, x, now)
         IN /\ Good(m.state)
            /\ m.new => Traced(m.state, x, now, then)
            /\ \A h, t : t \in Times /\ Traced(s, h, t, then) =>
                 /\ Traced(m.state, h, t, then)
                 /\ h = x /\ m.new => h \in m.state.crowded \/ then - t >= TTL
<1> DEFINE k == [x EXCEPT !.path = NoPath]
           a == Added(s, k, now)
           b == Added(a.state, x, now)
           m == Marked(s, x, now)
<1>1. k \in Keys /\ x \in Keys
  BY DEF Keys, Hearings
<1>2. m.state = b.state /\ (m.new => b.new)
  BY DEF Marked
<1>3. Good(a.state) /\ Good(b.state)
  BY <1>1, Adds DEF Appends
<1>4. \A h, t : t \in Times /\ Traced(s, h, t, then) => Traced(a.state, h, t, then)
  BY <1>1, AddedTraces
<1>5. \A h, t : t \in Times /\ Traced(a.state, h, t, then) =>
        /\ Traced(b.state, h, t, then)
        /\ x = h /\ b.new => h \in b.state.crowded \/ then - t >= TTL
  BY <1>1, <1>3, AddedTraces
<1>6. b.new => Traced(b.state, x, now, then)
  <2>1. SUFFICES ASSUME b.new PROVE Traced(b.state, x, now, then)
    OBVIOUS
  <2>2. \E i : /\ i = Len(b.state.order)
               /\ b.state.order[i] = [key |-> x, at |-> now]
               /\ i - 1 = Len(Forget(a.state, now).order)
    <3>1. /\ Len(b.state.order) = Len(Forget(a.state, now).order) + 1
          /\ b.state.order[Len(Forget(a.state, now).order) + 1] = [key |-> x, at |-> now]
      BY <1>1, <1>3, <2>1, Adds DEF Appends
    <3>2. Len(Forget(a.state, now).order) \in Nat
      BY <1>3, Forgets, SentAssumption DEF Good, Times
    <3> QED
      BY <3>1, <3>2
  <2>3. Len(Forget(a.state, now).order) \in Nat /\ Len(b.state.order) \in Nat
    BY <1>3, Forgets, SentAssumption DEF Good, Times
  <2>4. \E i \in 1..Len(b.state.order) : b.state.order[i] = [key |-> x, at |-> now]
    BY <2>2, <2>3
  <2> QED
    BY <2>4 DEF Traced
<1> HIDE DEF m, b
<1> QED
  BY <1>2, <1>3, <1>4, <1>5, <1>6 DEF m

-----------------------------------------------------------------------------
(* A pair that was heard over one path                                     *)

LEMMA KeysDiffer ==
  ASSUME NEW p \in Pairs, NEW a \in Paths
  PROVE  /\ PairKey(p) \in Keys /\ PathKey(p, a) \in Keys
         /\ PairKey(p) # PathKey(p, a)
         /\ \A h : h.pair # p => h # PairKey(p) /\ h # PathKey(p, a)
  BY SentAssumption DEF PairKey, PathKey, Keys

LEMMA PairedForget ==
  ASSUME NEW s, Good(s), NEW p, NEW a, Paired(s, p, a), NEW now \in Int
  PROVE  Paired(Forget(s, now), p, a)
<1> DEFINE f == Forget(s, now)
<1>1. Good(f) /\ \E n \in 0..Len(s.order) : Drops(s, f, now, n)
  BY Forgets
<1> HIDE DEF f
<1>2. PICK n \in 0..Len(s.order) : Drops(s, f, now, n)
  BY <1>1
<1>3. Len(s.order) \in Nat /\ Len(f.order) \in Nat /\ Len(f.order) = Len(s.order) - n
  <2>1. Len(s.order) \in Nat /\ Len(f.order) \in Nat
    BY <1>1 DEF Good
  <2>2. Len(f.order) = Len(s.order) - n
    BY <1>2 DEF Drops
  <2> QED
    BY <2>1, <2>2
<1>4. \A i \in 1..Len(f.order) : i + n \in 1..Len(s.order) /\ f.order[i] = s.order[i + n]
  BY <1>2, <1>3 DEF Drops
<1>5. Follows(f, p, a)
  <2>1. SUFFICES ASSUME NEW i \in 1..Len(f.order), f.order[i].key = PairKey(p)
                 PROVE  /\ i < Len(f.order)
                        /\ f.order[i + 1] = [key |-> PathKey(p, a), at |-> f.order[i].at]
    BY DEF Follows
  <2>2. i + n < Len(s.order) /\ s.order[i + n + 1] = [key |-> PathKey(p, a), at |-> s.order[i + n].at]
    BY <1>4, <2>1 DEF Paired, Follows
  <2>3. i < Len(f.order) /\ i + 1 \in 1..Len(f.order) /\ i + 1 + n = i + n + 1
    BY <1>3, <2>2
  <2> QED
    BY <1>4, <2>2, <2>3
<1>6. Leads(f, p, a)
  <2>1. SUFFICES ASSUME NEW i \in 1..Len(f.order), f.order[i].key = PathKey(p, a)
                 PROVE  \/ i > 1 /\ f.order[i - 1] = [key |-> PairKey(p), at |-> f.order[i].at]
                        \/ i = 1 /\ Len(f.order) >= MaxEntries - 1
    BY DEF Leads
  <2>2. \/ i + n > 1 /\ s.order[i + n - 1] = [key |-> PairKey(p), at |-> s.order[i + n].at]
        \/ i + n = 1 /\ Len(s.order) >= MaxEntries - 1
    BY <1>4, <2>1 DEF Paired, Leads
  <2>3. CASE i > 1
    <3>1. i - 1 \in 1..Len(f.order) /\ i - 1 + n = i + n - 1 /\ i + n # 1
      BY <1>3, <2>3
    <3> QED
      BY <1>4, <2>2, <2>3, <3>1
  <2>4. CASE i = 1 /\ n > 0
    <3>1. n \in 1..n /\ i + n - 1 = n /\ i + n # 1
      BY <2>4
    <3>2. s.order[n].at = f.order[1].at
      BY <1>4, <2>2, <2>4, <3>1
    <3>3. now - f.order[1].at < TTL
      BY <1>2, <1>3 DEF Drops
    <3>4. f.order[1].at \in Int /\ TTL \in Int /\ MaxEntries \in Int
      <4>1. f.order[1] \in Entries
        BY <1>1, <1>3 DEF Good
      <4> QED
        BY <4>1, SentAssumption DEF Entries
    <3>5. now - s.order[n].at >= TTL \/ Len(s.order) - n + 1 >= MaxEntries
      BY <1>2, <3>1 DEF Drops
    <3>6. Len(s.order) - n + 1 >= MaxEntries
      BY <3>2, <3>3, <3>4, <3>5
    <3> QED
      BY <1>3, <2>4, <3>4, <3>6
  <2>5. CASE i = 1 /\ n = 0
    BY <1>3, <2>2, <2>5
  <2> QED
    BY <2>3, <2>4, <2>5
<1> QED
  BY <1>5, <1>6 DEF Paired, f

(* A key of another pair does not come between a pair and its hearing.     *)
LEMMA PairedOther ==
  ASSUME NEW s, Good(s), NEW p \in Pairs, NEW a \in Paths, Paired(s, p, a),
         NEW k \in Keys, k.pair # p, NEW now \in Times
  PROVE  Paired(Added(s, k, now).state, p, a)
<1> DEFINE f == Forget(s, now)
           r == Added(s, k, now)
<1>1. Good(f) /\ Paired(f, p, a)
  BY Forgets, PairedForget, SentAssumption DEF Times
<1>2. Appends(f, r, k, now)
  BY Adds
<1> HIDE DEF f, r
<1>3. CASE k \in f.at
  BY <1>1, <1>2, <1>3 DEF Appends, r
<1>4. CASE k \notin f.at
  <2>1. /\ Len(f.order) \in Nat
        /\ Len(r.state.order) = Len(f.order) + 1
        /\ \A i \in 1..Len(f.order) : r.state.order[i] = f.order[i]
        /\ r.state.order[Len(f.order) + 1].key = k
        /\ \A i \in 1..Len(r.state.order) : i \in 1..Len(f.order) \/ i = Len(f.order) + 1
    BY <1>1, <1>2, <1>4 DEF Good, Appends
  <2>2. k # PairKey(p) /\ k # PathKey(p, a)
    BY KeysDiffer
  <2>3. Follows(r.state, p, a)
    <3>1. SUFFICES ASSUME NEW i \in 1..Len(r.state.order), r.state.order[i].key = PairKey(p)
                   PROVE  /\ i < Len(r.state.order)
                          /\ r.state.order[i + 1] = [key |-> PathKey(p, a), at |-> r.state.order[i].at]
      BY DEF Follows
    <3>2. i \in 1..Len(f.order) /\ f.order[i].key = PairKey(p)
      BY <2>1, <2>2, <3>1
    <3>3. i < Len(f.order) /\ f.order[i + 1] = [key |-> PathKey(p, a), at |-> f.order[i].at]
      BY <1>1, <3>2 DEF Paired, Follows
    <3>4. i + 1 \in 1..Len(f.order) /\ i < Len(r.state.order)
      BY <2>1, <3>2, <3>3
    <3> QED
      BY <2>1, <3>2, <3>3, <3>4
  <2>4. Leads(r.state, p, a)
    <3>1. SUFFICES ASSUME NEW i \in 1..Len(r.state.order), r.state.order[i].key = PathKey(p, a)
                   PROVE  \/ i > 1 /\ r.state.order[i - 1] = [key |-> PairKey(p), at |-> r.state.order[i].at]
                          \/ i = 1 /\ Len(r.state.order) >= MaxEntries - 1
      BY DEF Leads
    <3>2. i \in 1..Len(f.order) /\ f.order[i].key = PathKey(p, a)
      BY <2>1, <2>2, <3>1
    <3>3. \/ i > 1 /\ f.order[i - 1] = [key |-> PairKey(p), at |-> f.order[i].at]
          \/ i = 1 /\ Len(f.order) >= MaxEntries - 1
      BY <1>1, <3>2 DEF Paired, Leads
    <3>4. CASE i > 1 /\ f.order[i - 1] = [key |-> PairKey(p), at |-> f.order[i].at]
      <4>1. i - 1 \in 1..Len(f.order)
        BY <2>1, <3>2, <3>4
      <4> QED
        BY <2>1, <3>2, <3>4, <4>1
    <3>5. CASE i = 1 /\ Len(f.order) >= MaxEntries - 1
      BY <2>1, <3>5, SentAssumption
    <3> QED
      BY <3>3, <3>4, <3>5
  <2> QED
    BY <2>3, <2>4 DEF Paired, r
<1> QED
  BY <1>3, <1>4

(* mark of the hearing of a pair that was heard over this path only: the   *)
(* pair goes right before the hearing, and the hearing is no repeat.       *)
LEMMA PairedMark ==
  ASSUME NEW s, Good(s), NEW p \in Pairs, NEW a \in Paths, Paired(s, p, a),
         NEW now \in Times
  PROVE  LET m == Marked(s, [pair |-> p, path |-> a], now)
         IN ~ m.new /\ Paired(m.state, p, a)
<1> DEFINE P == PairKey(p)
           H == PathKey(p, a)
           f == Forget(s, now)
           first == Added(s, P, now)
           t == first.state
           g == Forget(t, now)
           second == Added(t, H, now)
           m == Marked(s, [pair |-> p, path |-> a], now)
<1>0. P \in Keys /\ H \in Keys /\ P # H
  BY KeysDiffer
<1>1. /\ m.state = second.state
      /\ m.new <=> second.new /\ ~ first.new
  <2>1. [pair |-> p, path |-> a] = H /\ [[pair |-> p, path |-> a] EXCEPT !.path = NoPath] = P
    BY DEF PairKey, PathKey
  <2> QED
    BY <2>1 DEF Marked
<1>2. now \in Int
  BY SentAssumption DEF Times
<1>3. Good(f) /\ (\E n \in 0..Len(s.order) : Drops(s, f, now, n)) /\ Paired(f, p, a)
  BY <1>2, Forgets, PairedForget
<1>4. Appends(f, first, P, now)
  BY <1>0, Adds
<1>5. Good(t)
  BY <1>4 DEF Appends
<1>6. Good(g) /\ \E n \in 0..Len(t.order) : Drops(t, g, now, n)
  BY <1>2, <1>5, Forgets
<1>7. Appends(g, second, H, now)
  BY <1>0, <1>5, Adds
<1>8. P \in f.at => t = f /\ g.order = f.order /\ g.at = f.at
  <2>1. SUFFICES ASSUME P \in f.at PROVE t = f /\ g.order = f.order /\ g.at = f.at
    OBVIOUS
  <2>2. t = f
    BY <1>4, <2>1 DEF Appends
  <2>3. (Len(f.order) > 0 => now - f.order[1].at < TTL) /\ Len(f.order) < MaxEntries
    BY <1>3 DEF Drops
  <2>4. Forget(f, now).order = f.order /\ Forget(f, now).at = f.at
    <3> HIDE DEF f
    <3> QED
      BY <1>2, <1>3, <2>3, ForgetsOnce
  <2> QED
    BY <2>2, <2>4
<1> HIDE DEF P, H, f, first, t, g, second, m
<1>9. Len(f.order) \in Nat /\ Len(t.order) \in Nat /\ Len(g.order) \in Nat
  BY <1>3, <1>5, <1>6 DEF Good
<1>10. Len(f.order) < MaxEntries
  BY <1>3 DEF Drops
<1>11. CASE P \in f.at
  <2>1. PICK i \in 1..Len(f.order) : f.order[i].key = P
    BY <1>3, <1>11 DEF Good
  <2>2. i < Len(f.order) /\ f.order[i + 1].key = H
    <3>1. Follows(f, p, a) /\ f.order[i].key = PairKey(p)
      BY <1>3, <2>1 DEF Paired, P
    <3>2. i < Len(f.order) /\ f.order[i + 1] = [key |-> PathKey(p, a), at |-> f.order[i].at]
      BY <3>1 DEF Follows
    <3> QED
      BY <3>2 DEF H
  <2>3. H \in g.at
    <3>1. i + 1 \in 1..Len(f.order)
      BY <1>9, <2>1, <2>2
    <3>2. H \in f.at
      BY <1>3, <2>2, <3>1 DEF Good
    <3> QED
      BY <1>8, <1>11, <3>2
  <2>4. ~ second.new /\ second.state = g
    BY <1>7, <2>3 DEF Appends
  <2>5. Paired(g, p, a)
    <3>1. g.order = f.order
      BY <1>8, <1>11
    <3> QED
      BY <1>3, <3>1 DEF Paired, Follows, Leads
  <2> QED
    BY <1>1, <2>4, <2>5 DEF m
<1>12. CASE P \notin f.at
  <2> DEFINE L == Len(f.order)
             M == Len(g.order)
  <2>1. /\ Len(t.order) = L + 1
        /\ \A i \in 1..L : t.order[i] = f.order[i]
        /\ t.order[L + 1] = [key |-> P, at |-> now]
    BY <1>4, <1>12 DEF Appends, t
  <2>2. \A i \in 1..L : f.order[i].key = H => i = 1 /\ L >= MaxEntries - 1
    <3>1. SUFFICES ASSUME NEW i \in 1..L, f.order[i].key = H
                   PROVE  i = 1 /\ L >= MaxEntries - 1
      OBVIOUS
    <3>2. ~ (i > 1 /\ f.order[i - 1].key = P)
      <4>1. SUFFICES ASSUME i > 1 PROVE f.order[i - 1].key # P
        OBVIOUS
      <4>2. i - 1 \in 1..L
        BY <1>9, <3>1, <4>1
      <4> QED
        BY <1>3, <1>12, <4>2 DEF Good
    <3>3. Leads(f, p, a) /\ f.order[i].key = PathKey(p, a)
      BY <1>3, <3>1 DEF Paired, H
    <3>4. \/ i > 1 /\ f.order[i - 1] = [key |-> PairKey(p), at |-> f.order[i].at]
          \/ i = 1 /\ L >= MaxEntries - 1
      BY <3>3 DEF Leads
    <3> QED
      BY <3>2, <3>4 DEF P
  <2>3. PICK n \in 0..Len(t.order) : Drops(t, g, now, n)
    BY <1>6
  <2>4. M = L + 1 - n /\ \A i \in 1..M : g.order[i] = t.order[i + n]
    BY <2>1, <2>3 DEF Drops
  <2>5. n \in 0..L
    <3>1. SUFFICES ASSUME n = L + 1 PROVE FALSE
      BY <1>9, <2>1
    <3>2. n \in 1..n /\ t.order[n].at = now
      BY <1>9, <2>1, <3>1
    <3>3. now - t.order[n].at >= TTL \/ Len(t.order) - n + 1 >= MaxEntries
      BY <2>3, <3>2 DEF Drops
    <3>4. now - t.order[n].at = 0 /\ Len(t.order) - n + 1 = 1
      BY <1>2, <1>9, <2>1, <3>1, <3>2
    <3>5. TTL > 0 /\ MaxEntries > 1
      BY SentAssumption
    <3> QED
      BY <3>3, <3>4, <3>5, SentAssumption
  <2>6. M \in Nat /\ M >= 1 /\ g.order[M] = [key |-> P, at |-> now]
    <3>1. M \in 1..M /\ M + n = L + 1
      BY <1>9, <2>4, <2>5
    <3>2. g.order[M] = t.order[M + n]
      BY <2>4, <3>1
    <3> QED
      BY <1>9, <2>1, <3>1, <3>2
  <2>7. H \notin g.at
    <3>1. SUFFICES ASSUME NEW i \in 1..M, g.order[i].key = H PROVE FALSE
      BY <1>6 DEF Good
    <3>2. t.order[i + n].key = H /\ i + n \in 1..(L + 1)
      BY <1>9, <2>4, <2>5, <3>1
    <3>3. i + n # L + 1
      <4>1. t.order[L + 1].key = P
        BY <2>1
      <4> QED
        BY <1>0, <3>2, <4>1
    <3>4. i + n \in 1..L /\ f.order[i + n].key = H
      BY <1>9, <2>1, <3>2, <3>3
    <3>5. i + n = 1 /\ L >= MaxEntries - 1
      BY <2>2, <3>4
    <3>6. M < MaxEntries
      BY <2>3 DEF Drops
    <3>7. M = L + 1
      BY <1>9, <2>4, <2>5, <3>1, <3>5
    <3> QED
      BY <1>9, <3>5, <3>6, <3>7, SentAssumption
  <2>8. /\ Len(second.state.order) = M + 1
        /\ \A i \in 1..M : second.state.order[i] = g.order[i]
        /\ second.state.order[M + 1] = [key |-> H, at |-> now]
    BY <1>7, <2>7 DEF Appends
  <2>9. \A i \in 1..(M + 1) : i \in 1..M \/ i = M + 1
    BY <2>6
  <2> HIDE DEF L, M
  <2>10. \A i \in 1..(M + 1) : second.state.order[i].key = P => i = M
    <3>1. SUFFICES ASSUME NEW i \in 1..(M + 1), second.state.order[i].key = P
                   PROVE  i = M
      OBVIOUS
    <3>2. i # M + 1
      <4>1. second.state.order[M + 1].key = H
        BY <2>8
      <4> QED
        BY <1>0, <3>1, <4>1
    <3>3. i \in 1..M
      BY <2>9, <3>2
    <3>4. g.order[i].key = g.order[M].key /\ M \in 1..M
      BY <2>6, <2>8, <3>1, <3>3
    <3> QED
      BY <1>6, <3>3, <3>4 DEF Good, M
  <2>11. \A i \in 1..(M + 1) : second.state.order[i].key = H => i = M + 1
    <3>1. SUFFICES ASSUME NEW i \in 1..M, second.state.order[i].key = H
                   PROVE  FALSE
      BY <2>9
    <3>2. g.order[i].key = H
      BY <2>8, <3>1
    <3> QED
      BY <1>6, <2>7, <3>1, <3>2 DEF Good, M
  <2>12. second.state.order[M] = [key |-> P, at |-> now]
    <3>1. M \in 1..M
      BY <2>6
    <3> QED
      BY <2>6, <2>8, <3>1
  <2>13. Follows(second.state, p, a)
    BY <2>6, <2>8, <2>10, <2>12 DEF Follows, P, H
  <2>14. Leads(second.state, p, a)
    <3>1. M + 1 > 1 /\ M + 1 - 1 = M
      BY <2>6
    <3>2. SUFFICES ASSUME NEW i \in 1..Len(second.state.order),
                          second.state.order[i].key = PathKey(p, a)
                   PROVE  i > 1 /\ second.state.order[i - 1]
                                  = [key |-> PairKey(p), at |-> second.state.order[i].at]
      BY DEF Leads
    <3>3. i = M + 1
      BY <2>8, <2>11, <3>2 DEF H
    <3>4. second.state.order[i].at = now
      BY <2>8, <3>3
    <3>5. second.state.order[i - 1] = [key |-> PairKey(p), at |-> now]
      <4>1. i - 1 = M
        BY <2>6, <3>3
      <4>2. PairKey(p) = P
        BY DEF P
      <4> QED
        BY <2>12, <4>1, <4>2
    <3>6. i > 1
      BY <3>1, <3>3
    <3> QED
      BY <3>4, <3>5, <3>6
  <2>15. first.new
    BY <1>4, <1>12 DEF Appends
  <2> QED
    BY <1>1, <2>13, <2>14, <2>15 DEF Paired, m
<1> QED
  BY <1>11, <1>12

-----------------------------------------------------------------------------
(* The invariant                                                           *)

(* What is said of a state of sentPaths is said of its three parts.        *)
LEMMA SameParts ==
  ASSUME NEW s, NEW t, s.at = t.at, s.order = t.order, s.crowded = t.crowded
  PROVE  /\ Good(s) => Good(t)
         /\ \A p, a : Paired(s, p, a) => Paired(t, p, a)
         /\ \A h, u, now : Traced(s, h, u, now) => Traced(t, h, u, now)
<1>1. Good(s) => Good(t)
  BY DEF Good
<1>2. \A p, a : Paired(s, p, a) => Paired(t, p, a)
  BY DEF Paired, Follows, Leads
<1>3. \A h, u, now : Traced(s, h, u, now) => Traced(t, h, u, now)
  BY DEF Traced
<1> QED
  BY <1>1, <1>2, <1>3

LEMMA AddedCrowds ==
  ASSUME NEW s, Good(s), NEW k \in Keys, NEW now \in Times
  PROVE  s.crowded \subseteq Added(s, k, now).state.crowded
<1> DEFINE f == Forget(s, now)
           r == Added(s, k, now)
<1>1. now \in Int
  BY SentAssumption DEF Times
<1>2. s.crowded \subseteq f.crowded
  BY <1>1, Forgets DEF Drops
<1>3. Appends(f, r, k, now)
  BY Adds
<1> HIDE DEF f, r
<1>4. s.crowded \subseteq r.state.crowded
  BY <1>2, <1>3 DEF Appends
<1> QED
  BY <1>4 DEF r

(* mark: what was said of other pairs remains, and nothing that had to     *)
(* make room is forgotten.                                                 *)
LEMMA MarkedOther ==
  ASSUME NEW s, Good(s), NEW x \in Hearings, NEW now \in Times
  PROVE  LET m == Marked(s, x, now)
         IN /\ s.crowded \subseteq m.state.crowded
            /\ \A p \in Pairs, a \in Paths :
                 p # x.pair /\ Paired(s, p, a) => Paired(m.state, p, a)
<1> DEFINE k == [x EXCEPT !.path = NoPath]
           r == Added(s, k, now)
           b == Added(r.state, x, now)
<1>1. k \in Keys /\ x \in Keys /\ k.pair = x.pair
  BY DEF Keys, Hearings
<1>2. Marked(s, x, now).state = b.state
  BY DEF Marked
<1>3. Good(r.state)
  BY <1>1, Adds DEF Appends
<1>4. s.crowded \subseteq b.state.crowded
  <2>1. s.crowded \subseteq r.state.crowded
    BY <1>1, AddedCrowds
  <2>2. r.state.crowded \subseteq b.state.crowded
    BY <1>1, <1>3, AddedCrowds
  <2> QED
    BY <2>1, <2>2
<1>5. ASSUME NEW p \in Pairs, NEW a \in Paths, p # x.pair, Paired(s, p, a)
      PROVE  Paired(b.state, p, a)
  <2>1. Paired(r.state, p, a)
    BY <1>1, <1>5, PairedOther
  <2> QED
    BY <1>1, <1>3, <1>5, <2>1, PairedOther
<1> QED
  BY <1>2, <1>4, <1>5

LEMMA InitInv == Init => IInv
<1> SUFFICES ASSUME Init PROVE IInv
  OBVIOUS
<1> USE DEF Init
<1>1. Types
  BY SentAssumption DEF Types, Times, Jobs, NoHearing
<1>2. Good(sent)
  BY SentAssumption DEF Good, sent
<1>3. OnePath
  BY DEF OnePath, Paired, Follows, Leads, sent
<1>4. OtherPath
  BY FS_EmptySet DEF OtherPath
<1>5. Numbered
  BY FS_EmptySet DEF Numbered
<1>6. RepeatsTraced /\ RepeatOncePerTTL
  BY DEF RepeatsTraced, RepeatOncePerTTL
<1> QED
  BY <1>1, <1>2, <1>3, <1>4, <1>5, <1>6 DEF IInv

LEMMA TickInv == IInv /\ Tick => IInv'
<1> SUFFICES ASSUME IInv, Tick PROVE IInv'
  OBVIOUS
<1> USE DEF Tick
<1>1. Types'
  <2>1. /\ clock \in Nat /\ MaxTime \in Nat /\ clock' = clock + 1 /\ clock < MaxTime
        /\ \A w \in Workers : worker[w].pc = "locking" => worker[w].now \in Times
    <3>1. \A w \in Workers : worker[w] \in Jobs
      BY DEF IInv, Types
    <3> QED
      BY <3>1, SentAssumption DEF IInv, Types, Times, Jobs
  <2>2. clock' \in Times
    BY <2>1 DEF Times
  <2>3. \A w \in Workers : worker[w].pc = "locking" => worker[w].now <= clock'
    BY <2>1 DEF IInv, Types, Times
  <2> QED
    BY <2>2, <2>3 DEF IInv, Types
<1>2. Good(sent)' /\ OnePath' /\ OtherPath' /\ Numbered' /\ RepeatOncePerTTL'
  BY DEF IInv, sent, Good, OnePath, OtherPath, Numbered, RepeatOncePerTTL, Paired,
     Follows, Leads
<1>3. RepeatsTraced'
  <2>1. SUFFICES ASSUME NEW e \in streamed, e.repeat
                 PROVE  Traced(sent, e.hearing, e.now, clock')
    BY DEF RepeatsTraced, Traced, sent
  <2>2. Traced(sent, e.hearing, e.now, clock)
    BY <2>1 DEF IInv, RepeatsTraced
  <2>3. clock - e.now >= TTL => clock' - e.now >= TTL
    <3>1. e.now \in Int /\ clock \in Int /\ TTL \in Int
      BY SentAssumption DEF IInv, Types, Times, Broadcasts
    <3> QED
      BY <3>1
  <2> QED
    BY <2>2, <2>3 DEF Traced
<1> QED
  BY <1>1, <1>2, <1>3 DEF IInv

LEMMA InsertInv ==
  ASSUME IInv, NEW w \in Workers, NEW h \in Hearings, Insert(w, h)
  PROVE  IInv'
<1> USE DEF Insert
<1>1. h.pair \in Pairs /\ h.path \in Paths
  BY DEF Hearings
<1>2. /\ paths' \in [Pairs -> SUBSET Paths]
      /\ \A p \in Pairs : paths[p] \subseteq paths'[p]
      /\ h.path \in paths'[h.pair]
      /\ \A p \in Pairs : paths'[p] = paths[p] \/ paths'[p] = paths[p] \cup {h.path}
  BY <1>1 DEF IInv, Types
<1>3. Types'
  <2>1. worker \in [Workers -> Jobs]
    BY DEF IInv, Types
  <2>2. /\ worker'[w] = [pc |-> "marking", hearing |-> h, inserted |-> h.pair \notin stored]
        /\ worker' = [worker EXCEPT ![w] = worker'[w]]
    BY <2>1
  <2>3. worker'[w] \in Jobs
    BY <2>2 DEF Jobs
  <2>4. worker' \in [Workers -> Jobs]
    BY <2>1, <2>2, <2>3
  <2>5. ASSUME NEW v \in Workers
        PROVE  /\ worker'[v].pc # "idle"
                    => worker'[v].hearing.path \in paths'[worker'[v].hearing.pair]
               /\ worker'[v].pc = "locking" => worker'[v].now <= clock
    <3>1. CASE v = w
      BY <1>2, <2>2, <3>1
    <3>2. CASE v # w
      <4>1. worker'[v] = worker[v] /\ worker[v] \in Jobs
        BY <2>1, <2>2, <3>2
      <4>2. /\ worker[v].pc # "idle" => worker[v].hearing \in Hearings
            /\ worker[v].pc # "idle"
                 => worker[v].hearing.path \in paths[worker[v].hearing.pair]
            /\ worker[v].pc = "locking" => worker[v].now <= clock
        BY <4>1 DEF Jobs, IInv, Types
      <4>3. worker[v].pc # "idle" => worker[v].hearing.pair \in Pairs
        BY <4>2 DEF Hearings
      <4> QED
        BY <1>2, <4>1, <4>2, <4>3
    <3> QED
      BY <3>1, <3>2
  <2> QED
    BY <1>2, <2>4, <2>5 DEF IInv, Types
<1>4. Good(sent)' /\ Numbered'
  <2>1. Good(sent)'
    BY DEF IInv, Good, sent
  <2> QED
    BY <2>1 DEF IInv, Numbered
<1>5. OnePath'
  <2>1. SUFFICES ASSUME NEW p \in Pairs, NEW a \in Paths, paths'[p] \subseteq {a}
                 PROVE  Paired(sent, p, a)
    BY DEF OnePath, Paired, Follows, Leads, sent
  <2>2. paths[p] \subseteq {a}
    BY <1>2, <2>1
  <2> QED
    BY <2>2 DEF IInv, OnePath
<1>6. OtherPath'
  <2>1. ASSUME NEW p \in Pairs PROVE IsFiniteSet(paths'[p])
    <3>1. IsFiniteSet(paths[p]) /\ IsFiniteSet(paths[p] \cup {h.path})
      BY FS_AddElement DEF IInv, OtherPath
    <3> QED
      BY <1>2, <3>1
  <2>2. ASSUME NEW e \in streamed, e.repeat
        PROVE  /\ e.hearing.path \in paths'[e.hearing.pair]
               /\ \E b \in paths'[e.hearing.pair] : b # e.hearing.path
    <3>1. e.hearing.pair \in Pairs
      BY DEF IInv, Types, Broadcasts, Hearings
    <3>2. paths[e.hearing.pair] \subseteq paths'[e.hearing.pair]
      BY <1>2, <3>1
    <3> QED
      BY <2>2, <3>2 DEF IInv, OtherPath
  <2> QED
    BY <2>1, <2>2 DEF OtherPath
<1>7. RepeatsTraced' /\ RepeatOncePerTTL'
  BY DEF IInv, RepeatsTraced, RepeatOncePerTTL, Traced, sent
<1> QED
  BY <1>3, <1>4, <1>5, <1>6, <1>7 DEF IInv

LEMMA ReadClockInv ==
  ASSUME IInv, NEW w \in Workers, ReadClock(w)
  PROVE  IInv'
<1> USE DEF ReadClock
<1>1. Types'
  <2>1. worker \in [Workers -> Jobs] /\ worker[w] \in Jobs /\ clock \in Times
    BY DEF IInv, Types
  <2>2. /\ worker'[w] = [pc |-> "locking", hearing |-> worker[w].hearing,
                         inserted |-> worker[w].inserted, now |-> clock]
        /\ worker' = [worker EXCEPT ![w] = worker'[w]]
    BY <2>1
  <2>3. worker[w].hearing \in Hearings /\ worker[w].inserted \in BOOLEAN
    BY <2>1 DEF Jobs
  <2>4. worker'[w] \in Jobs
    BY <2>1, <2>2, <2>3 DEF Jobs
  <2>5. worker' \in [Workers -> Jobs]
    BY <2>1, <2>2, <2>4
  <2>6. ASSUME NEW v \in Workers
        PROVE  /\ worker'[v].pc # "idle"
                    => worker'[v].hearing.path \in paths[worker'[v].hearing.pair]
               /\ worker'[v].pc = "locking" => worker'[v].now <= clock
    <3>1. CASE v = w
      <4>1. worker'[v].hearing = worker[w].hearing /\ worker'[v].now = clock
        BY <2>2, <3>1
      <4>2. worker[w].hearing.path \in paths[worker[w].hearing.pair]
        BY DEF IInv, Types
      <4>3. clock \in Int
        BY <2>1, SentAssumption DEF Times
      <4> QED
        BY <4>1, <4>2, <4>3
    <3>2. CASE v # w
      <4>1. worker'[v] = worker[v]
        BY <2>1, <2>2, <3>2
      <4> QED
        BY <4>1 DEF IInv, Types
    <3> QED
      BY <3>1, <3>2
  <2> QED
    BY <2>5, <2>6 DEF IInv, Types
<1>2. Good(sent)' /\ OnePath' /\ OtherPath' /\ Numbered'
  BY DEF IInv, sent, Good, OnePath, OtherPath, Numbered, Paired, Follows, Leads
<1>3. RepeatsTraced' /\ RepeatOncePerTTL'
  BY DEF IInv, RepeatsTraced, RepeatOncePerTTL, Traced, sent
<1> QED
  BY <1>1, <1>2, <1>3 DEF IInv

LEMMA MarkInv ==
  ASSUME IInv, NEW w \in Workers, Mark(w)
  PROVE  IInv'
<1> DEFINE x == worker[w]
           h == x.hearing
           m == Marked(sent, h, x.now)
           new == [hearing |-> h, repeat |-> ~x.inserted, now |-> x.now,
                   marked |-> clock, n |-> Cardinality(streamed)]
<1>1. /\ worker \in [Workers -> Jobs] /\ clock \in Times
      /\ h \in Hearings /\ x.inserted \in BOOLEAN /\ x.now \in Times
      /\ x.now <= clock
      /\ h.path \in paths[h.pair]
  <2>1. x \in Jobs /\ x.pc = "locking"
    BY DEF IInv, Types, Mark
  <2>2. h \in Hearings /\ x.inserted \in BOOLEAN /\ x.now \in Times
    BY <2>1 DEF Jobs
  <2> QED
    BY <2>1, <2>2 DEF IInv, Types
<1>2. h.pair \in Pairs /\ h.path \in Paths /\ h = [pair |-> h.pair, path |-> h.path]
  BY <1>1 DEF Hearings
<1>3. /\ at' = m.state.at /\ order' = m.state.order /\ crowded' = m.state.crowded
      /\ streamed' = IF x.inserted \/ m.new THEN streamed \cup {new} ELSE streamed
      /\ worker' = [worker EXCEPT ![w] = NoHearing]
      /\ UNCHANGED <<clock, stored, heard, paths>>
  BY DEF Mark, Streams, sent
<1>4. /\ sent'.at = m.state.at
      /\ sent'.order = m.state.order
      /\ sent'.crowded = m.state.crowded
  BY <1>3 DEF sent
<1>5. Good(sent)
  BY DEF IInv
<1>6. /\ Good(m.state)
      /\ m.new => Traced(m.state, h, x.now, clock)
      /\ \A g, t : t \in Times /\ Traced(sent, g, t, clock) =>
           /\ Traced(m.state, g, t, clock)
           /\ g = h /\ m.new => g \in m.state.crowded \/ clock - t >= TTL
  BY <1>1, <1>5, MarkedTraces
<1>7. /\ sent.crowded \subseteq m.state.crowded
      /\ \A p \in Pairs, a \in Paths :
           p # h.pair /\ Paired(sent, p, a) => Paired(m.state, p, a)
  BY <1>1, <1>5, MarkedOther
<1>8. paths[h.pair] \subseteq {h.path}
        => ~ m.new /\ Paired(m.state, h.pair, h.path)
  <2>1. SUFFICES ASSUME paths[h.pair] \subseteq {h.path}
                 PROVE  ~ m.new /\ Paired(m.state, h.pair, h.path)
    OBVIOUS
  <2>2. Paired(sent, h.pair, h.path)
    BY <1>2, <2>1 DEF IInv, OnePath
  <2>3. LET k == Marked(sent, [pair |-> h.pair, path |-> h.path], x.now)
        IN ~ k.new /\ Paired(k.state, h.pair, h.path)
    BY <1>1, <1>2, <1>5, <2>2, PairedMark
  <2> QED
    BY <1>2, <2>3
<1> HIDE DEF m, x, h
<1>9. Good(sent)' /\ Good(sent')
  <2>1. Good(sent')
    BY <1>4, <1>6, SameParts
  <2> QED
    BY <2>1 DEF Good
<1>10. Types'
  <2>1. worker' \in [Workers -> Jobs] /\ \A v \in Workers : worker'[v] = worker[v] \/ worker'[v].pc = "idle"
    BY <1>1, <1>3 DEF Jobs, NoHearing
  <2>2. new \in Broadcasts
    <3>1. Cardinality(streamed) \in Nat
      BY FS_CardinalityType DEF IInv, Numbered
    <3> QED
      BY <1>1, <3>1 DEF Broadcasts
  <2>3. streamed' \subseteq Broadcasts
    <3>1. streamed \subseteq Broadcasts
      BY DEF IInv, Types
    <3> HIDE DEF new
    <3> QED
      BY <1>3, <2>2, <3>1
  <2>4. ASSUME NEW v \in Workers
        PROVE  /\ worker'[v].pc # "idle"
                    => worker'[v].hearing.path \in paths'[worker'[v].hearing.pair]
               /\ worker'[v].pc = "locking" => worker'[v].now <= clock'
    BY <1>3, <2>1 DEF IInv, Types
  <2>5. clock' \in Times /\ paths' \in [Pairs -> SUBSET Paths]
    BY <1>3 DEF IInv, Types
  <2> QED
    BY <2>1, <2>3, <2>4, <2>5 DEF Types
<1>11. OnePath'
  <2>1. SUFFICES ASSUME NEW p \in Pairs, NEW a \in Paths, paths[p] \subseteq {a}
                 PROVE  Paired(sent', p, a)
    BY <1>3 DEF OnePath, Paired, Follows, Leads
  <2>2. Paired(m.state, p, a)
    <3>1. CASE p = h.pair
      <4>1. a = h.path
        BY <1>1, <2>1, <3>1
      <4> QED
        BY <1>8, <2>1, <3>1, <4>1
    <3>2. CASE p # h.pair
      <4>1. Paired(sent, p, a)
        BY <2>1 DEF IInv, OnePath
      <4> QED
        BY <1>7, <3>2, <4>1
    <3> QED
      BY <3>1, <3>2
  <2> QED
    BY <1>4, <2>2, SameParts
<1>12. \A e \in streamed' : e \in streamed \/ e = new
  BY <1>3
<1>13. new \in streamed' /\ new.repeat => m.new
  <2>1. new.repeat <=> ~ x.inserted
    OBVIOUS
  <2>2. new \notin streamed
    <3>1. SUFFICES ASSUME new \in streamed PROVE FALSE
      OBVIOUS
    <3>2. new.n < Cardinality(streamed) /\ new.n = Cardinality(streamed)
      BY <3>1 DEF IInv, Numbered
    <3>3. Cardinality(streamed) \in Nat
      BY FS_CardinalityType DEF IInv, Numbered
    <3> QED
      BY <3>2, <3>3
  <2> HIDE DEF new
  <2> QED
    BY <1>3, <2>1, <2>2
<1>14. OtherPath'
  <2>1. SUFFICES ASSUME NEW e \in streamed', e.repeat
                 PROVE  /\ e.hearing.path \in paths[e.hearing.pair]
                        /\ \E b \in paths[e.hearing.pair] : b # e.hearing.path
    BY <1>3 DEF IInv, OtherPath
  <2>2. CASE e \in streamed
    BY <2>1, <2>2 DEF IInv, OtherPath
  <2>3. CASE e = new
    <3>1. m.new /\ e.hearing = h
      BY <1>13, <2>1, <2>3
    <3>2. ~ (paths[h.pair] \subseteq {h.path})
      BY <1>8, <3>1
    <3> QED
      BY <1>1, <3>1, <3>2
  <2> HIDE DEF new
  <2> QED
    BY <1>12, <2>2, <2>3
<1>15. Numbered'
  <2>1. /\ IsFiniteSet(streamed) /\ Cardinality(streamed) \in Nat
        /\ \A e \in streamed : e.n < Cardinality(streamed) /\ e.n \in Nat
    BY FS_CardinalityType DEF IInv, Numbered, Types, Broadcasts
  <2>2. CASE streamed' = streamed
    BY <2>2 DEF IInv, Numbered
  <2>3. CASE streamed' = streamed \cup {new} /\ new \notin streamed
    <3>1. IsFiniteSet(streamed') /\ Cardinality(streamed') = Cardinality(streamed) + 1
      <4> HIDE DEF new
      <4> QED
        BY <2>1, <2>3, FS_AddElement
    <3>2. ASSUME NEW e \in streamed' PROVE e.n < Cardinality(streamed')
      <4>1. CASE e \in streamed
        BY <2>1, <3>1, <4>1
      <4>2. CASE e = new
        BY <2>1, <3>1, <4>2
      <4> HIDE DEF new
      <4> QED
        BY <1>12, <4>1, <4>2
    <3> QED
      BY <3>1, <3>2 DEF Numbered
  <2> HIDE DEF new
  <2> QED
    BY <1>3, <2>2, <2>3
<1>16. RepeatsTraced'
  <2>1. SUFFICES ASSUME NEW e \in streamed', e.repeat
                 PROVE  Traced(sent', e.hearing, e.now, clock)
    BY <1>3 DEF RepeatsTraced, Traced
  <2>2. Traced(m.state, e.hearing, e.now, clock)
    <3>1. CASE e \in streamed
      <4>1. Traced(sent, e.hearing, e.now, clock)
        BY <2>1, <3>1 DEF IInv, RepeatsTraced
      <4>2. e.now \in Times
        BY <3>1 DEF IInv, Types, Broadcasts
      <4> QED
        BY <1>6, <4>1, <4>2
    <3>2. CASE e = new
      <4>1. m.new /\ e.hearing = h /\ e.now = x.now
        BY <1>13, <2>1, <3>2
      <4> QED
        BY <1>6, <4>1
    <3> HIDE DEF new
    <3> QED
      BY <1>12, <3>1, <3>2
  <2> QED
    BY <1>4, <2>2, SameParts
<1>17. RepeatOncePerTTL'
  <2>1. SUFFICES ASSUME NEW e \in streamed', NEW g \in streamed', e.repeat, g.repeat,
                        e.hearing = g.hearing, e.n < g.n
                 PROVE  g.marked - e.now >= TTL \/ e.hearing \in m.state.crowded
    BY <1>3 DEF RepeatOncePerTTL
  <2>2. Cardinality(streamed) \in Nat /\ \A d \in streamed : d.n \in Nat /\ d.n < Cardinality(streamed)
    BY FS_CardinalityType DEF IInv, Numbered, Types, Broadcasts
  <2>3. CASE e \in streamed /\ g \in streamed
    <3>1. g.marked - e.now >= TTL \/ e.hearing \in crowded
      BY <2>1, <2>3 DEF IInv, RepeatOncePerTTL
    <3> QED
      BY <1>7, <3>1 DEF sent
  <2>4. CASE e \in streamed /\ g = new
    <3>1. m.new /\ g.hearing = h /\ g.marked = clock
      BY <1>13, <2>1, <2>4
    <3>2. Traced(sent, e.hearing, e.now, clock) /\ e.now \in Times
      BY <2>1, <2>4 DEF IInv, RepeatsTraced, Types, Broadcasts
    <3> QED
      BY <1>6, <2>1, <3>1, <3>2
  <2>5. CASE e = new
    <3>1. e.n = Cardinality(streamed) /\ g \in streamed
      <4>1. e.n = Cardinality(streamed)
        BY <2>5
      <4>2. g # new
        BY <2>1, <2>2, <2>5
      <4> HIDE DEF new
      <4> QED
        BY <1>12, <4>1, <4>2
    <3> QED
      BY <2>1, <2>2, <3>1
  <2> HIDE DEF new
  <2> QED
    BY <1>12, <2>3, <2>4, <2>5
<1> QED
  BY <1>9, <1>10, <1>11, <1>14, <1>15, <1>16, <1>17 DEF IInv

(* The strengthened invariant is inductive.                                *)
THEOREM SpecInv == Spec => []IInv
<1>1. Init => IInv
  BY InitInv
<1>2. IInv /\ [Next]_vars => IInv'
  <2> SUFFICES ASSUME IInv, [Next]_vars PROVE IInv'
    OBVIOUS
  <2>1. CASE Tick
    BY <2>1, TickInv
  <2>2. CASE \E w \in Workers, h \in Hearings : Insert(w, h)
    BY <2>2, InsertInv
  <2>3. CASE \E w \in Workers : ReadClock(w)
    BY <2>3, ReadClockInv
  <2>4. CASE \E w \in Workers : Mark(w)
    BY <2>4, MarkInv
  <2>5. CASE UNCHANGED vars
    BY <2>5 DEF vars, IInv, sent, Types, Good, OnePath, OtherPath, Numbered,
       RepeatsTraced, RepeatOncePerTTL, Paired, Follows, Leads, Traced
  <2> QED
    BY <2>1, <2>2, <2>3, <2>4, <2>5 DEF Next
<1> QED
  BY <1>1, <1>2, PTL DEF Spec

(* sentPaths.add and the eviction loop of it keep the map and the list     *)
(* alike, each key once and never more than the bound.                     *)
THEOREM AlwaysInSync == Spec => []InSync
<1>1. IInv => InSync
  <2> SUFFICES ASSUME IInv PROVE InSync
    OBVIOUS
  <2>1. /\ order \in Seq(Entries)
        /\ \A i, j \in 1..Len(order) : order[i].key = order[j].key => i = j
        /\ at = {order[i].key : i \in 1..Len(order)}
        /\ Len(order) <= MaxEntries
    BY DEF IInv, Good, sent
  <2>2. DOMAIN order = 1..Len(order) /\ Len(order) \in Nat
    BY <2>1
  <2>3. Range(order) \subseteq Entries
    BY <2>1, <2>2 DEF Range
  <2>4. Cardinality(at) = Len(order)
    <3> DEFINE f == [i \in 1..Len(order) |-> order[i].key]
    <3>0. f \in [1..Len(order) -> at] /\ \A i \in 1..Len(order) : f[i] = order[i].key
      BY <2>1
    <3>1. f \in Bijection(1..Len(order), at)
      <4> HIDE DEF f
      <4>1. IsInjective(f)
        BY <2>1, <3>0 DEF IsInjective
      <4>2. \A k \in at : \E i \in 1..Len(order) : f[i] = k
        BY <2>1, <3>0
      <4> QED
        BY <3>0, <4>1, <4>2 DEF Bijection, Injection, Surjection
    <3> HIDE DEF f
    <3>2. ExistsBijection(1..Len(order), at)
      BY <3>1 DEF ExistsBijection
    <3> QED
      BY <2>2, <3>2, FS_CountingElements
  <2>5. clock \in 0..MaxTime
    BY DEF IInv, Types, Times
  <2> QED
    BY <2>1, <2>2, <2>3, <2>4, <2>5 DEF InSync
<1> QED
  BY <1>1, SpecInv, PTL

(* MarkSent: a repeat of a pair is streamed only if the pair was heard     *)
(* over two paths, whatever other workers insert and mark meanwhile.       *)
THEOREM NoRepeatOfOnePath == Spec => []OnePathNoRepeat
<1>1. IInv => OnePathNoRepeat
  <2> SUFFICES ASSUME IInv, NEW e \in streamed, e.repeat
               PROVE  Cardinality(paths[e.hearing.pair]) > 1
    BY DEF OnePathNoRepeat
  <2> DEFINE S == paths[e.hearing.pair]
             a == e.hearing.path
  <2>1. a \in S /\ \E b \in S : b # a
    BY DEF IInv, OtherPath
  <2>2. IsFiniteSet(S)
    <3>1. e.hearing.pair \in Pairs
      BY DEF IInv, Types, Broadcasts, Hearings
    <3> QED
      BY <3>1 DEF IInv, OtherPath
  <2> HIDE DEF S, a
  <2>3. /\ IsFiniteSet(S \ {a})
        /\ Cardinality(S \ {a}) = Cardinality(S) - 1
    BY <2>1, <2>2, FS_RemoveElement
  <2>4. Cardinality(S \ {a}) # 0 /\ Cardinality(S \ {a}) \in Nat
    <3>1. S \ {a} # {}
      BY <2>1
    <3> QED
      BY <2>3, <3>1, FS_EmptySet, FS_CardinalityType
  <2>5. Cardinality(S) \in Nat
    BY <2>2, FS_CardinalityType
  <2>6. Cardinality(S) > 1
    BY <2>3, <2>4, <2>5
  <2> QED
    BY <2>6 DEF S
<1> QED
  BY <1>1, SpecInv, PTL

(* MarkSent: TTL passes between two repeats of the same hearing, unless    *)
(* the hearing had to make room in a full list.                            *)
THEOREM RepeatAfterTTL == Spec => []RepeatOncePerTTL
<1>1. IInv => RepeatOncePerTTL
  BY DEF IInv
<1> QED
  BY <1>1, SpecInv, PTL
=============================================================================
