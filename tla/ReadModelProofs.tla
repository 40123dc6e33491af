-------------------------- MODULE ReadModelProofs --------------------------
(***************************************************************************)
(* Theorems of ReadModel, for any hearings, visits, packets and bounds:    *)
(* the writers alone record every site of a packet none of whose           *)
(* statements failed (RecordedUnlessFailed); the types, and the order of   *)
(* the watermarks (TypeOK); and that trust, while it lasts, hides nothing  *)
(* that was reported (ReportedMissesHidden).                               *)
(***************************************************************************)
EXTENDS ReadModel, FiniteSetTheorems, WellFoundedInduction, TLAPS

Typed ==
  /\ observed \subseteq Hearings
  /\ message \in [Packets -> Nat]
  /\ phase \in [Writers -> Phases]
  /\ draft \in [Writers -> Nat]
  /\ seen \in [Writers -> SUBSET Hearings]
  /\ orphans \subseteq Writers
  /\ hurt \subseteq Packets

(* A statement drew its id from a sequence, for a channel with a key; the  *)
(* messages of the time before the table are stored.                       *)
Attempting ==
  /\ \A w \in Writers : phase[w] = "inserting" => keyed
  /\ \A w \in Creating : draft[w] # 0
  /\ \A h \in Legacy : message[packetOf[h]] # 0

Whole(w) == packetOf[w] \notin hurt

(* Of a whole packet no insert was refused and no statement is orphaned.   *)
NoneRefused ==
  \A w \in Writers :
    Whole(w) => w \notin orphans /\ phase[w] \notin {"refused", "falling", "unseeded",
                                                      "not stored"}

(* A hearing is committed before anything else is done for it.             *)
Committed ==
  \A h \in Hearings : Whole(h) /\ phase[h] \notin {"new", "observing"} => h \in observed

(* While an insert that may still store the message is in flight, a        *)
(* hearing its snapshot does not see has not passed its own attempt.       *)
UnseenStillToAttempt ==
  \A w \in Writers, h \in observed :
    /\ Whole(w)
    /\ packetOf[h] = packetOf[w]
    /\ phase[w] = "inserting"
    /\ message[packetOf[w]] = 0
    /\ h \notin seen[w]
    => w # h /\ phase[h] \in {"observed", "adding", "inserting"}

RecordedIsThere == \A h \in recorded : h \in Hearings /\ (Whole(h) => h \in sites)

Parts ==
  /\ NoneRefused
  /\ Committed
  /\ UnseenStillToAttempt
  /\ RecordedIsThere
  /\ RecordedUnlessFailed

IInv == Typed /\ Attempting /\ Parts

-----------------------------------------------------------------------------
(* A finite nonempty set of naturals has a largest element.                *)
LEMMA MaxExists ==
  ASSUME NEW S \in SUBSET Nat, IsFiniteSet(S), S # {}
  PROVE  Max(S) \in S /\ \A x \in S : Max(S) >= x
<1> DEFINE Bounded(X) == \E x \in X : \A y \in X : x >= y
           T == {X \in SUBSET S : X # {} /\ ~ Bounded(X)}
           R == StrictSubsetOrdering(S)
<1>1. IsWellFoundedOn(R, SUBSET S)
  BY FS_StrictSubsetOrderingWellFounded, FS_FiniteSubsetsOfFinite
<1>2. ASSUME T # {} PROVE FALSE
  <2>1. PICK X \in T : \A Y \in T : ~ (<<Y, X>> \in R)
    <3>1. T \subseteq SUBSET S
      OBVIOUS
    <3> HIDE DEF T, R
    <3> QED
      BY <1>1, <1>2, <3>1, WFMin
  <2>2. PICK x \in X : TRUE
    OBVIOUS
  <2> DEFINE Y == X \ {x}
  <2>3. <<Y, X>> \in R
    BY <2>2 DEF StrictSubsetOrdering
  <2>4. Y = {} \/ Bounded(Y)
    BY <2>1, <2>3
  <2>5. CASE Y = {}
    BY <2>2, <2>5
  <2>6. CASE Bounded(Y)
    <3>1. PICK m \in Y : \A y \in Y : m >= y
      BY <2>6
    <3>2. \A y \in X : y \in Nat /\ (y = x \/ y \in Y)
      OBVIOUS
    <3>3. Bounded(X)
      BY <3>1, <3>2
    <3> QED
      BY <3>3
  <2> QED
    BY <2>4, <2>5, <2>6
<1>3. Bounded(S)
  BY <1>2
<1> QED
  BY <1>3 DEF Max

(* The next value of the sequence is no message's, and not 0.              *)
LEMMA NextMessageType == Typed => NextMessage \in Nat \ {0}
<1> SUFFICES ASSUME Typed PROVE NextMessage \in Nat \ {0}
  OBVIOUS
<1> DEFINE M == {message[p] : p \in Packets}
           D == {draft[w] : w \in Writers}
           S == (M \cup D) \cup {0}
<1>1. IsFiniteSet(M)
  <2>1. message \in Surjection(Packets, M)
    BY DEF Typed, Surjection
  <2> QED
    BY <2>1, FS_Surjection, ReadModelAssumption
<1>2. IsFiniteSet(D)
  <2>1. draft \in Surjection(Writers, D)
    BY DEF Typed, Surjection
  <2> QED
    BY <2>1, FS_Surjection, ReadModelAssumption
<1>3. IsFiniteSet(S)
  BY <1>1, <1>2, FS_Union, FS_Singleton
<1>4. S \in SUBSET Nat /\ S # {}
  BY DEF Typed
<1>5. Max(S) \in Nat
  <2> HIDE DEF S
  <2> QED
    BY <1>3, <1>4, MaxExists
<1> QED
  BY <1>5 DEF NextMessage, Newest

(* The initial states satisfy the invariant.                               *)
LEMMA InvInit == Init => IInv
<1> SUFFICES ASSUME Init PROVE IInv
  OBVIOUS
<1> USE ReadModelAssumption DEF Init, Writers
<1>1. Cardinality(Legacy) \in Nat
  BY FS_Subset, FS_CardinalityType
<1>2. Typed
  BY <1>1 DEF Typed, Phases
<1>3. Attempting
  <2>1. \A h \in Legacy : packetOf[h] \in Packets
    OBVIOUS
  <2> QED
    BY <2>1 DEF Attempting, LegacyID, Creating
<1>4. Parts
  BY DEF Parts, NoneRefused, Committed, UnseenStillToAttempt, RecordedIsThere,
     RecordedUnlessFailed
<1> QED
  BY <1>2, <1>3, <1>4 DEF IInv

(* The jobs add sites, and change nothing else of the tables or writers.   *)
LEMMA SessionKeeps ==
  Session \/ JobFails => /\ UNCHANGED <<observed, obsId, message, writerVars, hurt>>
                         /\ sites \subseteq sites'
<1> USE DEF dataVars, writerVars, trustVars, policyVars, jobVars, history
<1>1. CASE BootBegin \/ TaskBegin
  BY <1>1 DEF BootBegin, TaskBegin
<1>2. CASE Load
  BY <1>2 DEF Load
<1>3. CASE FirstUseMessages \/ FirstUse \/ ReadObservations \/ ReadMessages
  BY <1>3 DEF FirstUseMessages, FirstUse, ReadObservations, ReadMessages, Read, ReadPast
<1>4. CASE FillByObservations \/ FillByMessages
  BY <1>4 DEF FillByObservations, FillByMessages, Fill
<1>5. CASE Save
  BY <1>5 DEF Save
<1>6. CASE Backfill
  BY <1>6 DEF Backfill, Fill
<1>7. CASE Stop \/ Repaired \/ CheckPasses \/ CheckDiffers
  BY <1>7 DEF Stop, Repaired, CheckPasses, CheckDiffers
<1>8. CASE JobFails
  BY <1>8 DEF JobFails, Fault
<1> QED
  BY <1>1, <1>2, <1>3, <1>4, <1>5, <1>6, <1>7, <1>8 DEF Session

(* Every step keeps the invariant: an insert that stores the message has   *)
(* seen every hearing that passed its own attempt.                         *)
LEMMA InvStep == IInv /\ [Next]_vars => IInv'
<1> SUFFICES ASSUME IInv, [Next]_vars PROVE IInv'
  OBVIOUS
<1>0. /\ Hearings \subseteq Writers /\ Legacy \subseteq Hearings
      /\ \A w \in Writers : packetOf[w] \in Packets
      /\ Hearings \cap Decrypters = {}
  BY ReadModelAssumption DEF Writers
<1>n. NextMessage \in Nat \ {0}
  BY NextMessageType DEF IInv
<1> USE <1>0 DEF IInv, dataVars, writerVars, trustVars, policyVars, jobVars, history, Moves,
                 Ends, Fault, Invalidate
<1>1. ASSUME NEW h \in Hearings, Observe(h) PROVE IInv'
  <2>1. Typed'
    BY <1>1 DEF Observe, Typed, Phases
  <2>2. Attempting'
    BY <1>1 DEF Observe, Typed, Attempting, Creating
  <2>3. NoneRefused'
    BY <1>1 DEF Observe, Parts, NoneRefused, Whole, Typed
  <2>4. Committed'
    BY <1>1 DEF Observe, Parts, Committed, Whole, Typed
  <2>5. UnseenStillToAttempt'
    BY <1>1 DEF Observe, Parts, UnseenStillToAttempt, Whole, Typed
  <2>6. RecordedIsThere'
    BY <1>1 DEF Observe, Parts, RecordedIsThere, Whole, Typed, Stored
  <2>7. RecordedUnlessFailed'
    BY <1>1 DEF Observe, Parts, RecordedUnlessFailed, Whole, Typed, Stored
  <2> QED
    BY <2>1, <2>2, <2>3, <2>4, <2>5, <2>6, <2>7 DEF Parts
<1>2. ASSUME NEW h \in Hearings, ObserveCommit(h) PROVE IInv'
  <2>1. Typed'
    BY <1>2 DEF ObserveCommit, Typed, Phases
  <2>2. Attempting'
    BY <1>2 DEF ObserveCommit, Typed, Attempting, Creating
  <2>3. NoneRefused'
    BY <1>2 DEF ObserveCommit, Parts, NoneRefused, Whole, Typed
  <2>4. Committed'
    BY <1>2 DEF ObserveCommit, Parts, Committed, Whole, Typed
  <2>5. UnseenStillToAttempt'
    <3>1. phase[h] = "observing" /\ observed' = observed \cup {h}
      BY <1>2 DEF ObserveCommit
    <3>2. UNCHANGED <<message, hurt>> /\ seen' = [seen EXCEPT ![h] = {}]
      BY <1>2 DEF ObserveCommit
    <3>3. packetOf[h] \notin hurt => phase' = [phase EXCEPT ![h] = "observed"]
      BY <1>2 DEF ObserveCommit, Parts, NoneRefused, Whole
    <3>4. \A w \in Writers : phase'[w] = "inserting" =>
            w # h /\ phase[w] = "inserting" /\ seen'[w] = seen[w]
      BY <1>2, <3>1, <3>2 DEF ObserveCommit, Typed
    <3>5. \A x \in Writers : x # h => phase'[x] = phase[x]
      BY <1>2 DEF ObserveCommit, Typed
    <3>6. packetOf[h] \notin hurt => phase'[h] = "observed"
      BY <3>3 DEF Typed
    <3> QED
      BY <3>1, <3>2, <3>4, <3>5, <3>6 DEF Parts, UnseenStillToAttempt, Whole, Typed
  <2>6. RecordedIsThere'
    BY <1>2 DEF ObserveCommit, Parts, RecordedIsThere, Whole, Typed, Stored
  <2>7. RecordedUnlessFailed'
    BY <1>2 DEF ObserveCommit, Parts, NoneRefused, RecordedUnlessFailed, Whole, Typed,
       Stored
  <2> QED
    BY <2>1, <2>2, <2>3, <2>4, <2>5, <2>6, <2>7 DEF Parts
<1>3. ASSUME NEW h \in Hearings, AddFirst(h) PROVE IInv'
  <2>1. Typed'
    BY <1>3 DEF AddFirst, Typed, Phases
  <2>2. Attempting'
    BY <1>3 DEF AddFirst, Typed, Attempting, Creating
  <2>3. NoneRefused'
    BY <1>3 DEF AddFirst, Parts, NoneRefused, Whole, Typed
  <2>4. Committed'
    BY <1>3 DEF AddFirst, Parts, Committed, Whole, Typed
  <2>5. UnseenStillToAttempt'
    BY <1>3 DEF AddFirst, Parts, UnseenStillToAttempt, Whole, Typed
  <2>6. RecordedIsThere'
    BY <1>3 DEF AddFirst, Parts, RecordedIsThere, Whole, Typed, Stored
  <2>7. RecordedUnlessFailed'
    BY <1>3 DEF AddFirst, Parts, RecordedUnlessFailed, Whole, Typed, Stored
  <2> QED
    BY <2>1, <2>2, <2>3, <2>4, <2>5, <2>6, <2>7 DEF Parts
<1>4. ASSUME NEW h \in Hearings, AddFirstFails(h) PROVE IInv'
  <2>1. Typed'
    BY <1>4 DEF AddFirstFails, Typed, Phases
  <2>2. Attempting'
    BY <1>4 DEF AddFirstFails, Typed, Attempting, Creating
  <2>3. NoneRefused'
    BY <1>4 DEF AddFirstFails, Parts, NoneRefused, Whole, Typed
  <2>4. Committed'
    BY <1>4 DEF AddFirstFails, Parts, Committed, Whole, Typed
  <2>5. UnseenStillToAttempt'
    BY <1>4 DEF AddFirstFails, Parts, UnseenStillToAttempt, Whole, Typed
  <2>6. RecordedIsThere'
    BY <1>4 DEF AddFirstFails, Parts, RecordedIsThere, Whole, Typed, Stored
  <2>7. RecordedUnlessFailed'
    BY <1>4 DEF AddFirstFails, Parts, RecordedUnlessFailed, Whole, Typed, Stored
  <2> QED
    BY <2>1, <2>2, <2>3, <2>4, <2>5, <2>6, <2>7 DEF Parts
<1>5. ASSUME NEW h \in Hearings, NoKey(h) PROVE IInv'
  <2>1. Typed'
    BY <1>5 DEF NoKey, Typed, Phases, AfterAttempt
  <2>2. Attempting'
    BY <1>5 DEF NoKey, Typed, Attempting, Creating, AfterAttempt
  <2>3. NoneRefused'
    BY <1>5 DEF NoKey, Parts, NoneRefused, Whole, Typed, AfterAttempt
  <2>4. Committed'
    BY <1>5 DEF NoKey, Parts, Committed, Whole, Typed, AfterAttempt
  <2>5. UnseenStillToAttempt'
    <3>1. ~keyed /\ UNCHANGED <<dataVars, seen, hurt>>
      BY <1>5 DEF NoKey
    <3>2. \A w \in Writers : phase'[w] = "inserting" => phase[w] = "inserting"
      BY <1>5 DEF NoKey, AfterAttempt, Typed
    <3>3. \A w \in Writers : phase[w] # "inserting"
      BY <3>1 DEF Attempting
    <3> QED
      BY <3>2, <3>3 DEF UnseenStillToAttempt
  <2>6. RecordedIsThere'
    BY <1>5 DEF NoKey, Parts, RecordedIsThere, Whole, Typed, Stored, AfterAttempt
  <2>7. RecordedUnlessFailed'
    BY <1>5 DEF NoKey, Parts, RecordedIsThere, RecordedUnlessFailed, Whole, Typed,
       Stored, AfterAttempt
  <2> QED
    BY <2>1, <2>2, <2>3, <2>4, <2>5, <2>6, <2>7 DEF Parts
<1>6. ASSUME NEW h \in Hearings, AddAgain(h) PROVE IInv'
  <2>1. Typed'
    BY <1>6 DEF AddAgain, Typed, Phases
  <2>2. Attempting'
    BY <1>6 DEF AddAgain, Typed, Attempting, Creating
  <2>3. NoneRefused'
    BY <1>6 DEF AddAgain, Parts, NoneRefused, Whole, Typed
  <2>4. Committed'
    BY <1>6 DEF AddAgain, Parts, Committed, Whole, Typed
  <2>5. UnseenStillToAttempt'
    BY <1>6 DEF AddAgain, Parts, UnseenStillToAttempt, Whole, Typed
  <2>6. RecordedIsThere'
    BY <1>6 DEF AddAgain, Parts, RecordedIsThere, Whole, Typed, Stored
  <2>7. RecordedUnlessFailed'
    BY <1>6 DEF AddAgain, Parts, RecordedUnlessFailed, Whole, Typed, Stored
  <2> QED
    BY <2>1, <2>2, <2>3, <2>4, <2>5, <2>6, <2>7 DEF Parts
<1>7. ASSUME NEW h \in Hearings, AddAgainFails(h) PROVE IInv'
  <2>1. Typed'
    BY <1>7 DEF AddAgainFails, Typed, Phases
  <2>2. Attempting'
    BY <1>7 DEF AddAgainFails, Typed, Attempting, Creating
  <2>3. NoneRefused'
    BY <1>7 DEF AddAgainFails, Parts, NoneRefused, Whole, Typed
  <2>4. Committed'
    BY <1>7 DEF AddAgainFails, Parts, Committed, Whole, Typed
  <2>5. UnseenStillToAttempt'
    BY <1>7 DEF AddAgainFails, Parts, UnseenStillToAttempt, Whole, Typed
  <2>6. RecordedIsThere'
    BY <1>7 DEF AddAgainFails, Parts, RecordedIsThere, Whole, Typed, Stored
  <2>7. RecordedUnlessFailed'
    BY <1>7 DEF AddAgainFails, Parts, RecordedUnlessFailed, Whole, Typed, Stored
  <2> QED
    BY <2>1, <2>2, <2>3, <2>4, <2>5, <2>6, <2>7 DEF Parts
<1>8. ASSUME NEW w \in Writers, UpsertChannelFails(w) PROVE IInv'
  <2>1. Typed'
    BY <1>8 DEF UpsertChannelFails, Typed, Phases, AfterAttempt
  <2>2. Attempting'
    BY <1>8 DEF UpsertChannelFails, Typed, Attempting, Creating, AfterAttempt
  <2>3. NoneRefused'
    BY <1>8 DEF UpsertChannelFails, Parts, NoneRefused, Whole, Typed, AfterAttempt
  <2>4. Committed'
    BY <1>8 DEF UpsertChannelFails, Parts, Committed, Whole, Typed, AfterAttempt
  <2>5. UnseenStillToAttempt'
    BY <1>8 DEF UpsertChannelFails, Parts, UnseenStillToAttempt, Whole, Typed,
       AfterAttempt
  <2>6. RecordedIsThere'
    BY <1>8 DEF UpsertChannelFails, Parts, RecordedIsThere, Whole, Typed, Stored,
       AfterAttempt
  <2>7. RecordedUnlessFailed'
    BY <1>8 DEF UpsertChannelFails, Parts, RecordedUnlessFailed, Whole, Typed, Stored,
       AfterAttempt
  <2> QED
    BY <2>1, <2>2, <2>3, <2>4, <2>5, <2>6, <2>7 DEF Parts
<1>9. ASSUME NEW w \in Writers, InsertBegin(w) PROVE IInv'
  <2>1. Typed'
    BY <1>9, <1>n DEF InsertBegin, Typed, Phases, HearingsOf
  <2>2. Attempting'
    BY <1>9, <1>n DEF InsertBegin, Typed, Attempting, Creating
  <2>3. NoneRefused'
    BY <1>9 DEF InsertBegin, Parts, NoneRefused, Whole, Typed
  <2>4. Committed'
    BY <1>9 DEF InsertBegin, Parts, Committed, Whole, Typed
  <2>5. UnseenStillToAttempt'
    BY <1>9 DEF InsertBegin, Parts, Committed, UnseenStillToAttempt, Whole, Typed,
       HearingsOf
  <2>6. RecordedIsThere'
    BY <1>9 DEF InsertBegin, Parts, RecordedIsThere, Whole, Typed, Stored
  <2>7. RecordedUnlessFailed'
    BY <1>9 DEF InsertBegin, Parts, RecordedUnlessFailed, Whole, Typed, Stored
  <2> QED
    BY <2>1, <2>2, <2>3, <2>4, <2>5, <2>6, <2>7 DEF Parts
<1>10. ASSUME NEW w \in Writers, InsertCommit(w) PROVE IInv'
  <2>1. CASE message[packetOf[w]] = 0
    <3>1. /\ message' = [message EXCEPT ![packetOf[w]] = draft[w]]
          /\ sites' = sites \cup seen[w]
          /\ phase' = [phase EXCEPT ![w] = "done"]
          /\ draft[w] \in Nat \ {0}
          /\ phase[w] = "inserting"
      BY <1>10, <2>1 DEF InsertCommit, Typed, Attempting, Creating
    <3>2. /\ UNCHANGED <<observed, obsId, recorded, keyed, hurt>>
          /\ orphans' = orphans \ {w}
          /\ draft' = [draft EXCEPT ![w] = 0]
          /\ seen' = [seen EXCEPT ![w] = {}]
      BY <1>10 DEF InsertCommit
    <3>3. Typed'
      BY <3>1, <3>2 DEF Typed, Phases
    <3>4. Attempting'
      BY <3>1, <3>2 DEF Typed, Attempting, Creating
    <3>5. NoneRefused' /\ RecordedIsThere'
      BY <3>1, <3>2 DEF Parts, NoneRefused, RecordedIsThere, Whole, Typed
    <3>6. Committed'
      BY <3>1, <3>2 DEF Parts, Committed, Whole, Typed
    <3>7. UnseenStillToAttempt'
      BY <3>1, <3>2 DEF Parts, UnseenStillToAttempt, Whole, Typed
    <3>8. ASSUME NEW h \in Hearings \ Legacy, phase'[h] = "done", Stored(h)',
                 packetOf[h] \notin hurt'
          PROVE  h \in sites'
      <4>1. CASE packetOf[h] = packetOf[w]
        <5>1. h \in seen[w]
          BY <2>1, <3>1, <3>2, <3>8, <4>1 DEF Parts, UnseenStillToAttempt, Whole, Typed,
             Stored
        <5> QED
          BY <3>1, <5>1
      <4>2. CASE packetOf[h] # packetOf[w]
        <5>1. phase[h] = "done" /\ Stored(h)
          BY <3>1, <3>2, <3>8, <4>2 DEF Typed, Stored
        <5> QED
          BY <3>1, <3>2, <3>8, <5>1 DEF Parts, RecordedUnlessFailed
      <4> QED
        BY <4>1, <4>2
    <3>9. RecordedUnlessFailed'
      BY <3>8 DEF RecordedUnlessFailed
    <3> QED
      BY <3>3, <3>4, <3>5, <3>6, <3>7, <3>9 DEF Parts
  <2>2. CASE message[packetOf[w]] # 0
    <3>1. /\ phase' = [phase EXCEPT ![w] = IF w \in orphans THEN "done"
                                              ELSE AfterAttempt(w)]
          /\ UNCHANGED <<observed, message, sites, recorded, keyed, hurt>>
          /\ orphans' = orphans \ {w}
          /\ draft' = [draft EXCEPT ![w] = 0]
          /\ seen' = [seen EXCEPT ![w] = {}]
          /\ phase[w] = "inserting"
      BY <1>10, <2>2 DEF InsertCommit
    <3>2. phase'[w] \in {"done", "adding again"}
      BY <3>1 DEF AfterAttempt, Typed
    <3>3. Typed' /\ Attempting'
      BY <3>1, <3>2 DEF Typed, Phases, Attempting, Creating
    <3>4. NoneRefused' /\ RecordedIsThere'
      BY <3>1, <3>2 DEF Parts, NoneRefused, RecordedIsThere, Whole, Typed
    <3>5. Committed'
      BY <3>1, <3>2 DEF Parts, Committed, Whole, Typed
    <3>6. UnseenStillToAttempt'
      BY <2>2, <3>1, <3>2 DEF Parts, UnseenStillToAttempt, Whole, Typed
    <3>7. RecordedUnlessFailed'
      BY <3>1 DEF Parts, NoneRefused, RecordedIsThere, RecordedUnlessFailed, Whole,
         Typed, Stored, AfterAttempt
    <3> QED
      BY <3>3, <3>4, <3>5, <3>6, <3>7 DEF Parts
  <2> QED
    BY <2>1, <2>2
<1>11. ASSUME NEW w \in Writers, InsertFails(w) PROVE IInv'
  <2>1. PICK to \in {"refused", "done"} : phase' = [phase EXCEPT ![w] = to]
    BY <1>11 DEF InsertFails
  <2>2. /\ UNCHANGED <<observed, message, sites, recorded, keyed>>
        /\ hurt' = hurt \cup {packetOf[w]}
        /\ orphans' = orphans \ {w}
        /\ draft' = [draft EXCEPT ![w] = 0]
        /\ seen' = [seen EXCEPT ![w] = {}]
    BY <1>11 DEF InsertFails
  <2>3. Typed' /\ Attempting'
    BY <2>1, <2>2 DEF Typed, Phases, Attempting, Creating
  <2>4. NoneRefused' /\ Committed' /\ RecordedIsThere'
    BY <2>1, <2>2 DEF Parts, NoneRefused, Committed, RecordedIsThere, Whole, Typed
  <2>5. UnseenStillToAttempt'
    BY <2>1, <2>2 DEF Parts, UnseenStillToAttempt, Whole, Typed
  <2>6. RecordedUnlessFailed'
    BY <2>1, <2>2 DEF Parts, RecordedUnlessFailed, Typed, Stored
  <2> QED
    BY <2>3, <2>4, <2>5, <2>6 DEF Parts
<1>12. ASSUME NEW w \in Writers, FallbackBegin(w) PROVE IInv'
  <2>1. Typed'
    BY <1>12, <1>n DEF FallbackBegin, Typed, Phases
  <2>2. Attempting'
    BY <1>12, <1>n DEF FallbackBegin, Typed, Attempting, Creating
  <2>3. NoneRefused'
    BY <1>12 DEF FallbackBegin, Parts, NoneRefused, Whole, Typed
  <2>4. Committed'
    BY <1>12 DEF FallbackBegin, Parts, Committed, Whole, Typed
  <2>5. UnseenStillToAttempt'
    BY <1>12 DEF FallbackBegin, Parts, UnseenStillToAttempt, Whole, Typed
  <2>6. RecordedIsThere'
    BY <1>12 DEF FallbackBegin, Parts, RecordedIsThere, Whole, Typed, Stored
  <2>7. RecordedUnlessFailed'
    BY <1>12 DEF FallbackBegin, Parts, RecordedUnlessFailed, Whole, Typed, Stored
  <2> QED
    BY <2>1, <2>2, <2>3, <2>4, <2>5, <2>6, <2>7 DEF Parts
<1>13. ASSUME NEW w \in Writers, FallbackCommit(w) PROVE IInv'
  <2>1. PICK to \in {"unseeded", "not stored", "done"} : phase' = [phase EXCEPT ![w] = to]
    BY <1>13 DEF FallbackCommit
  <2>2. /\ UNCHANGED <<observed, sites, recorded, keyed, hurt>>
        /\ orphans' = orphans \ {w}
        /\ draft' = [draft EXCEPT ![w] = 0]
        /\ seen' = [seen EXCEPT ![w] = {}]
        /\ phase[w] = "falling"
    BY <1>13 DEF FallbackCommit
  <2>3. /\ message' \in [Packets -> Nat]
        /\ \A p \in Packets : message[p] # 0 => message'[p] # 0
        /\ \A p \in Packets \ {packetOf[w]} : message'[p] = message[p]
    BY <1>13 DEF FallbackCommit, Typed
  <2>4. packetOf[w] \in hurt
    BY <2>2 DEF Parts, NoneRefused, Whole
  <2>5. Typed' /\ Attempting'
    BY <2>1, <2>2, <2>3 DEF Typed, Phases, Attempting, Creating
  <2>6. NoneRefused' /\ Committed' /\ RecordedIsThere'
    <3>1. NoneRefused'
      BY <2>1, <2>2, <2>4 DEF Parts, NoneRefused, Whole, Typed
    <3>2. Committed'
      BY <2>1, <2>2, <2>4 DEF Parts, Committed, Whole, Typed
    <3>3. RecordedIsThere'
      BY <2>2 DEF Parts, RecordedIsThere, Whole
    <3> QED
      BY <3>1, <3>2, <3>3
  <2>7. UnseenStillToAttempt'
    BY <2>1, <2>2, <2>3, <2>4 DEF Parts, UnseenStillToAttempt, Whole, Typed
  <2>8. RecordedUnlessFailed'
    BY <2>1, <2>2, <2>3, <2>4 DEF Parts, RecordedUnlessFailed, Typed, Stored
  <2> QED
    BY <2>5, <2>6, <2>7, <2>8 DEF Parts
<1>14. ASSUME NEW w \in Writers, FallbackFails(w) PROVE IInv'
  <2>1. Typed'
    BY <1>14 DEF FallbackFails, Typed, Phases
  <2>2. Attempting'
    BY <1>14 DEF FallbackFails, Typed, Attempting, Creating
  <2>3. NoneRefused'
    BY <1>14 DEF FallbackFails, Parts, NoneRefused, Whole, Typed
  <2>4. Committed'
    BY <1>14 DEF FallbackFails, Parts, Committed, Whole, Typed
  <2>5. UnseenStillToAttempt'
    BY <1>14 DEF FallbackFails, Parts, UnseenStillToAttempt, Whole, Typed
  <2>6. RecordedIsThere'
    BY <1>14 DEF FallbackFails, Parts, RecordedIsThere, Whole, Typed, Stored
  <2>7. RecordedUnlessFailed'
    BY <1>14 DEF FallbackFails, Parts, RecordedUnlessFailed, Whole, Typed, Stored
  <2> QED
    BY <2>1, <2>2, <2>3, <2>4, <2>5, <2>6, <2>7 DEF Parts
<1>15. ASSUME NEW w \in Writers, ReportFallback(w) PROVE IInv'
  <2>1. Typed'
    BY <1>15 DEF ReportFallback, Typed, Phases, AfterAttempt
  <2>2. Attempting'
    BY <1>15 DEF ReportFallback, Typed, Attempting, Creating, AfterAttempt
  <2>3. NoneRefused'
    BY <1>15 DEF ReportFallback, Parts, NoneRefused, Whole, Typed, AfterAttempt
  <2>4. Committed'
    BY <1>15 DEF ReportFallback, Parts, Committed, NoneRefused, Whole, Typed,
       AfterAttempt
  <2>5. UnseenStillToAttempt'
    BY <1>15 DEF ReportFallback, Parts, UnseenStillToAttempt, Whole, Typed, AfterAttempt
  <2>6. RecordedIsThere'
    BY <1>15 DEF ReportFallback, Parts, RecordedIsThere, Whole, Typed, Stored,
       AfterAttempt
  <2>7. RecordedUnlessFailed'
    BY <1>15 DEF ReportFallback, Parts, RecordedIsThere, NoneRefused,
       RecordedUnlessFailed, Whole, Typed, Stored, AfterAttempt
  <2> QED
    BY <2>1, <2>2, <2>3, <2>4, <2>5, <2>6, <2>7 DEF Parts
<1>16. ASSUME NEW w \in Writers, OrphanAborts(w) PROVE IInv'
  <2>1. Typed'
    BY <1>16 DEF OrphanAborts, Typed, Phases
  <2>2. Attempting'
    BY <1>16 DEF OrphanAborts, Typed, Attempting, Creating
  <2>3. NoneRefused'
    BY <1>16 DEF OrphanAborts, Parts, NoneRefused, Whole, Typed
  <2>4. Committed'
    BY <1>16 DEF OrphanAborts, Parts, Committed, NoneRefused, Whole, Typed
  <2>5. UnseenStillToAttempt'
    BY <1>16 DEF OrphanAborts, Parts, NoneRefused, UnseenStillToAttempt, Whole, Typed
  <2>6. RecordedIsThere'
    BY <1>16 DEF OrphanAborts, Parts, RecordedIsThere, Whole, Typed, Stored
  <2>7. RecordedUnlessFailed'
    BY <1>16 DEF OrphanAborts, Parts, NoneRefused, RecordedUnlessFailed, Whole, Typed,
       Stored
  <2> QED
    BY <2>1, <2>2, <2>3, <2>4, <2>5, <2>6, <2>7 DEF Parts
<1>17. CASE ImportKey
  BY <1>17 DEF ImportKey, Typed, Attempting, Creating, Parts, NoneRefused, Committed,
     UnseenStillToAttempt, RecordedIsThere, RecordedUnlessFailed, Whole, Stored, Typed
<1>18. CASE Session \/ JobFails
  <2>1. UNCHANGED <<observed, obsId, message, writerVars, hurt>> /\ sites \subseteq sites'
    BY <1>18, SessionKeeps
  <2> QED
    BY <2>1 DEF Typed, Attempting, Creating, Parts, NoneRefused, Committed,
       UnseenStillToAttempt, RecordedIsThere, RecordedUnlessFailed, Whole, Stored, Typed
<1>19. CASE Crash \/ Rebuild
  <2>1. hurt' = Packets
    BY <1>19 DEF Crash, Rebuild, Typed
  <2>2. Typed'
    BY <1>19, <2>1 DEF Crash, Rebuild, Typed, Phases, Creating, Observing
  <2>3. Attempting'
    BY <1>19 DEF Crash, Rebuild, Typed, Attempting, Creating, UnderWay, Observing
  <2>4. \A w \in Writers : ~ Whole(w)'
    BY <2>1 DEF Whole
  <2>5. recorded' \subseteq Hearings
    BY <1>19 DEF Crash, Rebuild, Parts, RecordedIsThere
  <2> QED
    BY <2>2, <2>3, <2>4, <2>5 DEF Parts, NoneRefused, Committed, UnseenStillToAttempt,
       RecordedIsThere, RecordedUnlessFailed, Whole
<1>20. CASE UNCHANGED vars
  BY <1>20 DEF vars, Typed, Attempting, Creating, Parts, NoneRefused, Committed,
     UnseenStillToAttempt, RecordedIsThere, RecordedUnlessFailed, Whole, Stored, Typed
<1> QED
  BY <1>1, <1>2, <1>3, <1>4, <1>5, <1>6, <1>7, <1>8, <1>9, <1>10, <1>11, <1>12, <1>13,
     <1>14,
     <1>15, <1>16, <1>17, <1>18, <1>19, <1>20 DEF Next, Handle, Hearing, Attempt

(* A hearing whose handler is done, of a packet none of whose statements   *)
(* failed, is in the table if its message is stored, for any number of     *)
(* lanes and visits of the backfill (StoreGroupText's siteRecorded).       *)
THEOREM RecordedTheorem == Spec => []RecordedUnlessFailed
<1>1. IInv => RecordedUnlessFailed
  BY DEF IInv, Parts
<1> QED
  BY InvInit, InvStep, <1>1, PTL DEF Spec

-----------------------------------------------------------------------------
(* Types, and that a report is of a pair whose rows are there.             *)

CmiState ==
  [found : BOOLEAN, maxID : Nat, filledTo : Nat, complete : BOOLEAN, obsPrev : Nat,
   obsHi : Nat, msgPrev : Nat, msgHi : Nat, verified : BOOLEAN]
CmiJob ==
  [mode : {"none", "boot", "task"}, step : Steps, obsHi : Nat, msgHi : Nat,
   repairs : BOOLEAN, verifying : BOOLEAN]

JobTypes ==
  /\ obsId \in [Hearings -> Nat]
  /\ state \in CmiState
  /\ job \in CmiJob
  /\ {keyed, earned, dropped, behind, moved, booted} \subseteq BOOLEAN
  /\ dirty \in 0..DropAfterDirty /\ clean \in 0..RestoreAfterClean
  /\ reported \cup aged \cup overtaken \subseteq Writers
  /\ recorded \subseteq Hearings
  /\ faults \in 0..MaxFaults

Due == {h \in observed : message[packetOf[h]] # 0}

Rows ==
  /\ \A h \in observed : phase[h] \notin {"new", "observing"}
  /\ \A w \in Writers : seen[w] \subseteq HearingsOf(packetOf[w])
  /\ sites \subseteq Due
  /\ reported \subseteq Due
  /\ orphans \cup aged \subseteq Observing \cup Creating

(* A watermark is an id that was read.                                     *)
ReachedByObservations(n) == n = 0 \/ \E h \in observed : n = obsId[h]
ReachedByMessages(n) == n = 0 \/ \E p \in Packets : n = message[p]

Marks ==
  /\ ReachedByObservations(state.obsHi) /\ ReachedByObservations(job.obsHi)
  /\ ReachedByMessages(state.msgHi) /\ ReachedByMessages(job.msgHi)
  /\ state.obsPrev <= state.obsHi /\ state.msgPrev <= state.msgHi
  /\ ~state.complete => state.filledTo <= state.maxID

(* The steps of a session after its two reads of the newest ids, and after *)
(* it saved them.                                                          *)
AfterObservations == {"reading", "filling observations", "filling messages", "saving"}
AfterMessages == AfterObservations \ {"reading"}
AfterSave == {"backfilling", "stopping", "repaired", "checking"}

Stages ==
  /\ job.step \in AfterObservations \cup AfterSave \cup {"begun"} => state.found
  /\ job.step \in AfterObservations => state.obsHi <= job.obsHi
  /\ job.step \in AfterMessages => state.msgHi <= job.msgHi
  /\ job.step \in {"repaired", "checking"} => state.complete
  /\ job.step = "checking" => job.verifying
  /\ job.step \in {"closed", "init", "first use"} => ~job.verifying
  /\ job.verifying => state.complete /\ booted
  /\ ~booted => ~earned
  /\ moved => behind

-----------------------------------------------------------------------------
(* What the next sessions will look at.                                    *)

Ahead(n) == ~state.complete /\ state.filledTo < n /\ n <= state.maxID
ToCome(n) == n > state.msgPrev \/ Ahead(n)
Passed(p) == \E w \in overtaken : packetOf[w] = p
AllToCome == \A p \in Packets : message[p] # 0 => ToCome(message[p]) \/ Passed(p)

(* A statement that began after the last read of its ids will commit an id *)
(* above what was read then, and one that was in flight at that read only  *)
(* an id above what was read before.                                       *)
ObservationsInFlight ==
  \A h \in Observing :
    /\ h \notin aged /\ state.found => obsId[h] > state.obsHi
    /\ h \notin aged /\ job.step \in AfterObservations => obsId[h] > job.obsHi
    /\ h \in aged \ overtaken /\ state.found =>
         /\ job.step \in AfterObservations => obsId[h] > state.obsHi
         /\ job.step \in AfterSave => obsId[h] > state.obsPrev
         /\ obsId[h] > state.obsPrev \/ AllToCome

MessagesInFlight ==
  \A w \in Creating :
    /\ w \notin aged /\ state.found => draft[w] > state.msgHi
    /\ w \notin aged /\ job.step \in AfterMessages \cup {"first use"} => draft[w] > job.msgHi
    /\ w \in aged \ overtaken /\ state.found =>
         /\ job.step \in AfterMessages => draft[w] > state.msgHi
         /\ job.step \in AfterSave => draft[w] > state.msgPrev
         /\ ToCome(draft[w])

(* Whatever is missing is in a range that is still to be filled.           *)
Covered(h) ==
  \/ Ahead(message[packetOf[h]])
  \/ obsId[h] > IF job.step \in {"filling messages", "saving"} THEN state.obsHi
                                                                ELSE state.obsPrev
  \/ message[packetOf[h]] > IF job.step = "saving" THEN state.msgHi ELSE state.msgPrev

MissesCovered == state.found => \A h \in Missing : Overtaken(h) \/ Covered(h)

(* What was reported before a session that nothing was reported since is   *)
(* below what the session read, and filled once it is past the range.      *)
Filling(h) ==
  /\ job.step \in AfterObservations => obsId[h] <= job.obsHi
  /\ job.step \in AfterMessages => message[packetOf[h]] <= job.msgHi
  /\ job.step = "filling messages" => ToCome(message[packetOf[h]])
  /\ job.step \in {"saving", "backfilling"} => Ahead(message[packetOf[h]])
  /\ job.step \notin {"repaired", "checking"} /\ ~job.verifying

ReportsFilled == ~moved => \A h \in reported \cap Missing : Overtaken(h) \/ Filling(h)

TrustRepaired == earned /\ ~behind => \A h \in reported \cap Missing : Overtaken(h)

TrustParts ==
  /\ JobTypes
  /\ Rows
  /\ Marks
  /\ Stages
  /\ ObservationsInFlight
  /\ MessagesInFlight
  /\ MissesCovered
  /\ ReportsFilled
  /\ TrustRepaired

TrustInv == IInv /\ TrustParts

-----------------------------------------------------------------------------
(* What the newest and the first ids are.                                  *)

LEMMA MinExists ==
  ASSUME NEW S \in SUBSET Nat, IsFiniteSet(S), S # {}
  PROVE  Min(S) \in S /\ \A x \in S : Min(S) <= x
<1> DEFINE Bounded(X) == \E x \in X : \A y \in X : x <= y
           T == {X \in SUBSET S : X # {} /\ ~ Bounded(X)}
           R == StrictSubsetOrdering(S)
<1>1. IsWellFoundedOn(R, SUBSET S)
  BY FS_StrictSubsetOrderingWellFounded, FS_FiniteSubsetsOfFinite
<1>2. ASSUME T # {} PROVE FALSE
  <2>1. PICK X \in T : \A Y \in T : ~ (<<Y, X>> \in R)
    <3>1. T \subseteq SUBSET S
      OBVIOUS
    <3> HIDE DEF T, R
    <3> QED
      BY <1>1, <1>2, <3>1, WFMin
  <2>2. PICK x \in X : TRUE
    OBVIOUS
  <2> DEFINE Y == X \ {x}
  <2>3. <<Y, X>> \in R
    BY <2>2 DEF StrictSubsetOrdering
  <2>4. Y = {} \/ Bounded(Y)
    BY <2>1, <2>3
  <2>5. CASE Y = {}
    BY <2>2, <2>5
  <2>6. CASE Bounded(Y)
    <3>1. PICK m \in Y : \A y \in Y : m <= y
      BY <2>6
    <3>2. \A y \in X : y \in Nat /\ (y = x \/ y \in Y)
      OBVIOUS
    <3>3. Bounded(X)
      BY <3>1, <3>2
    <3> QED
      BY <3>3
  <2> QED
    BY <2>4, <2>5, <2>6
<1>3. Bounded(S)
  BY <1>2
<1> QED
  BY <1>3 DEF Min

LEMMA OfTwo ==
  ASSUME NEW a \in Int, NEW b \in Int
  PROVE  /\ Max({a, b}) \in {a, b} /\ Max({a, b}) >= a /\ Max({a, b}) >= b
         /\ Min({a, b}) \in {a, b} /\ Min({a, b}) <= a /\ Min({a, b}) <= b
<1>1. \E x \in {a, b} : \A y \in {a, b} : x >= y
  BY a >= b \/ b >= a
<1>2. \E x \in {a, b} : \A y \in {a, b} : x <= y
  BY a >= b \/ b >= a
<1> QED
  BY <1>1, <1>2 DEF Max, Min

LEMMA NewestIs ==
  ASSUME NEW S \in SUBSET Nat, IsFiniteSet(S)
  PROVE  /\ Newest(S) \in Nat /\ Newest(S) \in S \cup {0}
         /\ \A x \in S : x <= Newest(S)
<1> DEFINE T == S \cup {0}
<1>1. T \in SUBSET Nat /\ T # {} /\ IsFiniteSet(T)
  BY FS_AddElement
<1>2. Max(T) \in T /\ \A x \in T : Max(T) >= x
  <2> HIDE DEF T
  <2> QED
    BY <1>1, MaxExists
<1>3. \A x \in S : x \in T /\ x \in Nat
  OBVIOUS
<1>4. Max(T) \in Nat
  BY <1>1, <1>2
<1> QED
  BY <1>2, <1>3, <1>4 DEF Newest

LEMMA NumbersFinite ==
  ASSUME Typed, obsId \in [Hearings -> Nat]
  PROVE  /\ IsFiniteSet({obsId[h] : h \in observed}) /\ IsFiniteSet({obsId[h] : h \in Hearings})
         /\ IsFiniteSet({message[p] : p \in Packets}) /\ IsFiniteSet({draft[w] : w \in Writers})
<1>1. /\ IsFiniteSet(Hearings) /\ IsFiniteSet(observed) /\ IsFiniteSet(Packets)
      /\ IsFiniteSet(Writers)
  BY FS_Subset, ReadModelAssumption DEF Writers, Typed
<1>2. \A S : \A f : IsFiniteSet(S) => IsFiniteSet({f[x] : x \in S})
  <2> SUFFICES ASSUME NEW S, NEW f, IsFiniteSet(S) PROVE IsFiniteSet({f[x] : x \in S})
    OBVIOUS
  <2>1. [x \in S |-> f[x]] \in Surjection(S, {f[x] : x \in S})
    BY DEF Surjection
  <2> QED
    BY <2>1, FS_Surjection
<1> QED
  BY <1>1, <1>2

LEMMA ObservationIds ==
  ASSUME Typed, obsId \in [Hearings -> Nat]
  PROVE  /\ MaxObservationID \in Nat /\ NextObservation \in Nat \ {0}
         /\ \A h \in observed : obsId[h] <= MaxObservationID
         /\ ReachedByObservations(MaxObservationID)
         /\ \A h \in Hearings : obsId[h] < NextObservation
<1> DEFINE S == {obsId[h] : h \in observed}
           T == {obsId[h] : h \in Hearings}
<1>1. S \in SUBSET Nat /\ T \in SUBSET Nat /\ IsFiniteSet(S) /\ IsFiniteSet(T)
  BY NumbersFinite DEF Typed
<1>2. /\ Newest(S) \in Nat /\ Newest(S) \in S \cup {0} /\ \A x \in S : x <= Newest(S)
      /\ Newest(T) \in Nat /\ \A x \in T : x <= Newest(T)
  <2> HIDE DEF S, T
  <2> QED
    BY <1>1, NewestIs
<1>3. /\ \A h \in observed : obsId[h] \in S /\ obsId[h] \in Nat
      /\ \A h \in Hearings : obsId[h] \in T /\ obsId[h] \in Nat
  BY DEF Typed
<1>4. ReachedByObservations(Newest(S))
  BY <1>2 DEF ReachedByObservations
<1>5. MaxObservationID = Newest(S) /\ NextObservation = Newest(T) + 1
  BY DEF MaxObservationID, NextObservation
<1> HIDE DEF S, T
<1>6. \A h \in observed : obsId[h] <= Newest(S)
  BY <1>2, <1>3
<1>7. \A h \in Hearings : obsId[h] <= Newest(T) /\ obsId[h] \in Nat
  BY <1>2, <1>3
<1> QED
  BY <1>2, <1>4, <1>5, <1>6, <1>7

LEMMA MessageIds ==
  ASSUME Typed, obsId \in [Hearings -> Nat]
  PROVE  /\ MaxChannelMessageID \in Nat /\ NextMessage \in Nat \ {0}
         /\ \A p \in Packets : message[p] <= MaxChannelMessageID /\ message[p] < NextMessage
         /\ ReachedByMessages(MaxChannelMessageID)
<1> DEFINE S == {message[p] : p \in Packets}
           D == {draft[w] : w \in Writers}
           T == S \cup D
<1>1. S \in SUBSET Nat /\ T \in SUBSET Nat /\ IsFiniteSet(S) /\ IsFiniteSet(T)
  BY NumbersFinite, FS_Union DEF Typed
<1>2. /\ Newest(S) \in Nat /\ Newest(S) \in S \cup {0} /\ \A x \in S : x <= Newest(S)
      /\ Newest(T) \in Nat /\ \A x \in T : x <= Newest(T)
  <2> HIDE DEF S, T
  <2> QED
    BY <1>1, NewestIs
<1>3. \A p \in Packets : message[p] \in S /\ message[p] \in T /\ message[p] \in Nat
  BY DEF Typed
<1>4. ReachedByMessages(Newest(S))
  BY <1>2 DEF ReachedByMessages
<1>5. MaxChannelMessageID = Newest(S) /\ NextMessage = Newest(T) + 1
  BY DEF MaxChannelMessageID, NextMessage
<1> HIDE DEF S, T
<1>6. \A p \in Packets : message[p] <= Newest(S) /\ message[p] <= Newest(T) /\ message[p] \in Nat
  BY <1>2, <1>3
<1> QED
  BY <1>2, <1>4, <1>5, <1>6

LEMMA FirstAbove ==
  ASSUME Typed, obsId \in [Hearings -> Nat], NEW n \in Nat
  PROVE  LET next == NextChannelMessageID(n) IN
         /\ next \in Nat
         /\ next = 0 => \A p \in Packets : message[p] <= n
         /\ next # 0 => next > n /\ \A p \in Packets : message[p] > n => next <= message[p]
<1> DEFINE S == {message[p] : p \in Packets} \ 0..n
<1>1. S \in SUBSET Nat /\ IsFiniteSet(S)
  BY NumbersFinite, FS_Subset DEF Typed
<1>2. NextChannelMessageID(n) = IF S = {} THEN 0 ELSE Min(S)
  BY DEF NextChannelMessageID
<1>3. \A p \in Packets : message[p] \in Nat /\ (message[p] \in S <=> message[p] > n)
  BY DEF Typed
<1>4. \A x \in S : x > n
  BY <1>1
<1>5. CASE S = {}
  BY <1>2, <1>3, <1>5
<1>6. CASE S # {}
  <2>1. Min(S) \in S /\ \A x \in S : Min(S) <= x
    <3> HIDE DEF S
    <3> QED
      BY <1>1, <1>6, MinExists
  <2>2. NextChannelMessageID(n) \in S /\ \A x \in S : NextChannelMessageID(n) <= x
    BY <1>2, <1>6, <2>1
  <2>3. NextChannelMessageID(n) \in Nat /\ NextChannelMessageID(n) > n
    BY <1>1, <1>4, <2>2
  <2> QED
    BY <1>3, <2>2, <2>3
<1> QED
  BY <1>5, <1>6

-----------------------------------------------------------------------------
(* The writers.                                                            *)

(* What a writer's step may do: report, draw an id above all there are,    *)
(* commit a statement that was in flight, end one, and add sites.          *)
Writes ==
  /\ UNCHANGED <<state, job, booted, earned, overtaken>>
  /\ UNCHANGED <<behind, moved, reported>> \/ (behind' = TRUE /\ moved' = TRUE)
  /\ observed \subseteq observed' /\ sites \subseteq sites'
  /\ \A h \in observed : obsId'[h] = obsId[h]
  /\ \A h \in observed' \ observed : h \in Observing /\ obsId'[h] = obsId[h]
  /\ \A p \in Packets :
       \/ message'[p] = message[p]
       \/ message[p] = 0 /\ \E w \in Creating : packetOf[w] = p /\ message'[p] = draft[w]
  /\ \A h \in Observing' :
       \/ h \in Observing /\ obsId'[h] = obsId[h] /\ (h \in aged' <=> h \in aged)
       \/ h \notin aged' /\ obsId'[h] = NextObservation
  /\ \A w \in Creating' :
       \/ w \in Creating /\ draft'[w] = draft[w] /\ (w \in aged' <=> w \in aged)
       \/ w \notin aged' /\ draft'[w] = NextMessage

LEMMA Numbers ==
  ASSUME TrustInv
  PROVE  /\ \A h \in Hearings : obsId[h] \in Nat /\ packetOf[h] \in Packets
         /\ \A p \in Packets : message[p] \in Nat
         /\ \A w \in Writers : draft[w] \in Nat /\ packetOf[w] \in Packets
         /\ state.obsPrev \in Nat /\ state.obsHi \in Nat /\ state.msgPrev \in Nat
         /\ state.msgHi \in Nat /\ job.obsHi \in Nat /\ job.msgHi \in Nat
         /\ state.maxID \in Nat /\ state.filledTo \in Nat /\ state.complete \in BOOLEAN
         /\ state.found \in BOOLEAN
         /\ job.step \in Steps /\ observed \subseteq Hearings /\ Hearings \subseteq Writers
         /\ sites \subseteq Hearings
<1>1. Typed /\ JobTypes /\ Rows
  BY DEF TrustInv, TrustParts, IInv
<1>2. state \in CmiState /\ job \in CmiJob
  BY <1>1 DEF JobTypes
<1>3. /\ state.obsPrev \in Nat /\ state.obsHi \in Nat /\ state.msgPrev \in Nat
      /\ state.msgHi \in Nat /\ job.obsHi \in Nat /\ job.msgHi \in Nat
      /\ state.maxID \in Nat /\ state.filledTo \in Nat /\ state.complete \in BOOLEAN
      /\ state.found \in BOOLEAN /\ job.step \in Steps
  BY <1>2 DEF CmiState, CmiJob
<1> QED
  BY <1>1, <1>3, ReadModelAssumption DEF Typed, JobTypes, Rows, Writers, Due

LEMMA DrawnIds ==
  ASSUME TrustInv
  PROVE  /\ NextObservation > state.obsHi /\ NextObservation > job.obsHi
         /\ NextMessage > state.msgHi /\ NextMessage > job.msgHi
         /\ NextObservation \in Nat /\ NextMessage \in Nat
<1>1. Typed /\ obsId \in [Hearings -> Nat] /\ Marks
  BY DEF TrustInv, TrustParts, IInv, JobTypes
<1>2. /\ NextObservation \in Nat \ {0} /\ \A h \in Hearings : obsId[h] < NextObservation
      /\ NextMessage \in Nat \ {0} /\ \A p \in Packets : message[p] < NextMessage
  BY <1>1, ObservationIds, MessageIds
<1>3. \A n \in Nat : ReachedByObservations(n) => n < NextObservation
  BY <1>2, Numbers DEF ReachedByObservations
<1>4. \A n \in Nat : ReachedByMessages(n) => n < NextMessage
  BY <1>2, Numbers DEF ReachedByMessages
<1> QED
  BY <1>1, <1>2, <1>3, <1>4, Numbers DEF Marks

LEMMA WritesKeep ==
  ASSUME TrustInv, Writes
  PROVE  /\ Marks' /\ Stages'
         /\ ObservationsInFlight' /\ MessagesInFlight'
         /\ MissesCovered' /\ ReportsFilled' /\ TrustRepaired'
<1>1. /\ Rows /\ Marks /\ Stages /\ ObservationsInFlight /\ MessagesInFlight /\ MissesCovered
      /\ ReportsFilled /\ TrustRepaired
  BY DEF TrustInv, TrustParts
<1>2. /\ UNCHANGED <<state, job, booted, earned, overtaken>>
      /\ UNCHANGED <<behind, moved, reported>> \/ (behind' = TRUE /\ moved' = TRUE)
      /\ observed \subseteq observed' /\ sites \subseteq sites'
      /\ \A h \in observed : obsId'[h] = obsId[h]
  BY DEF Writes
<1>3. \A p \in Packets :
        message[p] # 0 => message'[p] = message[p]
  BY DEF Writes
<1>4. Marks'
  <2>1. \A n \in Nat : ReachedByObservations(n) => ReachedByObservations(n)'
    BY <1>2 DEF ReachedByObservations
  <2>2. \A n \in Nat : ReachedByMessages(n) => ReachedByMessages(n)'
    <3> SUFFICES ASSUME NEW n \in Nat, n # 0, NEW p \in Packets, n = message[p]
                 PROVE  n = message'[p]
      BY DEF ReachedByMessages
    <3> QED
      BY <1>3, Numbers
  <2> QED
    BY <1>1, <1>2, <2>1, <2>2, Numbers DEF Marks
<1>5. Stages'
  <2>1. UNCHANGED <<state, job, booted, earned>>
    BY <1>2
  <2>2. moved => behind
    BY <1>1 DEF Stages
  <2>3. CASE UNCHANGED <<behind, moved, reported>>
    <3>1. UNCHANGED <<behind, moved>>
      BY <2>3
    <3>2. moved' => behind'
      BY <2>2, <3>1
    <3> QED
      BY <1>1, <2>1, <3>2 DEF Stages
  <2>4. CASE behind' = TRUE
    BY <1>1, <2>1, <2>4 DEF Stages
  <2> QED
    BY <1>2, <2>3, <2>4
<1>6. \A h \in reported : UNCHANGED reported => (h \in Missing' => h \in Missing)
  BY <1>1, <1>2, <1>3, Numbers DEF Rows, Due, Missing, Stored
<1>7. \A h \in reported : /\ obsId'[h] = obsId[h]
                          /\ message'[packetOf[h]] = message[packetOf[h]]
                          /\ Overtaken(h) => Overtaken(h)'
  BY <1>1, <1>2, <1>3, Numbers DEF Rows, Due, Overtaken
<1>8. TrustRepaired'
  BY <1>1, <1>2, <1>6, <1>7 DEF TrustRepaired
<1>9. ReportsFilled'
  <2> SUFFICES ASSUME ~moved', NEW h \in reported' \cap Missing'
               PROVE  Overtaken(h)' \/ Filling(h)'
    BY DEF ReportsFilled
  <2>1. UNCHANGED <<behind, moved, reported>> /\ h \in reported \cap Missing
    BY <1>2, <1>6
  <2>2. Overtaken(h) \/ Filling(h)
    BY <1>1, <2>1 DEF ReportsFilled
  <2>3. Filling(h) => Filling(h)'
    BY <1>2, <1>7, <2>1 DEF Filling, ToCome, Ahead
  <2> QED
    BY <1>7, <2>1, <2>2, <2>3
<1>10. ASSUME state.found, NEW w \in Creating, NEW p, packetOf[w] = p
       PROVE  /\ ToCome(draft[w]) \/ Passed(p)
              /\ job.step = "saving" => draft[w] > state.msgHi \/ Passed(p)
  <2>1. w \in Writers
    BY DEF Creating
  <2>2. CASE w \in overtaken
    BY <1>10, <2>2 DEF Passed
  <2>3. CASE w \notin overtaken /\ w \in aged
    BY <1>1, <1>10, <2>3 DEF MessagesInFlight, AfterMessages, AfterObservations
  <2>4. CASE w \notin overtaken /\ w \notin aged
    <3>1. draft[w] > state.msgHi
      BY <1>1, <1>10, <2>4 DEF MessagesInFlight
    <3> QED
      BY <1>1, <2>1, <3>1, Numbers DEF Marks, ToCome
  <2> QED
    BY <2>2, <2>3, <2>4
<1>11. state.found /\ AllToCome => AllToCome'
  <2> SUFFICES ASSUME state.found, AllToCome, NEW p \in Packets, message'[p] # 0
               PROVE  (ToCome(message[p]) \/ Passed(p))'
    BY DEF AllToCome
  <2>1. Passed(p) => Passed(p)'
    BY <1>2 DEF Passed
  <2>2. ToCome(message'[p]) => ToCome(message[p])'
    BY <1>2 DEF ToCome, Ahead
  <2>3. CASE message'[p] = message[p]
    BY <2>1, <2>2, <2>3 DEF AllToCome
  <2>4. CASE message'[p] # message[p]
    <3>1. PICK w \in Creating : packetOf[w] = p /\ message'[p] = draft[w]
      BY <2>4 DEF Writes
    <3> QED
      BY <1>10, <2>1, <2>2, <3>1
  <2> QED
    BY <2>3, <2>4
<1>12. ObservationsInFlight'
  <2> SUFFICES ASSUME NEW h \in Observing' PROVE
        /\ h \notin aged' /\ state.found => obsId'[h] > state.obsHi
        /\ h \notin aged' /\ job.step \in AfterObservations => obsId'[h] > job.obsHi
        /\ h \in aged' \ overtaken /\ state.found =>
             /\ job.step \in AfterObservations => obsId'[h] > state.obsHi
             /\ job.step \in AfterSave => obsId'[h] > state.obsPrev
             /\ obsId'[h] > state.obsPrev \/ AllToCome'
    BY <1>2 DEF ObservationsInFlight
  <2>1. CASE h \in Observing /\ obsId'[h] = obsId[h] /\ (h \in aged' <=> h \in aged)
    BY <1>1, <1>11, <2>1 DEF ObservationsInFlight
  <2>2. CASE h \notin aged' /\ obsId'[h] = NextObservation
    BY <2>2, DrawnIds
  <2> QED
    BY <2>1, <2>2 DEF Writes
<1>13. MessagesInFlight'
  <2> SUFFICES ASSUME NEW w \in Creating' PROVE
        /\ w \notin aged' /\ state.found => draft'[w] > state.msgHi
        /\ w \notin aged' /\ job.step \in AfterMessages \cup {"first use"} =>
             draft'[w] > job.msgHi
        /\ w \in aged' \ overtaken /\ state.found =>
             /\ job.step \in AfterMessages => draft'[w] > state.msgHi
             /\ job.step \in AfterSave => draft'[w] > state.msgPrev
             /\ ToCome(draft'[w])
    BY <1>2 DEF MessagesInFlight, ToCome, Ahead
  <2>1. CASE w \in Creating /\ draft'[w] = draft[w] /\ (w \in aged' <=> w \in aged)
    BY <1>1, <2>1 DEF MessagesInFlight
  <2>2. CASE w \notin aged' /\ draft'[w] = NextMessage
    BY <2>2, DrawnIds
  <2> QED
    BY <2>1, <2>2 DEF Writes
<1>14. MissesCovered'
  <2> SUFFICES ASSUME state.found, NEW h \in Missing' PROVE Overtaken(h)' \/ Covered(h)'
    BY <1>2 DEF MissesCovered
  <2> DEFINE p == packetOf[h]
             o == IF job.step \in {"filling messages", "saving"} THEN state.obsHi
                                                                 ELSE state.obsPrev
             m == IF job.step = "saving" THEN state.msgHi ELSE state.msgPrev
  <2>1. h \in Hearings /\ h \notin sites' /\ h \in observed' /\ message'[p] # 0
    BY DEF Missing, Stored
  <2>2. p \in Packets /\ (Passed(p) => Overtaken(h)')
    BY <1>2, <2>1, Numbers DEF Passed, Overtaken
  <2>3. Ahead(message'[p]) \/ obsId'[h] > o \/ message'[p] > m => Covered(h)'
    BY <1>2 DEF Covered, Ahead
  <2> HIDE DEF o, m
  <2>4. CASE message'[p] # message[p]
    <3>1. PICK w \in Creating : packetOf[w] = p /\ message'[p] = draft[w]
      BY <2>2, <2>4 DEF Writes
    <3>2. /\ ToCome(message'[p]) \/ Passed(p)
          /\ job.step = "saving" => message'[p] > state.msgHi \/ Passed(p)
      BY <1>10, <3>1
    <3>3. ToCome(message'[p]) /\ job.step # "saving" =>
            Ahead(message'[p]) \/ message'[p] > m
      BY DEF ToCome, m
    <3>4. job.step = "saving" => m = state.msgHi
      BY DEF m
    <3> QED
      BY <2>2, <2>3, <3>2, <3>3, <3>4
  <2>5. CASE message'[p] = message[p] /\ h \in observed
    <3>1. h \in Missing
      BY <1>2, <2>1, <2>5 DEF Missing, Stored
    <3>2. Overtaken(h) \/ Covered(h)
      BY <1>1, <3>1 DEF MissesCovered
    <3>3. Overtaken(h) => Overtaken(h)'
      BY <1>2 DEF Overtaken
    <3>4. Covered(h) => Ahead(message'[p]) \/ obsId'[h] > o \/ message'[p] > m
      BY <1>2, <2>5 DEF Covered, o, m
    <3> QED
      BY <2>3, <3>2, <3>3, <3>4
  <2>6. CASE message'[p] = message[p] /\ h \notin observed
    <3>1. h \in Observing /\ obsId'[h] = obsId[h]
      BY <2>1, <2>6 DEF Writes
    <3>2. CASE h \in overtaken
      BY <1>2, <3>2 DEF Overtaken
    <3>3. CASE h \notin aged
      <4>1. obsId[h] > state.obsHi
        BY <1>1, <3>1, <3>3 DEF ObservationsInFlight
      <4>2. /\ obsId[h] \in Nat /\ state.obsHi \in Nat /\ state.obsPrev \in Nat
            /\ state.obsPrev <= state.obsHi
        BY <1>1, <2>1, Numbers DEF Marks
      <4>3. obsId[h] > state.obsPrev
        BY <4>1, <4>2
      <4>4. o = state.obsHi \/ o = state.obsPrev
        BY DEF o
      <4>5. obsId[h] > o
        BY <4>1, <4>3, <4>4
      <4> QED
        BY <2>3, <3>1, <4>5
    <3>4. CASE h \in aged \ overtaken
      <4>1. /\ job.step \in AfterObservations => obsId[h] > state.obsHi
            /\ obsId[h] > state.obsPrev \/ AllToCome
        BY <1>1, <3>1, <3>4 DEF ObservationsInFlight
      <4>2. CASE job.step \in {"filling messages", "saving"}
        BY <2>3, <3>1, <4>1, <4>2 DEF o, AfterObservations
      <4>3. CASE job.step \notin {"filling messages", "saving"} /\ obsId[h] > state.obsPrev
        BY <2>3, <3>1, <4>3 DEF o
      <4>4. CASE job.step \notin {"filling messages", "saving"} /\ AllToCome
        <5>1. ToCome(message[p]) \/ Passed(p)
          BY <2>1, <2>2, <2>6, <4>4 DEF AllToCome
        <5> QED
          BY <2>2, <2>3, <2>6, <4>4, <5>1 DEF ToCome, m
      <4> QED
        BY <4>1, <4>2, <4>3, <4>4
    <3> QED
      BY <3>2, <3>3, <3>4
  <2> QED
    BY <2>4, <2>5, <2>6
<1> QED
  BY <1>4, <1>5, <1>8, <1>9, <1>12, <1>13, <1>14

(* Every step of a writer is of that kind.                                 *)
LEMMA WriterStep ==
  ASSUME TrustInv, (\E w \in Writers : Handle(w)) \/ ImportKey
  PROVE  JobTypes' /\ Rows' /\ Writes
<1>0. /\ Typed /\ Attempting /\ JobTypes /\ Rows
      /\ Hearings \subseteq Writers /\ \A w \in Writers : packetOf[w] \in Packets
      /\ MaxFaults \in Nat
  BY Numbers, ReadModelAssumption DEF TrustInv, TrustParts, IInv
<1>n. NextObservation \in Nat /\ NextMessage \in Nat
  BY DrawnIds
<1>m. Missing \subseteq Writers
  BY <1>0 DEF Missing
<1>f. \A ps : Fault(ps) => faults' \in 0..MaxFaults
  BY <1>0 DEF Fault, JobTypes
<1> USE <1>0 DEF dataVars, writerVars, trustVars, policyVars, jobVars, history, Moves,
                 Ends, Invalidate
<1>1. ASSUME NEW h \in Hearings, Observe(h) PROVE JobTypes' /\ Rows' /\ Writes
  <2>1. JobTypes'
    BY <1>1, <1>n DEF Observe, JobTypes, Missing
  <2>2. Rows'
    <3>1. \A x \in observed' : phase'[x] \notin {"new", "observing"}
      BY <1>1 DEF Observe, Typed, Rows
    <3>2. \A x \in Writers : seen'[x] \subseteq HearingsOf(packetOf[x])'
      BY <1>1 DEF Observe, Typed, Rows, HearingsOf
    <3>3. Due \subseteq Due' /\ sites' \subseteq Due'
      BY <1>1 DEF Observe, Rows, Due, Stored
    <3>4. reported' \subseteq Due'
      BY <1>1, <3>3 DEF Observe, Rows, Due, Missing, Stored
    <3>5. orphans' \cup aged' \subseteq Observing' \cup Creating'
      BY <1>1 DEF Observe, Typed, Rows, Observing, Creating
    <3> QED
      BY <3>1, <3>2, <3>3, <3>4, <3>5 DEF Rows
  <2>3. Writes
    BY <1>1 DEF Observe, Typed, JobTypes, Rows, Writes, Observing, Creating
  <2> QED
    BY <2>1, <2>2, <2>3
<1>2. ASSUME NEW h \in Hearings, ObserveCommit(h) PROVE JobTypes' /\ Rows' /\ Writes
  <2>1. JobTypes'
    BY <1>2, <1>n DEF ObserveCommit, JobTypes, Missing
  <2>2. Rows'
    <3>1. \A x \in observed' : phase'[x] \notin {"new", "observing"}
      BY <1>2 DEF ObserveCommit, Typed, Rows
    <3>2. \A x \in Writers : seen'[x] \subseteq HearingsOf(packetOf[x])'
      BY <1>2 DEF ObserveCommit, Typed, Rows, HearingsOf
    <3>3. Due \subseteq Due' /\ sites' \subseteq Due'
      BY <1>2 DEF ObserveCommit, Rows, Due, Stored
    <3>4. reported' \subseteq Due'
      BY <1>2, <3>3 DEF ObserveCommit, Rows, Due, Missing, Stored
    <3>5. orphans' \cup aged' \subseteq Observing' \cup Creating'
      BY <1>2 DEF ObserveCommit, Typed, Rows, Observing, Creating
    <3> QED
      BY <3>1, <3>2, <3>3, <3>4, <3>5 DEF Rows
  <2>3. Writes
    BY <1>2 DEF ObserveCommit, Typed, JobTypes, Rows, Writes, Observing, Creating
  <2> QED
    BY <2>1, <2>2, <2>3
<1>3. ASSUME NEW h \in Hearings, AddFirst(h) PROVE JobTypes' /\ Rows' /\ Writes
  <2>1. JobTypes'
    BY <1>3, <1>n DEF AddFirst, JobTypes, Missing
  <2>2. Rows'
    <3>1. \A x \in observed' : phase'[x] \notin {"new", "observing"}
      BY <1>3 DEF AddFirst, Typed, Rows
    <3>2. \A x \in Writers : seen'[x] \subseteq HearingsOf(packetOf[x])'
      BY <1>3 DEF AddFirst, Typed, Rows, HearingsOf
    <3>3. Due \subseteq Due' /\ sites' \subseteq Due'
      BY <1>3 DEF AddFirst, Rows, Due, Stored
    <3>4. reported' \subseteq Due'
      BY <1>3, <3>3 DEF AddFirst, Rows, Due, Missing, Stored
    <3>5. orphans' \cup aged' \subseteq Observing' \cup Creating'
      BY <1>3 DEF AddFirst, Typed, Rows, Observing, Creating
    <3> QED
      BY <3>1, <3>2, <3>3, <3>4, <3>5 DEF Rows
  <2>3. Writes
    BY <1>3 DEF AddFirst, Typed, JobTypes, Rows, Writes, Observing, Creating
  <2> QED
    BY <2>1, <2>2, <2>3
<1>4. ASSUME NEW h \in Hearings, AddFirstFails(h) PROVE JobTypes' /\ Rows' /\ Writes
  <2>f. faults' \in 0..MaxFaults
    BY <1>4, <1>f DEF AddFirstFails, JobTypes
  <2>1. JobTypes'
    BY <1>4, <1>m, <2>f DEF AddFirstFails, JobTypes
  <2>2. Rows'
    <3>1. \A x \in observed' : phase'[x] \notin {"new", "observing"}
      BY <1>4 DEF AddFirstFails, Typed, Rows
    <3>2. \A x \in Writers : seen'[x] \subseteq HearingsOf(packetOf[x])'
      BY <1>4 DEF AddFirstFails, Typed, Rows, HearingsOf
    <3>3. Due \subseteq Due' /\ sites' \subseteq Due'
      BY <1>4 DEF AddFirstFails, Rows, Due, Stored
    <3>4. reported' \subseteq Due'
      BY <1>4, <3>3 DEF AddFirstFails, Rows, Due, Missing, Stored
    <3>5. orphans' \cup aged' \subseteq Observing' \cup Creating'
      BY <1>4 DEF AddFirstFails, Typed, Rows, Observing, Creating
    <3> QED
      BY <3>1, <3>2, <3>3, <3>4, <3>5 DEF Rows
  <2>3. Writes
    BY <1>4 DEF AddFirstFails, Typed, JobTypes, Rows, Writes, Observing, Creating
  <2> QED
    BY <2>1, <2>2, <2>3
<1>5. ASSUME NEW h \in Hearings, NoKey(h) PROVE JobTypes' /\ Rows' /\ Writes
  <2>1. JobTypes'
    BY <1>5, <1>n DEF NoKey, JobTypes, Missing, AfterAttempt
  <2>2. Rows'
    <3>1. \A x \in observed' : phase'[x] \notin {"new", "observing"}
      BY <1>5 DEF NoKey, Typed, Rows, AfterAttempt
    <3>2. \A x \in Writers : seen'[x] \subseteq HearingsOf(packetOf[x])'
      BY <1>5 DEF NoKey, Typed, Rows, HearingsOf
    <3>3. Due \subseteq Due' /\ sites' \subseteq Due'
      BY <1>5 DEF NoKey, Rows, Due, Stored
    <3>4. reported' \subseteq Due'
      BY <1>5, <3>3 DEF NoKey, Rows, Due, Missing, Stored
    <3>5. orphans' \cup aged' \subseteq Observing' \cup Creating'
      BY <1>5 DEF NoKey, Typed, Rows, Observing, Creating, AfterAttempt
    <3> QED
      BY <3>1, <3>2, <3>3, <3>4, <3>5 DEF Rows
  <2>3. Writes
    BY <1>5 DEF NoKey, Typed, JobTypes, Rows, Writes, Observing, Creating, AfterAttempt
  <2> QED
    BY <2>1, <2>2, <2>3
<1>6. ASSUME NEW h \in Hearings, AddAgain(h) PROVE JobTypes' /\ Rows' /\ Writes
  <2>1. JobTypes'
    BY <1>6, <1>n DEF AddAgain, JobTypes, Missing
  <2>2. Rows'
    <3>1. \A x \in observed' : phase'[x] \notin {"new", "observing"}
      BY <1>6 DEF AddAgain, Typed, Rows
    <3>2. \A x \in Writers : seen'[x] \subseteq HearingsOf(packetOf[x])'
      BY <1>6 DEF AddAgain, Typed, Rows, HearingsOf
    <3>3. Due \subseteq Due' /\ sites' \subseteq Due'
      BY <1>6 DEF AddAgain, Rows, Due, Stored
    <3>4. reported' \subseteq Due'
      BY <1>6, <3>3 DEF AddAgain, Rows, Due, Missing, Stored
    <3>5. orphans' \cup aged' \subseteq Observing' \cup Creating'
      BY <1>6 DEF AddAgain, Typed, Rows, Observing, Creating
    <3> QED
      BY <3>1, <3>2, <3>3, <3>4, <3>5 DEF Rows
  <2>3. Writes
    BY <1>6 DEF AddAgain, Typed, JobTypes, Rows, Writes, Observing, Creating
  <2> QED
    BY <2>1, <2>2, <2>3
<1>7. ASSUME NEW h \in Hearings, AddAgainFails(h) PROVE JobTypes' /\ Rows' /\ Writes
  <2>f. faults' \in 0..MaxFaults
    BY <1>7, <1>f DEF AddAgainFails, JobTypes
  <2>1. JobTypes'
    BY <1>7, <1>m, <2>f DEF AddAgainFails, JobTypes
  <2>2. Rows'
    <3>1. \A x \in observed' : phase'[x] \notin {"new", "observing"}
      BY <1>7 DEF AddAgainFails, Typed, Rows
    <3>2. \A x \in Writers : seen'[x] \subseteq HearingsOf(packetOf[x])'
      BY <1>7 DEF AddAgainFails, Typed, Rows, HearingsOf
    <3>3. Due \subseteq Due' /\ sites' \subseteq Due'
      BY <1>7 DEF AddAgainFails, Rows, Due, Stored
    <3>4. reported' \subseteq Due'
      BY <1>7, <3>3 DEF AddAgainFails, Rows, Due, Missing, Stored
    <3>5. orphans' \cup aged' \subseteq Observing' \cup Creating'
      BY <1>7 DEF AddAgainFails, Typed, Rows, Observing, Creating
    <3> QED
      BY <3>1, <3>2, <3>3, <3>4, <3>5 DEF Rows
  <2>3. Writes
    BY <1>7 DEF AddAgainFails, Typed, JobTypes, Rows, Writes, Observing, Creating
  <2> QED
    BY <2>1, <2>2, <2>3
<1>8. ASSUME NEW w \in Writers, UpsertChannelFails(w) PROVE JobTypes' /\ Rows' /\ Writes
  <2>f. faults' \in 0..MaxFaults
    BY <1>8, <1>f DEF UpsertChannelFails, JobTypes
  <2>1. JobTypes'
    BY <1>8, <1>m, <2>f DEF UpsertChannelFails, JobTypes
  <2>2. Rows'
    <3>1. \A x \in observed' : phase'[x] \notin {"new", "observing"}
      BY <1>8 DEF UpsertChannelFails, Typed, Rows, AfterAttempt
    <3>2. \A x \in Writers : seen'[x] \subseteq HearingsOf(packetOf[x])'
      BY <1>8 DEF UpsertChannelFails, Typed, Rows, HearingsOf
    <3>3. Due \subseteq Due' /\ sites' \subseteq Due'
      BY <1>8 DEF UpsertChannelFails, Rows, Due, Stored
    <3>4. reported' \subseteq Due'
      BY <1>8, <3>3 DEF UpsertChannelFails, Rows, Due, Missing, Stored
    <3>5. orphans' \cup aged' \subseteq Observing' \cup Creating'
      BY <1>8 DEF UpsertChannelFails, Typed, Rows, Observing, Creating, AfterAttempt
    <3> QED
      BY <3>1, <3>2, <3>3, <3>4, <3>5 DEF Rows
  <2>3. Writes
    BY <1>8 DEF UpsertChannelFails, Typed, JobTypes, Rows, Writes, Observing, Creating, AfterAttempt
  <2> QED
    BY <2>1, <2>2, <2>3
<1>9. ASSUME NEW w \in Writers, InsertBegin(w) PROVE JobTypes' /\ Rows' /\ Writes
  <2>1. JobTypes'
    BY <1>9, <1>n DEF InsertBegin, JobTypes, Missing
  <2>2. Rows'
    <3>1. \A x \in observed' : phase'[x] \notin {"new", "observing"}
      BY <1>9 DEF InsertBegin, Typed, Rows
    <3>2. \A x \in Writers : seen'[x] \subseteq HearingsOf(packetOf[x])'
      BY <1>9 DEF InsertBegin, Typed, Rows, HearingsOf
    <3>3. Due \subseteq Due' /\ sites' \subseteq Due'
      BY <1>9 DEF InsertBegin, Rows, Due, Stored
    <3>4. reported' \subseteq Due'
      BY <1>9, <3>3 DEF InsertBegin, Rows, Due, Missing, Stored
    <3>5. orphans' \cup aged' \subseteq Observing' \cup Creating'
      BY <1>9 DEF InsertBegin, Typed, Rows, Observing, Creating
    <3> QED
      BY <3>1, <3>2, <3>3, <3>4, <3>5 DEF Rows
  <2>3. Writes
    BY <1>9 DEF InsertBegin, Typed, JobTypes, Rows, Writes, Observing, Creating
  <2> QED
    BY <2>1, <2>2, <2>3
<1>10. ASSUME NEW w \in Writers, InsertCommit(w) PROVE JobTypes' /\ Rows' /\ Writes
  <2>1. JobTypes'
    BY <1>10 DEF InsertCommit, JobTypes, AfterAttempt
  <2>2. /\ UNCHANGED <<observed, obsId, recorded, state, job, booted, earned, overtaken, behind,
                      moved, reported>>
        /\ orphans' = orphans \ {w} /\ aged' = aged \ {w}
        /\ draft' = [draft EXCEPT ![w] = 0] /\ seen' = [seen EXCEPT ![w] = {}]
        /\ w \in Creating
    BY <1>10 DEF InsertCommit, Creating
  <2>3. PICK to \in {"done", "adding again", "unseeded", "not stored"} :
          phase' = [phase EXCEPT ![w] = to]
    BY <1>10 DEF InsertCommit, AfterAttempt
  <2>4. Observing' = Observing /\ Creating' = Creating \ {w}
    BY <1>10, <2>2, <2>3 DEF InsertCommit, Typed, Observing, Creating
  <2>5. \/ UNCHANGED <<message, sites>>
        \/ /\ message' = [message EXCEPT ![packetOf[w]] = draft[w]]
           /\ message[packetOf[w]] = 0
           /\ draft[w] # 0 /\ draft[w] \in Nat
           /\ sites' = sites \/ sites' = sites \cup seen[w]
    BY <1>10, <2>2 DEF InsertCommit, Typed, Attempting
  <2>6. /\ \A p \in Packets :
             \/ message'[p] = message[p]
             \/ /\ message[p] = 0 /\ p = packetOf[w]
                /\ message'[p] = draft[w] /\ message'[p] # 0
        /\ sites \subseteq sites'
    BY <2>5 DEF Typed
  <2>7. Due \subseteq Due' /\ sites' \subseteq Due'
    <3>1. Due \subseteq Due'
      BY <2>2, <2>6 DEF Due, Typed
    <3>2. \A h \in seen[w] : h \in observed /\ packetOf[h] = packetOf[w]
      BY DEF Rows, HearingsOf
    <3>3. sites \subseteq Due'
      BY <3>1 DEF Rows
    <3>4. CASE sites' = sites
      BY <3>1, <3>3, <3>4
    <3>5. CASE sites' # sites
      <4>1. /\ message' = [message EXCEPT ![packetOf[w]] = draft[w]] /\ draft[w] # 0
            /\ sites' = sites \cup seen[w]
        BY <2>5, <3>5
      <4>2. message'[packetOf[w]] # 0
        BY <4>1 DEF Typed
      <4>3. seen[w] \subseteq Due'
        BY <2>2, <3>2, <4>2 DEF Due
      <4> QED
        BY <3>1, <3>3, <4>1, <4>3
    <3> QED
      BY <3>4, <3>5
  <2>8. Rows'
    <3>1. \A h \in observed' : phase'[h] \notin {"new", "observing"}
      BY <2>2, <2>3 DEF Rows, Typed
    <3>2. \A x \in Writers : seen'[x] \subseteq HearingsOf(packetOf[x])'
      BY <2>2 DEF Rows, HearingsOf, Typed
    <3>3. reported' \subseteq Due'
      BY <2>2, <2>7 DEF Rows
    <3>4. orphans' \cup aged' \subseteq Observing' \cup Creating'
      BY <1>10, <2>2, <2>4 DEF Rows
    <3> QED
      BY <2>7, <3>1, <3>2, <3>3, <3>4 DEF Rows
  <2>9. Writes
    <3>1. \A x \in Creating' : x \in Creating /\ draft'[x] = draft[x] /\ (x \in aged' <=> x \in aged)
      BY <2>2, <2>4 DEF Typed, Creating
    <3>2. \A h \in Observing' : h \in Observing /\ obsId'[h] = obsId[h] /\ (h \in aged' <=> h \in aged)
      BY <2>2, <2>4 DEF Observing, Creating
    <3> QED
      BY <2>2, <2>6, <3>1, <3>2 DEF Writes
  <2> QED
    BY <2>1, <2>8, <2>9
<1>11. ASSUME NEW w \in Writers, InsertFails(w) PROVE JobTypes' /\ Rows' /\ Writes
  <2>f. faults' \in 0..MaxFaults
    BY <1>11, <1>f DEF InsertFails, JobTypes
  <2>1. JobTypes'
    BY <1>11, <1>m, <2>f DEF InsertFails, JobTypes
  <2>2. Rows'
    <3>1. \A x \in observed' : phase'[x] \notin {"new", "observing"}
      BY <1>11 DEF InsertFails, Typed, Rows
    <3>2. \A x \in Writers : seen'[x] \subseteq HearingsOf(packetOf[x])'
      BY <1>11 DEF InsertFails, Typed, Rows, HearingsOf
    <3>3. Due \subseteq Due' /\ sites' \subseteq Due'
      BY <1>11 DEF InsertFails, Rows, Due, Stored
    <3>4. reported' \subseteq Due'
      BY <1>11, <3>3 DEF InsertFails, Rows, Due, Missing, Stored
    <3>5. orphans' \cup aged' \subseteq Observing' \cup Creating'
      BY <1>11 DEF InsertFails, Typed, Rows, Observing, Creating
    <3> QED
      BY <3>1, <3>2, <3>3, <3>4, <3>5 DEF Rows
  <2>3. Writes
    BY <1>11 DEF InsertFails, Typed, JobTypes, Rows, Writes, Observing, Creating
  <2> QED
    BY <2>1, <2>2, <2>3
<1>12. ASSUME NEW w \in Writers, FallbackBegin(w) PROVE JobTypes' /\ Rows' /\ Writes
  <2>1. JobTypes'
    BY <1>12, <1>n DEF FallbackBegin, JobTypes, Missing
  <2>2. Rows'
    <3>1. \A x \in observed' : phase'[x] \notin {"new", "observing"}
      BY <1>12 DEF FallbackBegin, Typed, Rows
    <3>2. \A x \in Writers : seen'[x] \subseteq HearingsOf(packetOf[x])'
      BY <1>12 DEF FallbackBegin, Typed, Rows, HearingsOf
    <3>3. Due \subseteq Due' /\ sites' \subseteq Due'
      BY <1>12 DEF FallbackBegin, Rows, Due, Stored
    <3>4. reported' \subseteq Due'
      BY <1>12, <3>3 DEF FallbackBegin, Rows, Due, Missing, Stored
    <3>5. orphans' \cup aged' \subseteq Observing' \cup Creating'
      BY <1>12 DEF FallbackBegin, Typed, Rows, Observing, Creating
    <3> QED
      BY <3>1, <3>2, <3>3, <3>4, <3>5 DEF Rows
  <2>3. Writes
    BY <1>12 DEF FallbackBegin, Typed, JobTypes, Rows, Writes, Observing, Creating
  <2> QED
    BY <2>1, <2>2, <2>3
<1>13. ASSUME NEW w \in Writers, FallbackCommit(w) PROVE JobTypes' /\ Rows' /\ Writes
  <2>1. JobTypes'
    BY <1>13 DEF FallbackCommit, JobTypes
  <2>2. /\ UNCHANGED <<observed, obsId, recorded, state, job, booted, earned, overtaken, behind,
                      moved, reported>>
        /\ orphans' = orphans \ {w} /\ aged' = aged \ {w}
        /\ draft' = [draft EXCEPT ![w] = 0] /\ seen' = [seen EXCEPT ![w] = {}]
        /\ w \in Creating
    BY <1>13 DEF FallbackCommit, Creating
  <2>3. PICK to \in {"done", "adding again", "unseeded", "not stored"} :
          phase' = [phase EXCEPT ![w] = to]
    BY <1>13 DEF FallbackCommit
  <2>4. Observing' = Observing /\ Creating' = Creating \ {w}
    BY <1>13, <2>2, <2>3 DEF FallbackCommit, Typed, Observing, Creating
  <2>5. \/ UNCHANGED <<message, sites>>
        \/ /\ message' = [message EXCEPT ![packetOf[w]] = draft[w]]
           /\ message[packetOf[w]] = 0
           /\ draft[w] # 0 /\ draft[w] \in Nat
           /\ sites' = sites \/ sites' = sites \cup seen[w]
    BY <1>13, <2>2 DEF FallbackCommit, Typed, Attempting
  <2>6. /\ \A p \in Packets :
             \/ message'[p] = message[p]
             \/ /\ message[p] = 0 /\ p = packetOf[w]
                /\ message'[p] = draft[w] /\ message'[p] # 0
        /\ sites \subseteq sites'
    BY <2>5 DEF Typed
  <2>7. Due \subseteq Due' /\ sites' \subseteq Due'
    <3>1. Due \subseteq Due'
      BY <2>2, <2>6 DEF Due, Typed
    <3>2. \A h \in seen[w] : h \in observed /\ packetOf[h] = packetOf[w]
      BY DEF Rows, HearingsOf
    <3>3. sites \subseteq Due'
      BY <3>1 DEF Rows
    <3>4. CASE sites' = sites
      BY <3>1, <3>3, <3>4
    <3>5. CASE sites' # sites
      <4>1. /\ message' = [message EXCEPT ![packetOf[w]] = draft[w]] /\ draft[w] # 0
            /\ sites' = sites \cup seen[w]
        BY <2>5, <3>5
      <4>2. message'[packetOf[w]] # 0
        BY <4>1 DEF Typed
      <4>3. seen[w] \subseteq Due'
        BY <2>2, <3>2, <4>2 DEF Due
      <4> QED
        BY <3>1, <3>3, <4>1, <4>3
    <3> QED
      BY <3>4, <3>5
  <2>8. Rows'
    <3>1. \A h \in observed' : phase'[h] \notin {"new", "observing"}
      BY <2>2, <2>3 DEF Rows, Typed
    <3>2. \A x \in Writers : seen'[x] \subseteq HearingsOf(packetOf[x])'
      BY <2>2 DEF Rows, HearingsOf, Typed
    <3>3. reported' \subseteq Due'
      BY <2>2, <2>7 DEF Rows
    <3>4. orphans' \cup aged' \subseteq Observing' \cup Creating'
      BY <1>13, <2>2, <2>4 DEF Rows
    <3> QED
      BY <2>7, <3>1, <3>2, <3>3, <3>4 DEF Rows
  <2>9. Writes
    <3>1. \A x \in Creating' : x \in Creating /\ draft'[x] = draft[x] /\ (x \in aged' <=> x \in aged)
      BY <2>2, <2>4 DEF Typed, Creating
    <3>2. \A h \in Observing' : h \in Observing /\ obsId'[h] = obsId[h] /\ (h \in aged' <=> h \in aged)
      BY <2>2, <2>4 DEF Observing, Creating
    <3> QED
      BY <2>2, <2>6, <3>1, <3>2 DEF Writes
  <2> QED
    BY <2>1, <2>8, <2>9
<1>14. ASSUME NEW w \in Writers, FallbackFails(w) PROVE JobTypes' /\ Rows' /\ Writes
  <2>f. faults' \in 0..MaxFaults
    BY <1>14, <1>f DEF FallbackFails, JobTypes
  <2>1. JobTypes'
    BY <1>14, <1>m, <2>f DEF FallbackFails, JobTypes
  <2>2. Rows'
    <3>1. \A x \in observed' : phase'[x] \notin {"new", "observing"}
      BY <1>14 DEF FallbackFails, Typed, Rows
    <3>2. \A x \in Writers : seen'[x] \subseteq HearingsOf(packetOf[x])'
      BY <1>14 DEF FallbackFails, Typed, Rows, HearingsOf
    <3>3. Due \subseteq Due' /\ sites' \subseteq Due'
      BY <1>14 DEF FallbackFails, Rows, Due, Stored
    <3>4. reported' \subseteq Due'
      BY <1>14, <3>3 DEF FallbackFails, Rows, Due, Missing, Stored
    <3>5. orphans' \cup aged' \subseteq Observing' \cup Creating'
      BY <1>14 DEF FallbackFails, Typed, Rows, Observing, Creating
    <3> QED
      BY <3>1, <3>2, <3>3, <3>4, <3>5 DEF Rows
  <2>3. Writes
    BY <1>14 DEF FallbackFails, Typed, JobTypes, Rows, Writes, Observing, Creating
  <2> QED
    BY <2>1, <2>2, <2>3
<1>15. ASSUME NEW w \in Writers, ReportFallback(w) PROVE JobTypes' /\ Rows' /\ Writes
  <2>f. UNCHANGED faults
    BY <1>15, <1>f DEF ReportFallback, JobTypes
  <2>1. JobTypes'
    BY <1>15, <1>m, <2>f DEF ReportFallback, JobTypes
  <2>2. Rows'
    <3>1. \A x \in observed' : phase'[x] \notin {"new", "observing"}
      BY <1>15 DEF ReportFallback, Typed, Rows, AfterAttempt
    <3>2. \A x \in Writers : seen'[x] \subseteq HearingsOf(packetOf[x])'
      BY <1>15 DEF ReportFallback, Typed, Rows, HearingsOf
    <3>3. Due \subseteq Due' /\ sites' \subseteq Due'
      BY <1>15 DEF ReportFallback, Rows, Due, Stored
    <3>4. reported' \subseteq Due'
      BY <1>15, <3>3 DEF ReportFallback, Rows, Due, Missing, Stored
    <3>5. orphans' \cup aged' \subseteq Observing' \cup Creating'
      BY <1>15 DEF ReportFallback, Typed, Rows, Observing, Creating, AfterAttempt
    <3> QED
      BY <3>1, <3>2, <3>3, <3>4, <3>5 DEF Rows
  <2>3. Writes
    BY <1>15 DEF ReportFallback, Typed, JobTypes, Rows, Writes, Observing, Creating, AfterAttempt
  <2> QED
    BY <2>1, <2>2, <2>3
<1>16. ASSUME NEW w \in Writers, OrphanAborts(w) PROVE JobTypes' /\ Rows' /\ Writes
  <2>1. JobTypes'
    BY <1>16, <1>n DEF OrphanAborts, JobTypes, Missing
  <2>2. Rows'
    <3>1. \A x \in observed' : phase'[x] \notin {"new", "observing"}
      BY <1>16 DEF OrphanAborts, Typed, Rows
    <3>2. \A x \in Writers : seen'[x] \subseteq HearingsOf(packetOf[x])'
      BY <1>16 DEF OrphanAborts, Typed, Rows, HearingsOf
    <3>3. Due \subseteq Due' /\ sites' \subseteq Due'
      BY <1>16 DEF OrphanAborts, Rows, Due, Stored
    <3>4. reported' \subseteq Due'
      BY <1>16, <3>3 DEF OrphanAborts, Rows, Due, Missing, Stored
    <3>5. orphans' \cup aged' \subseteq Observing' \cup Creating'
      BY <1>16 DEF OrphanAborts, Typed, Rows, Observing, Creating
    <3> QED
      BY <3>1, <3>2, <3>3, <3>4, <3>5 DEF Rows
  <2>3. Writes
    BY <1>16 DEF OrphanAborts, Typed, JobTypes, Rows, Writes, Observing, Creating
  <2> QED
    BY <2>1, <2>2, <2>3
<1>17. CASE ImportKey
  BY <1>17 DEF ImportKey, JobTypes, Rows, Writes, Due, HearingsOf, Observing, Creating
<1> QED
  BY <1>1, <1>2, <1>3, <1>4, <1>5, <1>6, <1>7, <1>8, <1>9, <1>10, <1>11, <1>12,
     <1>13, <1>14, <1>15, <1>16, <1>17 DEF Handle, Hearing, Attempt

-----------------------------------------------------------------------------
(* The jobs.                                                               *)

(* Between two runs of a reconcile, or before its reads, the statements in *)
(* flight and the misses need no more than state says.                     *)
Rests ==
  /\ UNCHANGED <<observed, obsId, message, draft, sites, aged, overtaken>>
  /\ Observing' = Observing /\ Creating' = Creating
  /\ state' = state \/ state' = [state EXCEPT !.verified = TRUE]
  /\ job' = NoJob \/ job'.step \in {"init", "begun"}
  /\ job'.obsHi \in {0, job.obsHi} /\ job'.msgHi \in {0, job.msgHi}

LEMMA RestsKeep ==
  ASSUME TrustInv, Rests
  PROVE  /\ Marks' /\ ObservationsInFlight' /\ MessagesInFlight' /\ MissesCovered'
         /\ ~job'.verifying => ReportsFilled'
<1>1. Marks /\ ObservationsInFlight /\ MessagesInFlight /\ MissesCovered /\ state \in CmiState
  BY DEF TrustInv, TrustParts, JobTypes
<1>2. /\ state'.found = state.found /\ state'.obsPrev = state.obsPrev
      /\ state'.obsHi = state.obsHi /\ state'.msgPrev = state.msgPrev
      /\ state'.msgHi = state.msgHi /\ state'.complete = state.complete
      /\ state'.filledTo = state.filledTo /\ state'.maxID = state.maxID
  BY <1>1 DEF Rests, CmiState
<1>3. job'.step \in {"closed", "init", "begun"}
  BY DEF Rests, NoJob
<1>4. /\ UNCHANGED <<observed, obsId, message, draft, sites, aged, overtaken>>
      /\ Observing' = Observing /\ Creating' = Creating
  BY DEF Rests
<1>5. \A n : (Ahead(n)' <=> Ahead(n)) /\ (ToCome(n)' <=> ToCome(n))
  BY <1>2 DEF Ahead, ToCome
<1>6. AllToCome' <=> AllToCome
  BY <1>4, <1>5 DEF AllToCome, Passed
<1>7. ObservationsInFlight'
  BY <1>1, <1>2, <1>3, <1>4, <1>6 DEF ObservationsInFlight, AfterObservations, AfterSave
<1>8. MessagesInFlight'
  BY <1>1, <1>2, <1>3, <1>4, <1>5 DEF MessagesInFlight, AfterMessages, AfterObservations,
     AfterSave
<1>9. MissesCovered'
  <2> SUFFICES ASSUME state.found, NEW h \in Missing PROVE Overtaken(h) \/ Covered(h)'
    BY <1>2, <1>4 DEF MissesCovered, Missing, Stored, Overtaken
  <2>1. h \in Hearings /\ packetOf[h] \in Packets
    BY Numbers DEF Missing
  <2>2. /\ obsId[h] \in Nat /\ message[packetOf[h]] \in Nat
        /\ state.obsPrev \in Nat /\ state.obsHi \in Nat /\ state.msgPrev \in Nat
        /\ state.msgHi \in Nat /\ state.obsPrev <= state.obsHi /\ state.msgPrev <= state.msgHi
    BY <1>1, <2>1, Numbers DEF Marks
  <2>3. Covered(h) => \/ Ahead(message[packetOf[h]])
                      \/ obsId[h] > state.obsPrev
                      \/ message[packetOf[h]] > state.msgPrev
    <3> DEFINE o == IF job.step \in {"filling messages", "saving"} THEN state.obsHi
                                                                   ELSE state.obsPrev
               m == IF job.step = "saving" THEN state.msgHi ELSE state.msgPrev
    <3>1. Covered(h) <=> Ahead(message[packetOf[h]]) \/ obsId[h] > o \/ message[packetOf[h]] > m
      BY DEF Covered
    <3>2. (o = state.obsHi \/ o = state.obsPrev) /\ (m = state.msgHi \/ m = state.msgPrev)
      OBVIOUS
    <3> HIDE DEF o, m
    <3>3. obsId[h] > o => obsId[h] > state.obsPrev
      BY <2>2, <3>2
    <3>4. message[packetOf[h]] > m => message[packetOf[h]] > state.msgPrev
      BY <2>2, <3>2
    <3> QED
      BY <3>1, <3>3, <3>4
  <2>4. job'.step \notin {"filling messages", "saving"} /\ job'.step # "saving"
    BY <1>3
  <2>5. /\ Ahead(message[packetOf[h]]) => Ahead(message[packetOf[h]])'
        /\ obsId'[h] = obsId[h] /\ message'[packetOf[h]] = message[packetOf[h]]
    BY <1>4, <1>5
  <2>6. Covered(h)' <=> \/ Ahead(message[packetOf[h]])'
                        \/ obsId'[h] > state'.obsPrev
                        \/ message'[packetOf[h]] > state'.msgPrev
    BY <2>4 DEF Covered
  <2> QED
    BY <1>1, <1>2, <2>3, <2>5, <2>6 DEF MissesCovered
<1>10. Marks'
  <2>1. /\ \A n : ReachedByObservations(n)' <=> ReachedByObservations(n)
        /\ \A n : ReachedByMessages(n)' <=> ReachedByMessages(n)
    BY <1>4 DEF ReachedByObservations, ReachedByMessages
  <2>2. ReachedByObservations(0) /\ ReachedByMessages(0)
    BY DEF ReachedByObservations, ReachedByMessages
  <2>3. job'.obsHi \in {0, job.obsHi} /\ job'.msgHi \in {0, job.msgHi}
    BY DEF Rests
  <2> QED
    BY <1>1, <1>2, <2>1, <2>2, <2>3 DEF Marks
<1>11. ~job'.verifying => ReportsFilled'
  BY <1>3 DEF ReportsFilled, Filling, AfterObservations, AfterMessages
<1> QED
  BY <1>7, <1>8, <1>9, <1>10, <1>11

(* A step of a session changes no row of another table, and adds only      *)
(* sites that are missing.                                                 *)
LEMMA TypesKeep ==
  ASSUME TrustInv, UNCHANGED <<observed, obsId, message, writerVars>>,
         state' \in CmiState, job' \in CmiJob,
         {earned', dropped', behind', moved', booted'} \subseteq BOOLEAN,
         dirty' \in 0..DropAfterDirty, clean' \in 0..RestoreAfterClean,
         faults' \in 0..MaxFaults,
         sites' \subseteq sites \cup Missing, reported' \subseteq reported \cup Missing,
         aged' \subseteq aged \cup Observing \cup Creating,
         overtaken' \subseteq overtaken \cup Writers
  PROVE  JobTypes' /\ Rows'
<1>1. Typed /\ JobTypes /\ Rows /\ Hearings \subseteq Writers
  BY Numbers DEF TrustInv, TrustParts, IInv
<1>2. UNCHANGED <<observed, obsId, message, phase, seen, recorded, orphans, keyed>>
  BY DEF writerVars
<1>3. Observing' = Observing /\ Creating' = Creating /\ Due' = Due
  BY <1>2 DEF Observing, Creating, Due
<1>4. Missing \subseteq Due /\ Due \subseteq Writers
  BY <1>1 DEF Missing, Stored, Due, Typed
<1>5. Observing \subseteq Writers /\ Creating \subseteq Writers
  BY <1>1 DEF Observing, Creating
<1>6. reported' \cup aged' \cup overtaken' \subseteq Writers
  BY <1>1, <1>4, <1>5 DEF JobTypes
<1>7. {keyed', earned', dropped', behind', moved', booted'} \subseteq BOOLEAN
  BY <1>1, <1>2 DEF JobTypes
<1>8. JobTypes'
  BY <1>1, <1>2, <1>6, <1>7 DEF JobTypes
<1>9. sites' \subseteq Due' /\ reported' \subseteq Due'
  BY <1>1, <1>3, <1>4 DEF Rows
<1>10. orphans' \cup aged' \subseteq Observing' \cup Creating'
  BY <1>1, <1>2, <1>3 DEF Rows
<1>11. \A w \in Writers : seen'[w] \subseteq HearingsOf(packetOf[w])'
  BY <1>1, <1>2 DEF Rows, HearingsOf
<1>12. \A h \in observed' : phase'[h] \notin {"new", "observing"}
  BY <1>1, <1>2 DEF Rows
<1> QED
  BY <1>8, <1>9, <1>10, <1>11, <1>12 DEF Rows

(* What the steps of a session leave alone.                                *)
LEMMA SessionFrame ==
  ASSUME TrustInv, Session \/ JobFails
  PROVE  /\ UNCHANGED <<observed, obsId, message, draft, writerVars>>
         /\ Observing' = Observing /\ Creating' = Creating
         /\ sites \subseteq sites'
         /\ \A h : h \in Missing' <=> h \in Missing /\ h \notin sites'
<1>1. UNCHANGED <<observed, obsId, message, writerVars>> /\ sites \subseteq sites'
  BY SessionKeeps
<1> QED
  BY <1>1 DEF writerVars, Observing, Creating, Missing, Stored

(* The steps around a reconcile.                                           *)
LEMMA RestSteps ==
  ASSUME TrustInv,
         BootBegin \/ TaskBegin \/ Load \/ Stop \/ Repaired \/ CheckPasses \/ CheckDiffers
           \/ JobFails
  PROVE  TrustParts'
<1>1. /\ JobTypes /\ Marks /\ Stages /\ ReportsFilled /\ TrustRepaired
      /\ state \in CmiState /\ job \in CmiJob
  BY DEF TrustInv, TrustParts, JobTypes
<1>2. /\ UNCHANGED <<observed, obsId, message, draft, writerVars>>
      /\ Observing' = Observing /\ Creating' = Creating
  BY SessionFrame DEF Session
<1>3. /\ NoJob \in CmiJob /\ NoJob.step = "closed" /\ ~NoJob.verifying
      /\ NoJob.obsHi = 0 /\ NoJob.msgHi = 0
  BY DEF NoJob, CmiJob, Steps
<1>4. UNCHANGED <<sites, aged, overtaken>>
  BY DEF BootBegin, TaskBegin, Load, Stop, Repaired, CheckPasses, CheckDiffers, JobFails,
     dataVars, history
<1>5. faults' \in 0..MaxFaults
  <2>1. faults' = faults \/ Fault({})
    BY DEF BootBegin, TaskBegin, Load, Stop, Repaired, CheckPasses, CheckDiffers, JobFails,
       history
  <2>2. faults \in 0..MaxFaults /\ MaxFaults \in Nat
    BY <1>1, ReadModelAssumption DEF JobTypes
  <2> QED
    BY <2>1, <2>2 DEF Fault
<1>6. UNCHANGED <<dirty, clean, dropped>>
  BY DEF BootBegin, TaskBegin, Load, Stop, Repaired, CheckPasses, CheckDiffers, JobFails,
     trustVars, policyVars
<1>7. reported' = reported \/ reported' = reported \cup Missing
  BY DEF BootBegin, TaskBegin, Load, Stop, Repaired, CheckPasses, CheckDiffers, JobFails,
     history, DropUnverified
<1>8. /\ {dropped, earned, behind, moved, booted} \subseteq BOOLEAN
      /\ dirty \in 0..DropAfterDirty /\ clean \in 0..RestoreAfterClean
  BY <1>1 DEF JobTypes
<1>9. ASSUME {earned', behind', moved', booted'} \subseteq BOOLEAN,
             state' \in CmiState, job' \in CmiJob
      PROVE  JobTypes' /\ Rows'
  BY <1>2, <1>4, <1>5, <1>6, <1>7, <1>8, <1>9, TypesKeep
<1>10. UNCHANGED <<earned, behind, moved, booted, reported>> =>
         TrustRepaired' /\ (moved' => behind') /\ (~booted' => ~earned')
  <2> SUFFICES ASSUME UNCHANGED <<earned, behind, moved, booted, reported>>
               PROVE  TrustRepaired' /\ (moved' => behind') /\ (~booted' => ~earned')
    OBVIOUS
  <2>1. Missing' = Missing /\ \A h : Overtaken(h)' <=> Overtaken(h)
    BY <1>2, <1>4 DEF Missing, Stored, Overtaken
  <2>2. TrustRepaired'
    BY <1>1, <2>1 DEF TrustRepaired
  <2> QED
    BY <1>1, <2>2 DEF Stages
<1>11. Missing' = Missing /\ \A h : Overtaken(h)' <=> Overtaken(h)
  BY <1>2, <1>4 DEF Missing, Stored, Overtaken
<1>12. CASE Stop \/ CheckDiffers \/ JobFails
  <2>1. job' = NoJob /\ UNCHANGED <<state, earned, behind, moved, booted, reported>>
    BY <1>12 DEF Stop, CheckDiffers, JobFails, Close, trustVars, policyVars, history
  <2>2. Rests
    BY <1>2, <1>3, <1>4, <2>1 DEF Rests
  <2>3. Stages'
    BY <1>3, <1>10, <2>1 DEF Stages, AfterObservations, AfterMessages, AfterSave
  <2>4. JobTypes' /\ Rows'
    BY <1>1, <1>3, <1>8, <1>9, <2>1
  <2> QED
    BY <1>3, <1>10, <2>1, <2>2, <2>3, <2>4, RestsKeep DEF TrustParts
<1>13. CASE BootBegin \/ TaskBegin
  <2>1. PICK mode \in {"boot", "task"} : job' = [NoJob EXCEPT !.mode = mode, !.step = "init"]
    BY <1>13 DEF BootBegin, TaskBegin, Begin
  <2>2. /\ job' \in CmiJob /\ job'.step = "init" /\ ~job'.verifying
        /\ job'.obsHi = 0 /\ job'.msgHi = 0
    BY <2>1 DEF NoJob, CmiJob, Steps
  <2>3. moved' = FALSE /\ UNCHANGED <<state, earned, behind, booted>>
    BY <1>13 DEF BootBegin, TaskBegin, Begin, policyVars
  <2>4. Rests
    BY <1>2, <1>4, <2>2, <2>3 DEF Rests
  <2>5. Stages'
    BY <1>1, <2>2, <2>3 DEF Stages, AfterObservations, AfterMessages, AfterSave
  <2>6. JobTypes' /\ Rows'
    BY <1>1, <1>8, <1>9, <2>2, <2>3
  <2>7. ~earned \/ reported' = reported
    BY <1>1, <1>13 DEF BootBegin, TaskBegin, history, Stages
  <2>8. TrustRepaired'
    BY <1>1, <1>11, <2>3, <2>7 DEF TrustRepaired
  <2> QED
    BY <2>2, <2>4, <2>5, <2>6, <2>8, RestsKeep DEF TrustParts
<1>14. CASE Load
  <2>1. /\ job' = [job EXCEPT !.step = "begun"] /\ job.step = "init" /\ state.found
        /\ UNCHANGED <<state, earned, booted>>
    BY <1>14 DEF Load, Proceed, InJob, policyVars
  <2>2. job' \in CmiJob /\ job'.step = "begun" /\ job'.obsHi = job.obsHi /\ job'.msgHi = job.msgHi
    BY <1>1, <2>1 DEF CmiJob, Steps
  <2>3. ~job'.verifying
    BY <1>1, <2>1 DEF Stages, CmiJob
  <2>4. UNCHANGED <<behind, moved, reported>> \/ (behind' = TRUE /\ moved' = FALSE)
    BY <1>14 DEF Load, DropUnverified
  <2>5. Rests
    BY <1>2, <1>4, <2>1, <2>2 DEF Rests
  <2>6. JobTypes' /\ Rows'
    BY <1>1, <1>8, <1>9, <2>1, <2>2, <2>4
  <2>7. (moved' => behind') /\ (~booted' => ~earned') /\ TrustRepaired'
    <3>1. ~booted => ~earned
      BY <1>1 DEF Stages
    <3>2. CASE UNCHANGED <<behind, moved, reported>>
      BY <1>10, <2>1, <3>2
    <3>3. CASE behind' = TRUE /\ moved' = FALSE
      BY <2>1, <3>1, <3>3 DEF TrustRepaired
    <3> QED
      BY <2>4, <3>2, <3>3
  <2>8. Stages'
    BY <2>1, <2>2, <2>3, <2>7 DEF Stages, AfterObservations, AfterMessages, AfterSave
  <2> QED
    BY <2>3, <2>5, <2>6, <2>7, <2>8, RestsKeep DEF TrustParts
<1>15. ASSUME ~moved, job.step \in {"repaired", "checking"} \/ job.verifying
       PROVE  \A h \in reported \cap Missing : Overtaken(h)
  BY <1>1, <1>15 DEF ReportsFilled, Filling
<1>16. ASSUME job' = NoJob, behind' = (behind /\ moved), moved' = moved, reported' = reported,
              job.step \in {"repaired", "checking"}
       PROVE  /\ ReportsFilled' /\ TrustRepaired' /\ (moved' => behind')
              /\ behind' \in BOOLEAN /\ moved' \in BOOLEAN
  <2>1. moved => behind
    BY <1>1 DEF Stages
  <2>2. ~behind' => ~moved
    BY <1>16, <2>1
  <2>3. TrustRepaired'
    BY <1>11, <1>15, <1>16, <2>2 DEF TrustRepaired
  <2>4. ReportsFilled'
    BY <1>3, <1>16 DEF ReportsFilled, Filling, AfterObservations, AfterMessages
  <2>5. (moved' => behind') /\ behind' \in BOOLEAN /\ moved' \in BOOLEAN
    BY <1>8, <1>16, <2>1
  <2> QED
    BY <2>3, <2>4, <2>5
<1>17. CASE CheckPasses
  <2>1. /\ job.step = "checking" /\ state' = [state EXCEPT !.verified = TRUE]
        /\ earned' = TRUE /\ behind' = (behind /\ moved) /\ job' = NoJob
        /\ UNCHANGED <<moved, booted, reported>>
    BY <1>17 DEF CheckPasses, InJob, Trust, Close, history
  <2>2. state' \in CmiState
    BY <1>1, <2>1 DEF CmiState
  <2>3. Rests
    BY <1>2, <1>3, <1>4, <2>1 DEF Rests
  <2>4. ReportsFilled' /\ TrustRepaired' /\ (moved' => behind') /\ behind' \in BOOLEAN
    BY <1>16, <2>1
  <2>5. booted'
    BY <1>1, <2>1 DEF Stages
  <2>6. Stages'
    BY <1>3, <2>1, <2>4, <2>5 DEF Stages, AfterObservations, AfterMessages, AfterSave
  <2>7. JobTypes' /\ Rows'
    BY <1>1, <1>3, <1>8, <1>9, <2>1, <2>2, <2>4
  <2> QED
    BY <2>3, <2>4, <2>6, <2>7, RestsKeep DEF TrustParts
<1>18. CASE Repaired /\ state.verified
  <2>1. /\ job.step = "repaired" /\ booted' = TRUE /\ earned' = (earned \/ job.mode = "boot")
        /\ behind' = (behind /\ moved) /\ job' = NoJob
        /\ UNCHANGED <<state, moved, reported>>
    BY <1>18 DEF Repaired, InJob, Trust, Close, history
  <2>2. Rests
    BY <1>2, <1>3, <1>4, <2>1 DEF Rests
  <2>3. ReportsFilled' /\ TrustRepaired' /\ (moved' => behind') /\ behind' \in BOOLEAN
    BY <1>16, <2>1
  <2>4. Stages'
    BY <1>3, <2>1, <2>3 DEF Stages, AfterObservations, AfterMessages, AfterSave
  <2>5. earned' \in BOOLEAN
    BY <1>8, <2>1
  <2>6. JobTypes' /\ Rows'
    BY <1>1, <1>3, <1>8, <1>9, <2>1, <2>3, <2>5
  <2> QED
    BY <2>2, <2>3, <2>4, <2>6, RestsKeep DEF TrustParts
<1>19. CASE Repaired /\ ~state.verified
  <2>1. /\ job.step = "repaired" /\ booted' = TRUE
        /\ job' = [job EXCEPT !.step = "begun", !.verifying = TRUE]
        /\ UNCHANGED <<state, earned, behind, moved, reported>>
    BY <1>19 DEF Repaired, InJob, history
  <2>2. /\ job' \in CmiJob /\ job'.step = "begun" /\ job'.obsHi = job.obsHi
        /\ job'.msgHi = job.msgHi
    BY <1>1, <2>1 DEF CmiJob, Steps
  <2>3. Rests
    BY <1>2, <1>4, <2>1, <2>2 DEF Rests
  <2>4. state.found /\ state.complete /\ (moved => behind)
    BY <1>1, <2>1 DEF Stages, AfterSave
  <2>5. Stages'
    BY <2>1, <2>2, <2>4 DEF Stages, AfterObservations, AfterMessages, AfterSave
  <2>6. JobTypes' /\ Rows'
    BY <1>1, <1>8, <1>9, <2>1, <2>2
  <2>7. ReportsFilled' /\ TrustRepaired'
    BY <1>1, <1>11, <1>15, <2>1 DEF ReportsFilled, TrustRepaired
  <2> QED
    BY <2>3, <2>5, <2>6, <2>7, RestsKeep DEF TrustParts
<1> QED
  BY <1>12, <1>13, <1>14, <1>17, <1>18, <1>19

(* The newest ids are read.  What was in flight at the read before, and    *)
(* still is, is overtaken; what began since comes after that read.         *)
LEMMA FirstUseMessagesKeeps ==
  ASSUME TrustInv, FirstUseMessages PROVE TrustParts'
<1>1. /\ JobTypes /\ Marks /\ Stages /\ state \in CmiState /\ job \in CmiJob
      /\ TrustRepaired /\ Typed /\ obsId \in [Hearings -> Nat]
  BY DEF TrustInv, TrustParts, IInv, JobTypes
<1>2. /\ UNCHANGED <<observed, obsId, message, draft, writerVars>>
      /\ Observing' = Observing /\ Creating' = Creating
  BY SessionFrame DEF Session
<1>3. /\ job.step = "init" /\ ~state.found
      /\ job' = [job EXCEPT !.step = "first use", !.msgHi = MaxChannelMessageID]
      /\ UNCHANGED <<sites, state, earned, dropped, dirty, clean, behind, moved, booted,
                     reported, faults>>
  BY DEF FirstUseMessages, InJob, Read, ReadPast, dataVars, trustVars, policyVars
<1>4. /\ overtaken \cup (aged \cap Creating) \subseteq overtaken'
      /\ overtaken' \subseteq Writers
      /\ aged' = (aged \cap Observing) \cup Creating
  BY <1>1 DEF FirstUseMessages, Read, ReadPast, JobTypes, Creating
<1>5. MaxChannelMessageID \in Nat /\ ReachedByMessages(MaxChannelMessageID)
  BY <1>1, MessageIds
<1>6. /\ job' \in CmiJob /\ job'.step = "first use" /\ job'.obsHi = job.obsHi
      /\ job'.msgHi = MaxChannelMessageID /\ job'.verifying = job.verifying
  BY <1>1, <1>3, <1>5 DEF CmiJob, Steps
<1>7. ~job.verifying
  BY <1>1, <1>3 DEF Stages
<1>8. JobTypes' /\ Rows'
  <2>1. /\ {dropped, earned, behind, moved, booted} \subseteq BOOLEAN
        /\ dirty \in 0..DropAfterDirty /\ clean \in 0..RestoreAfterClean
        /\ faults \in 0..MaxFaults
    BY <1>1 DEF JobTypes
  <2> QED
    BY <1>1, <1>2, <1>3, <1>4, <1>6, <2>1, TypesKeep
<1>9. Marks'
  BY <1>1, <1>2, <1>3, <1>5, <1>6 DEF Marks, ReachedByObservations, ReachedByMessages
<1>10. Stages'
  BY <1>1, <1>3, <1>6, <1>7 DEF Stages, AfterObservations, AfterMessages, AfterSave
<1>11. ObservationsInFlight'
  BY <1>2, <1>3, <1>6 DEF ObservationsInFlight, AfterObservations
<1>12. MessagesInFlight'
  BY <1>2, <1>3, <1>4 DEF MessagesInFlight
<1>13. MissesCovered'
  BY <1>3 DEF MissesCovered
<1>14. ReportsFilled'
  BY <1>6, <1>7 DEF ReportsFilled, Filling, AfterObservations, AfterMessages
<1>15. TrustRepaired'
  BY <1>1, <1>2, <1>3, <1>4 DEF TrustRepaired, Missing, Stored, Overtaken
<1> QED
  BY <1>8, <1>9, <1>10, <1>11, <1>12, <1>13, <1>14, <1>15 DEF TrustParts

LEMMA ReadObservationsKeeps ==
  ASSUME TrustInv, ReadObservations PROVE TrustParts'
<1>1. /\ JobTypes /\ Marks /\ Stages /\ state \in CmiState /\ job \in CmiJob
      /\ ObservationsInFlight /\ MessagesInFlight /\ MissesCovered /\ ReportsFilled
      /\ TrustRepaired /\ Typed /\ obsId \in [Hearings -> Nat]
  BY DEF TrustInv, TrustParts, IInv, JobTypes
<1>2. /\ UNCHANGED <<observed, obsId, message, draft, writerVars>>
      /\ Observing' = Observing /\ Creating' = Creating /\ Observing \cap Creating = {}
  BY SessionFrame DEF Session, Observing, Creating
<1>3. /\ job.step = "begun"
      /\ job' = [job EXCEPT !.step = "reading", !.obsHi = MaxObservationID, !.repairs = FALSE]
      /\ UNCHANGED <<sites, state, earned, dropped, dirty, clean, behind, moved, booted,
                     reported, faults>>
  BY DEF ReadObservations, InJob, Read, ReadPast, dataVars, trustVars, policyVars
<1>4. /\ overtaken \cup (aged \cap Observing) \subseteq overtaken'
      /\ overtaken' \subseteq Writers
      /\ aged' = (aged \cap Creating) \cup Observing
  BY <1>1 DEF ReadObservations, Read, ReadPast, JobTypes, Observing
<1>5. /\ MaxObservationID \in Nat /\ ReachedByObservations(MaxObservationID)
      /\ \A h \in observed : obsId[h] <= MaxObservationID
  BY <1>1, ObservationIds
<1>6. /\ job' \in CmiJob /\ job'.step = "reading" /\ job'.obsHi = MaxObservationID
      /\ job'.msgHi = job.msgHi /\ job'.verifying = job.verifying
  BY <1>1, <1>3, <1>5 DEF CmiJob, Steps
<1>7. state.found /\ state.obsHi <= MaxObservationID
  <2>1. state.found /\ ReachedByObservations(state.obsHi)
    BY <1>1, <1>3 DEF Stages, Marks
  <2> QED
    BY <1>5, <2>1 DEF ReachedByObservations
<1>8. JobTypes' /\ Rows'
  <2>1. /\ {dropped, earned, behind, moved, booted} \subseteq BOOLEAN
        /\ dirty \in 0..DropAfterDirty /\ clean \in 0..RestoreAfterClean
        /\ faults \in 0..MaxFaults
    BY <1>1 DEF JobTypes
  <2> QED
    BY <1>1, <1>2, <1>3, <1>4, <1>6, <2>1, TypesKeep
<1>9. Marks'
  BY <1>1, <1>2, <1>3, <1>5, <1>6 DEF Marks, ReachedByObservations, ReachedByMessages
<1>10. Stages'
  BY <1>1, <1>3, <1>6, <1>7 DEF Stages, AfterObservations, AfterMessages, AfterSave
<1>11. /\ \A n : (Ahead(n)' <=> Ahead(n)) /\ (ToCome(n)' <=> ToCome(n))
       /\ \A p : Passed(p) => Passed(p)'
       /\ \A h : Overtaken(h) => Overtaken(h)'
       /\ Missing' = Missing
  BY <1>2, <1>3, <1>4 DEF Ahead, ToCome, Passed, Overtaken, Missing, Stored
<1>12. ObservationsInFlight'
  <2> SUFFICES ASSUME NEW h \in Observing, h \notin overtaken'
               PROVE  obsId[h] > state.obsHi /\ obsId[h] > state.obsPrev
    BY <1>2, <1>3, <1>4, <1>6 DEF ObservationsInFlight, AfterSave
  <2>1. h \notin aged /\ h \in Hearings
    BY <1>4 DEF Observing
  <2>2. obsId[h] > state.obsHi
    BY <1>1, <1>7, <2>1 DEF ObservationsInFlight
  <2> QED
    BY <1>1, <2>1, <2>2, Numbers DEF Marks
<1>13. MessagesInFlight'
  <2> SUFFICES ASSUME NEW w \in Creating
               PROVE  /\ w \notin aged' => draft[w] > state.msgHi
                      /\ w \in aged' \ overtaken' => ToCome(draft[w])'
    BY <1>2, <1>3, <1>6 DEF MessagesInFlight, AfterMessages, AfterObservations, AfterSave
  <2>1. (w \in aged' <=> w \in aged) /\ (w \notin overtaken' => w \notin overtaken)
    BY <1>2, <1>4
  <2> QED
    BY <1>1, <1>2, <1>7, <1>11, <2>1 DEF MessagesInFlight
<1>14. MissesCovered'
  <2> SUFFICES ASSUME NEW h \in Missing PROVE Overtaken(h)' \/ Covered(h)'
    BY <1>11 DEF MissesCovered
  <2>1. Overtaken(h) \/ Covered(h)
    BY <1>1, <1>7 DEF MissesCovered
  <2>2. Covered(h) => \/ Ahead(message[packetOf[h]])
                      \/ obsId[h] > state.obsPrev
                      \/ message[packetOf[h]] > state.msgPrev
    BY <1>3 DEF Covered
  <2>3. job'.step \notin {"filling messages", "saving"} /\ job'.step # "saving"
    BY <1>6
  <2>4. Covered(h)' <=> \/ Ahead(message[packetOf[h]])'
                        \/ obsId'[h] > state'.obsPrev
                        \/ message'[packetOf[h]] > state'.msgPrev
    BY <2>3 DEF Covered
  <2>5. /\ Ahead(message[packetOf[h]]) => Ahead(message[packetOf[h]])'
        /\ obsId'[h] = obsId[h] /\ message'[packetOf[h]] = message[packetOf[h]]
        /\ Overtaken(h) => Overtaken(h)'
    BY <1>2, <1>11
  <2> QED
    BY <1>3, <2>1, <2>2, <2>4, <2>5
<1>15. ReportsFilled'
  <2> SUFFICES ASSUME ~moved, NEW h \in reported \cap Missing
               PROVE  Overtaken(h)' \/ Filling(h)'
    BY <1>3, <1>11 DEF ReportsFilled
  <2>1. Overtaken(h) \/ Filling(h)
    BY <1>1 DEF ReportsFilled
  <2>2. Filling(h) => ~job.verifying
    BY DEF Filling
  <2>3. obsId[h] <= MaxObservationID
    BY <1>5 DEF Missing, Stored
  <2>4. Filling(h) => Filling(h)'
    BY <1>2, <1>6, <2>2, <2>3 DEF Filling, AfterObservations, AfterMessages
  <2> QED
    BY <1>11, <2>1, <2>4
<1>16. TrustRepaired'
  BY <1>1, <1>3, <1>11 DEF TrustRepaired
<1> QED
  BY <1>8, <1>9, <1>10, <1>12, <1>13, <1>14, <1>15, <1>16 DEF TrustParts

LEMMA ReadMessagesKeeps ==
  ASSUME TrustInv, ReadMessages PROVE TrustParts'
<1>1. /\ JobTypes /\ Marks /\ Stages /\ state \in CmiState /\ job \in CmiJob
      /\ ObservationsInFlight /\ MessagesInFlight /\ MissesCovered /\ ReportsFilled
      /\ TrustRepaired /\ Typed /\ obsId \in [Hearings -> Nat]
  BY DEF TrustInv, TrustParts, IInv, JobTypes
<1>2. /\ UNCHANGED <<observed, obsId, message, draft, writerVars>>
      /\ Observing' = Observing /\ Creating' = Creating /\ Observing \cap Creating = {}
  BY SessionFrame DEF Session, Observing, Creating
<1>3. /\ job.step = "reading"
      /\ job' = [job EXCEPT !.step = "filling observations", !.msgHi = MaxChannelMessageID]
      /\ UNCHANGED <<sites, state, earned, dropped, dirty, clean, behind, moved, booted,
                     reported, faults>>
  BY DEF ReadMessages, InJob, Read, ReadPast, dataVars, trustVars, policyVars
<1>4. /\ overtaken \cup (aged \cap Creating) \subseteq overtaken'
      /\ overtaken' \subseteq Writers
      /\ aged' = (aged \cap Observing) \cup Creating
  BY <1>1 DEF ReadMessages, Read, ReadPast, JobTypes, Creating
<1>5. /\ MaxChannelMessageID \in Nat /\ ReachedByMessages(MaxChannelMessageID)
      /\ \A p \in Packets : message[p] <= MaxChannelMessageID
  BY <1>1, MessageIds
<1>6. /\ job' \in CmiJob /\ job'.step = "filling observations" /\ job'.obsHi = job.obsHi
      /\ job'.msgHi = MaxChannelMessageID /\ job'.verifying = job.verifying
  BY <1>1, <1>3, <1>5 DEF CmiJob, Steps
<1>7. state.found /\ state.msgHi <= MaxChannelMessageID /\ state.obsHi <= job.obsHi
  <2>1. state.found /\ ReachedByMessages(state.msgHi) /\ state.obsHi <= job.obsHi
    BY <1>1, <1>3 DEF Stages, Marks, AfterObservations
  <2> QED
    BY <1>5, <2>1 DEF ReachedByMessages
<1>8. JobTypes' /\ Rows'
  <2>1. /\ {dropped, earned, behind, moved, booted} \subseteq BOOLEAN
        /\ dirty \in 0..DropAfterDirty /\ clean \in 0..RestoreAfterClean
        /\ faults \in 0..MaxFaults
    BY <1>1 DEF JobTypes
  <2> QED
    BY <1>1, <1>2, <1>3, <1>4, <1>6, <2>1, TypesKeep
<1>9. Marks'
  BY <1>1, <1>2, <1>3, <1>5, <1>6 DEF Marks, ReachedByObservations, ReachedByMessages
<1>10. Stages'
  BY <1>1, <1>3, <1>6, <1>7 DEF Stages, AfterObservations, AfterMessages, AfterSave
<1>11. /\ \A n : (Ahead(n)' <=> Ahead(n)) /\ (ToCome(n)' <=> ToCome(n))
       /\ \A p : Passed(p) => Passed(p)'
       /\ \A h : Overtaken(h) => Overtaken(h)'
       /\ Missing' = Missing
  BY <1>2, <1>3, <1>4 DEF Ahead, ToCome, Passed, Overtaken, Missing, Stored
<1>12. ObservationsInFlight'
  <2> SUFFICES ASSUME NEW h \in Observing
               PROVE  /\ h \notin aged' => obsId[h] > state.obsHi /\ obsId[h] > job.obsHi
                      /\ h \in aged' \ overtaken' =>
                           /\ obsId[h] > state.obsHi /\ obsId[h] > state.obsPrev
    BY <1>2, <1>3, <1>4, <1>6 DEF ObservationsInFlight, AfterSave
  <2>1. (h \in aged' <=> h \in aged) /\ (h \notin overtaken' => h \notin overtaken)
    BY <1>2, <1>4
  <2>2. job.step \in AfterObservations /\ h \in Hearings
    BY <1>3 DEF AfterObservations, Observing
  <2>3. h \notin aged' => obsId[h] > state.obsHi /\ obsId[h] > job.obsHi
    BY <1>1, <1>7, <2>1, <2>2 DEF ObservationsInFlight
  <2>4. h \in aged' \ overtaken' => obsId[h] > state.obsHi
    BY <1>1, <1>7, <2>1, <2>2 DEF ObservationsInFlight
  <2>5. obsId[h] > state.obsHi => obsId[h] > state.obsPrev
    BY <1>1, <2>2, Numbers DEF Marks
  <2> QED
    BY <2>3, <2>4, <2>5
<1>13. MessagesInFlight'
  <2> SUFFICES ASSUME NEW w \in Creating, w \notin overtaken'
               PROVE  draft[w] > state.msgHi /\ ToCome(draft[w])'
    BY <1>2, <1>3, <1>4, <1>6 DEF MessagesInFlight, AfterSave
  <2>1. w \notin aged /\ w \in Writers
    BY <1>4 DEF Creating
  <2>2. draft[w] > state.msgHi
    BY <1>1, <1>7, <2>1 DEF MessagesInFlight
  <2>3. draft[w] > state.msgPrev
    BY <1>1, <2>1, <2>2, Numbers DEF Marks
  <2>4. ToCome(draft[w]) /\ draft'[w] = draft[w]
    BY <1>2, <2>3 DEF ToCome
  <2> QED
    BY <1>11, <2>2, <2>4
<1>14. MissesCovered'
  <2> SUFFICES ASSUME NEW h \in Missing PROVE Overtaken(h)' \/ Covered(h)'
    BY <1>11 DEF MissesCovered
  <2>1. Overtaken(h) \/ Covered(h)
    BY <1>1, <1>7 DEF MissesCovered
  <2>2. Covered(h) => \/ Ahead(message[packetOf[h]])
                      \/ obsId[h] > state.obsPrev
                      \/ message[packetOf[h]] > state.msgPrev
    BY <1>3 DEF Covered
  <2>3. job'.step \notin {"filling messages", "saving"} /\ job'.step # "saving"
    BY <1>6
  <2>4. Covered(h)' <=> \/ Ahead(message[packetOf[h]])'
                        \/ obsId'[h] > state'.obsPrev
                        \/ message'[packetOf[h]] > state'.msgPrev
    BY <2>3 DEF Covered
  <2>5. /\ Ahead(message[packetOf[h]]) => Ahead(message[packetOf[h]])'
        /\ obsId'[h] = obsId[h] /\ message'[packetOf[h]] = message[packetOf[h]]
        /\ Overtaken(h) => Overtaken(h)'
    BY <1>2, <1>11
  <2> QED
    BY <1>3, <2>1, <2>2, <2>4, <2>5
<1>15. ReportsFilled'
  <2> SUFFICES ASSUME ~moved, NEW h \in reported \cap Missing
               PROVE  Overtaken(h)' \/ Filling(h)'
    BY <1>3, <1>11 DEF ReportsFilled
  <2>1. Overtaken(h) \/ Filling(h)
    BY <1>1 DEF ReportsFilled
  <2>2. Filling(h) => ~job.verifying /\ obsId[h] <= job.obsHi
    BY <1>3 DEF Filling, AfterObservations
  <2>3. message[packetOf[h]] <= MaxChannelMessageID
    BY <1>5, Numbers DEF Missing
  <2>4. Filling(h) => Filling(h)'
    BY <1>2, <1>6, <2>2, <2>3 DEF Filling, AfterObservations, AfterMessages
  <2> QED
    BY <1>11, <2>1, <2>4
<1>16. TrustRepaired'
  BY <1>1, <1>3, <1>11 DEF TrustRepaired
<1> QED
  BY <1>8, <1>9, <1>10, <1>12, <1>13, <1>14, <1>15, <1>16 DEF TrustParts

(* First use starts the backfill below every message there is.             *)
LEMMA FirstUseKeeps ==
  ASSUME TrustInv, FirstUse PROVE TrustParts'
<1>1. /\ JobTypes /\ Marks /\ Stages /\ state \in CmiState /\ job \in CmiJob
      /\ MessagesInFlight /\ TrustRepaired /\ Typed /\ Attempting
      /\ obsId \in [Hearings -> Nat]
  BY DEF TrustInv, TrustParts, IInv, JobTypes
<1>2. /\ UNCHANGED <<observed, obsId, message, draft, writerVars>>
      /\ Observing' = Observing /\ Creating' = Creating /\ Observing \cap Creating = {}
  BY SessionFrame DEF Session, Observing, Creating
<1> DEFINE next == NextChannelMessageID(0)
           first == Max({next - 1, 0})
           low == Min({job.msgHi, next - 1})
<1>3. /\ job.step = "first use"
      /\ job' = [job EXCEPT !.step = "begun"]
      /\ state' = [found |-> TRUE, verified |-> FALSE, complete |-> job.msgHi = 0,
                   maxID |-> job.msgHi, filledTo |-> first,
                   obsPrev |-> MaxObservationID, obsHi |-> MaxObservationID,
                   msgPrev |-> job.msgHi, msgHi |-> job.msgHi]
      /\ UNCHANGED <<sites, earned, dropped, dirty, clean, booted, faults>>
  BY DEF FirstUse, InJob, Proceed, ReadPast, dataVars, policyVars
<1>4. /\ overtaken \cup (aged \cap Observing) \subseteq overtaken'
      /\ {w \in Creating : draft[w] <= low} \subseteq overtaken'
      /\ overtaken' \subseteq Writers
      /\ aged' = (aged \cap Creating) \cup Observing
  BY <1>1 DEF FirstUse, ReadPast, JobTypes, Creating, Observing
<1>5. \/ UNCHANGED <<behind, moved, reported>>
      \/ behind' = TRUE /\ moved' = FALSE /\ reported' = reported \cup Missing
  BY DEF FirstUse, DropUnverified
<1>6. /\ MaxObservationID \in Nat /\ ReachedByObservations(MaxObservationID)
      /\ next \in Nat
      /\ next = 0 => \A p \in Packets : message[p] <= 0
      /\ next # 0 => next > 0 /\ \A p \in Packets : message[p] > 0 => next <= message[p]
  BY <1>1, ObservationIds, FirstAbove
<1>7. job.msgHi \in Nat /\ ReachedByMessages(job.msgHi)
  BY <1>1, Numbers DEF Marks
<1>8. first \in Nat /\ (first = next - 1 \/ (next = 0 /\ first = 0))
  <2> HIDE DEF next
  <2>1. next - 1 \in Int /\ 0 \in Int
    BY <1>6
  <2>2. first \in {next - 1, 0} /\ first >= next - 1 /\ first >= 0
    BY <2>1, OfTwo
  <2> HIDE DEF first
  <2> QED
    BY <1>6, <2>1, <2>2
<1>9. low \in Int /\ \A n \in Nat : n > low => n > job.msgHi \/ n > next - 1
  <2> HIDE DEF next
  <2>1. next - 1 \in Int /\ job.msgHi \in Int
    BY <1>6, <1>7
  <2>2. low \in {job.msgHi, next - 1}
    BY <2>1, OfTwo
  <2> HIDE DEF low
  <2> QED
    BY <2>1, <2>2
<1> HIDE DEF next, first, low
<1>10. /\ state' \in CmiState /\ state'.found = TRUE /\ state'.complete = (job.msgHi = 0)
       /\ state'.maxID = job.msgHi /\ state'.filledTo = first
       /\ state'.obsPrev = MaxObservationID /\ state'.obsHi = MaxObservationID
       /\ state'.msgPrev = job.msgHi /\ state'.msgHi = job.msgHi
  BY <1>3, <1>6, <1>7, <1>8 DEF CmiState
<1>11. /\ job' \in CmiJob /\ job'.step = "begun" /\ job'.obsHi = job.obsHi
       /\ job'.msgHi = job.msgHi /\ job'.verifying = job.verifying
  BY <1>1, <1>3 DEF CmiJob, Steps
<1>12. \A n \in Nat : n # 0 /\ (n > job.msgHi \/ n > next - 1) => ToCome(n)'
  <2> SUFFICES ASSUME NEW n \in Nat, n # 0, n > job.msgHi \/ n > next - 1
               PROVE  n > job.msgHi \/ (job.msgHi # 0 /\ first < n /\ n <= job.msgHi)
    BY <1>10 DEF ToCome, Ahead
  <2> QED
    BY <1>6, <1>7, <1>8
<1>13. \A p \in Packets : message[p] # 0 => ToCome(message[p])'
  <2> SUFFICES ASSUME NEW p \in Packets, message[p] # 0 PROVE ToCome(message[p])'
    OBVIOUS
  <2>1. message[p] \in Nat /\ message'[p] = message[p]
    BY <1>2, Numbers
  <2>2. message[p] > next - 1
    BY <1>6, <2>1
  <2>3. \A n \in Nat : n # 0 /\ n > next - 1 => ToCome(n)'
    BY <1>12
  <2> HIDE DEF ToCome
  <2> QED
    BY <2>1, <2>2, <2>3
<1>14. AllToCome'
  BY <1>2, <1>13 DEF AllToCome
<1>15. JobTypes' /\ Rows'
  <2>1. /\ {dropped, earned, behind, moved, booted} \subseteq BOOLEAN
        /\ dirty \in 0..DropAfterDirty /\ clean \in 0..RestoreAfterClean
        /\ faults \in 0..MaxFaults
    BY <1>1 DEF JobTypes
  <2>2. {dropped', earned', behind', moved', booted'} \subseteq BOOLEAN
    BY <1>3, <1>5, <2>1
  <2>3. UNCHANGED <<observed, obsId, message, writerVars>>
    BY <1>2
  <2>4. reported' \subseteq reported \cup Missing /\ sites' \subseteq sites \cup Missing
    BY <1>3, <1>5
  <2>5. /\ aged' \subseteq aged \cup Observing \cup Creating
        /\ overtaken' \subseteq Writers
    BY <1>4
  <2> QED
    BY <1>3, <1>10, <1>11, <2>1, <2>2, <2>3, <2>4, <2>5, TypesKeep
<1>16. Marks'
  <2>1. job.msgHi # 0 => first <= job.msgHi
    <3> SUFFICES ASSUME job.msgHi # 0 PROVE first <= job.msgHi
      OBVIOUS
    <3>1. PICK p \in Packets : job.msgHi = message[p]
      BY <1>7 DEF ReachedByMessages
    <3>2. next # 0 /\ next <= message[p]
      BY <1>6, <1>7, <3>1
    <3> QED
      BY <1>6, <1>7, <1>8, <3>1, <3>2
  <2>2. \A n : (ReachedByObservations(n) => ReachedByObservations(n)')
               /\ (ReachedByMessages(n) => ReachedByMessages(n)')
    BY <1>2 DEF ReachedByObservations, ReachedByMessages
  <2>3. ReachedByObservations(job.obsHi)
    BY <1>1 DEF Marks
  <2>4. ReachedByObservations(state.obsHi)' /\ ReachedByObservations(job.obsHi)'
    BY <1>6, <1>10, <1>11, <2>2, <2>3
  <2>5. ReachedByMessages(state.msgHi)' /\ ReachedByMessages(job.msgHi)'
    BY <1>7, <1>10, <1>11, <2>2
  <2>6. state'.obsPrev <= state'.obsHi /\ state'.msgPrev <= state'.msgHi
    BY <1>6, <1>7, <1>10
  <2>7. ~state'.complete => state'.filledTo <= state'.maxID
    BY <1>10, <2>1
  <2> QED
    BY <2>4, <2>5, <2>6, <2>7 DEF Marks
<1>17. (moved' => behind') /\ (~booted' => ~earned') /\ ~job'.verifying
  <2>1. (moved => behind) /\ (~booted => ~earned) /\ ~job.verifying
    BY <1>1, <1>3 DEF Stages
  <2>2. moved' => behind'
    BY <1>5, <2>1
  <2> QED
    BY <1>3, <1>11, <2>1, <2>2
<1>18. Stages'
  BY <1>10, <1>11, <1>17 DEF Stages, AfterObservations, AfterMessages, AfterSave
<1>19. ObservationsInFlight'
  BY <1>2, <1>4, <1>11, <1>14 DEF ObservationsInFlight, AfterObservations, AfterSave
<1>20. MessagesInFlight'
  <2> SUFFICES ASSUME NEW w \in Creating
               PROVE  /\ w \notin aged' => draft[w] > job.msgHi
                      /\ w \in aged' \ overtaken' => ToCome(draft[w])'
    BY <1>2, <1>10, <1>11 DEF MessagesInFlight, AfterMessages, AfterObservations, AfterSave
  <2>1. w \in Writers /\ draft[w] \in Nat /\ draft[w] # 0
    BY <1>1, Numbers DEF Attempting, Creating
  <2>2. w \notin aged' => draft[w] > job.msgHi
    BY <1>1, <1>3, <1>4 DEF MessagesInFlight
  <2>3. ASSUME w \notin overtaken' PROVE ToCome(draft[w])'
    <3>1. ~(draft[w] <= low)
      BY <1>4, <2>3
    <3>2. draft[w] > low
      BY <1>9, <2>1, <3>1
    <3>3. draft[w] > job.msgHi \/ draft[w] > next - 1
      BY <1>9, <2>1, <3>2
    <3>4. draft'[w] = draft[w]
      BY <1>2
    <3> QED
      BY <1>12, <2>1, <3>3, <3>4
  <2> QED
    BY <2>2, <2>3
<1>21. MissesCovered'
  <2> SUFFICES ASSUME NEW h \in Missing' PROVE Covered(h)'
    BY DEF MissesCovered
  <2>1. packetOf[h] \in Packets /\ message[packetOf[h]] # 0
    BY <1>2, Numbers DEF Missing, Stored
  <2>2. ToCome(message[packetOf[h]])'
    BY <1>13, <2>1
  <2>3. job'.step # "saving"
    BY <1>11
  <2> QED
    BY <1>2, <2>2, <2>3 DEF Covered, ToCome
<1>22. ReportsFilled'
  BY <1>11, <1>17 DEF ReportsFilled, Filling, AfterObservations, AfterMessages
<1>23. TrustRepaired'
  <2>1. Missing' = Missing /\ \A h : Overtaken(h) => Overtaken(h)'
    BY <1>2, <1>3, <1>4 DEF Missing, Stored, Overtaken
  <2>2. CASE UNCHANGED <<behind, moved, reported>>
    BY <1>1, <1>3, <2>1, <2>2 DEF TrustRepaired
  <2>3. CASE behind' = TRUE
    BY <2>3 DEF TrustRepaired
  <2> QED
    BY <1>5, <2>2, <2>3
<1> QED
  BY <1>15, <1>16, <1>18, <1>19, <1>20, <1>21, <1>22, <1>23 DEF TrustParts

(* A range is filled: what is still missing lies above the range.          *)
LEMMA FillByObservationsKeeps ==
  ASSUME TrustInv, FillByObservations PROVE TrustParts'
<1>1. /\ JobTypes /\ Marks /\ Stages /\ state \in CmiState /\ job \in CmiJob
      /\ ObservationsInFlight /\ MessagesInFlight /\ MissesCovered /\ ReportsFilled
      /\ TrustRepaired
  BY DEF TrustInv, TrustParts, JobTypes
<1>2. /\ UNCHANGED <<observed, obsId, message, draft, writerVars>>
      /\ Observing' = Observing /\ Creating' = Creating
      /\ \A h : h \in Missing' <=> h \in Missing /\ h \notin sites'
  BY SessionFrame DEF Session
<1> DEFINE pairs == {h \in Missing : state.obsPrev < obsId[h] /\ obsId[h] <= job.obsHi}
<1>3. /\ job.step = "filling observations" /\ sites' = sites \cup pairs
      /\ job' = [job EXCEPT !.step = "filling messages", !.repairs = @ \/ pairs # {}]
      /\ UNCHANGED <<state, earned, dropped, dirty, clean, behind, moved, booted,
                     reported, aged, overtaken, faults>>
  BY DEF FillByObservations, Fill, InJob, trustVars, policyVars, history
<1>4. \A h \in Missing' : h \in Missing /\ ~(state.obsPrev < obsId[h] /\ obsId[h] <= job.obsHi)
  BY <1>2, <1>3
<1>5. pairs \subseteq Missing
  OBVIOUS
<1> HIDE DEF pairs
<1>6. /\ job' \in CmiJob /\ job'.step = "filling messages" /\ job'.obsHi = job.obsHi
      /\ job'.msgHi = job.msgHi /\ job'.verifying = job.verifying
  BY <1>1, <1>3 DEF CmiJob, Steps
<1>7. state.found /\ state.obsHi <= job.obsHi /\ state.msgHi <= job.msgHi
  BY <1>1, <1>3 DEF Stages, AfterObservations, AfterMessages
<1>8. JobTypes' /\ Rows'
  <2>1. /\ {dropped, earned, behind, moved, booted} \subseteq BOOLEAN
        /\ dirty \in 0..DropAfterDirty /\ clean \in 0..RestoreAfterClean
        /\ faults \in 0..MaxFaults
    BY <1>1 DEF JobTypes
  <2> QED
    BY <1>1, <1>2, <1>3, <1>5, <1>6, <2>1, TypesKeep
<1>9. Marks'
  BY <1>1, <1>2, <1>3, <1>6 DEF Marks, ReachedByObservations, ReachedByMessages
<1>10. Stages'
  BY <1>1, <1>3, <1>6, <1>7 DEF Stages, AfterObservations, AfterMessages, AfterSave
<1>11. /\ \A n : (Ahead(n)' <=> Ahead(n)) /\ (ToCome(n)' <=> ToCome(n))
       /\ \A h : Overtaken(h)' <=> Overtaken(h)
       /\ AllToCome' <=> AllToCome
  BY <1>2, <1>3 DEF Ahead, ToCome, Passed, Overtaken, AllToCome
<1>12. ObservationsInFlight'
  BY <1>1, <1>2, <1>3, <1>6, <1>11 DEF ObservationsInFlight, AfterObservations, AfterSave
<1>13. MessagesInFlight'
  BY <1>1, <1>2, <1>3, <1>6, <1>11 DEF MessagesInFlight, AfterMessages, AfterObservations,
     AfterSave
<1>14. ASSUME NEW h \in Missing'
       PROVE  /\ h \in Missing /\ h \in Hearings /\ obsId[h] \in Nat
              /\ obsId[h] <= state.obsPrev \/ obsId[h] > job.obsHi
              /\ Overtaken(h) \/ Ahead(message[packetOf[h]]) \/ obsId[h] > state.obsPrev
                   \/ message[packetOf[h]] > state.msgPrev
  <2>1. h \in Missing /\ h \in Hearings /\ obsId[h] \in Nat
    BY <1>4, <1>14, Numbers DEF Missing
  <2>2. obsId[h] <= state.obsPrev \/ obsId[h] > job.obsHi
    BY <1>4, <1>14, <2>1, Numbers
  <2>3. Overtaken(h) \/ Covered(h)
    BY <1>1, <1>7, <2>1 DEF MissesCovered
  <2>4. Covered(h) => \/ Ahead(message[packetOf[h]])
                      \/ obsId[h] > state.obsPrev
                      \/ message[packetOf[h]] > state.msgPrev
    BY <1>3 DEF Covered
  <2> QED
    BY <2>1, <2>2, <2>3, <2>4
<1>15. MissesCovered'
  <2> SUFFICES ASSUME NEW h \in Missing' PROVE Overtaken(h)' \/ Covered(h)'
    BY DEF MissesCovered
  <2>1. job'.step \in {"filling messages", "saving"} /\ job'.step # "saving"
    BY <1>6
  <2>2. Covered(h)' <=> \/ Ahead(message[packetOf[h]])'
                        \/ obsId'[h] > state'.obsHi
                        \/ message'[packetOf[h]] > state'.msgPrev
    BY <2>1 DEF Covered
  <2>3. /\ Ahead(message[packetOf[h]]) => Ahead(message[packetOf[h]])'
        /\ obsId'[h] = obsId[h] /\ message'[packetOf[h]] = message[packetOf[h]]
        /\ state' = state /\ (Overtaken(h) => Overtaken(h)')
    BY <1>2, <1>3, <1>11
  <2>4. obsId[h] > state.obsPrev => obsId[h] > state.obsHi
    BY <1>7, <1>14, Numbers
  <2> QED
    BY <1>14, <2>2, <2>3, <2>4
<1>16. ReportsFilled'
  <2> SUFFICES ASSUME ~moved, NEW h \in reported, h \in Missing'
               PROVE  Overtaken(h)' \/ Filling(h)'
    BY <1>3 DEF ReportsFilled
  <2>1. Overtaken(h) \/ Filling(h)
    BY <1>1, <1>14 DEF ReportsFilled
  <2>2. Filling(h) => /\ ~job.verifying /\ obsId[h] <= job.obsHi
                      /\ message[packetOf[h]] <= job.msgHi
    BY <1>3 DEF Filling, AfterObservations, AfterMessages
  <2>3. Filling(h) => Overtaken(h) \/ ToCome(message[packetOf[h]])
    BY <1>14, <2>2, Numbers DEF ToCome
  <2>4. Filling(h) => Overtaken(h) \/ Filling(h)'
    BY <1>2, <1>6, <1>11, <2>2, <2>3 DEF Filling, AfterObservations, AfterMessages
  <2> QED
    BY <1>11, <2>1, <2>4
<1>17. TrustRepaired'
  BY <1>1, <1>3, <1>4, <1>11 DEF TrustRepaired
<1> QED
  BY <1>8, <1>9, <1>10, <1>12, <1>13, <1>15, <1>16, <1>17 DEF TrustParts

LEMMA FillByMessagesKeeps ==
  ASSUME TrustInv, FillByMessages PROVE TrustParts'
<1>1. /\ JobTypes /\ Marks /\ Stages /\ state \in CmiState /\ job \in CmiJob
      /\ ObservationsInFlight /\ MessagesInFlight /\ MissesCovered /\ ReportsFilled
      /\ TrustRepaired
  BY DEF TrustInv, TrustParts, JobTypes
<1>2. /\ UNCHANGED <<observed, obsId, message, draft, writerVars>>
      /\ Observing' = Observing /\ Creating' = Creating
      /\ \A h : h \in Missing' <=> h \in Missing /\ h \notin sites'
  BY SessionFrame DEF Session
<1> DEFINE pairs == MissingBetween(state.msgPrev, job.msgHi)
<1>3. /\ job.step = "filling messages" /\ sites' = sites \cup pairs
      /\ job' = [job EXCEPT !.step = "saving", !.repairs = @ \/ pairs # {}]
      /\ UNCHANGED <<state, earned, dropped, dirty, clean, behind, moved, booted,
                     reported, aged, overtaken, faults>>
  BY DEF FillByMessages, Fill, InJob, trustVars, policyVars, history
<1>4. \A h \in Missing' :
        /\ h \in Missing
        /\ ~(state.msgPrev < message[packetOf[h]] /\ message[packetOf[h]] <= job.msgHi)
  BY <1>2, <1>3 DEF MissingBetween
<1>5. pairs \subseteq Missing
  BY DEF MissingBetween
<1> HIDE DEF pairs
<1>6. /\ job' \in CmiJob /\ job'.step = "saving" /\ job'.obsHi = job.obsHi
      /\ job'.msgHi = job.msgHi /\ job'.verifying = job.verifying
  BY <1>1, <1>3 DEF CmiJob, Steps
<1>7. state.found /\ state.obsHi <= job.obsHi /\ state.msgHi <= job.msgHi
  BY <1>1, <1>3 DEF Stages, AfterObservations, AfterMessages
<1>8. JobTypes' /\ Rows'
  <2>1. /\ {dropped, earned, behind, moved, booted} \subseteq BOOLEAN
        /\ dirty \in 0..DropAfterDirty /\ clean \in 0..RestoreAfterClean
        /\ faults \in 0..MaxFaults
    BY <1>1 DEF JobTypes
  <2> QED
    BY <1>1, <1>2, <1>3, <1>5, <1>6, <2>1, TypesKeep
<1>9. Marks'
  BY <1>1, <1>2, <1>3, <1>6 DEF Marks, ReachedByObservations, ReachedByMessages
<1>10. Stages'
  BY <1>1, <1>3, <1>6, <1>7 DEF Stages, AfterObservations, AfterMessages, AfterSave
<1>11. /\ \A n : (Ahead(n)' <=> Ahead(n)) /\ (ToCome(n)' <=> ToCome(n))
       /\ \A h : Overtaken(h)' <=> Overtaken(h)
       /\ AllToCome' <=> AllToCome
  BY <1>2, <1>3 DEF Ahead, ToCome, Passed, Overtaken, AllToCome
<1>12. ObservationsInFlight'
  BY <1>1, <1>2, <1>3, <1>6, <1>11 DEF ObservationsInFlight, AfterObservations, AfterSave
<1>13. MessagesInFlight'
  BY <1>1, <1>2, <1>3, <1>6, <1>11 DEF MessagesInFlight, AfterMessages, AfterObservations,
     AfterSave
<1>14. ASSUME NEW h \in Missing'
       PROVE  /\ h \in Missing /\ message[packetOf[h]] \in Nat
              /\ message[packetOf[h]] <= state.msgPrev \/ message[packetOf[h]] > job.msgHi
              /\ Overtaken(h) \/ Ahead(message[packetOf[h]]) \/ obsId[h] > state.obsHi
                   \/ message[packetOf[h]] > state.msgPrev
  <2>1. h \in Missing /\ message[packetOf[h]] \in Nat
    BY <1>4, <1>14, Numbers DEF Missing
  <2>2. message[packetOf[h]] <= state.msgPrev \/ message[packetOf[h]] > job.msgHi
    BY <1>4, <1>14, <2>1, Numbers
  <2>3. Overtaken(h) \/ Covered(h)
    BY <1>1, <1>7, <2>1 DEF MissesCovered
  <2>4. Covered(h) => \/ Ahead(message[packetOf[h]])
                      \/ obsId[h] > state.obsHi
                      \/ message[packetOf[h]] > state.msgPrev
    BY <1>3 DEF Covered
  <2> QED
    BY <2>1, <2>2, <2>3, <2>4
<1>15. MissesCovered'
  <2> SUFFICES ASSUME NEW h \in Missing' PROVE Overtaken(h)' \/ Covered(h)'
    BY DEF MissesCovered
  <2>1. job'.step \in {"filling messages", "saving"} /\ job'.step = "saving"
    BY <1>6
  <2>2. Covered(h)' <=> \/ Ahead(message[packetOf[h]])'
                        \/ obsId'[h] > state'.obsHi
                        \/ message'[packetOf[h]] > state'.msgHi
    BY <2>1 DEF Covered
  <2>3. /\ Ahead(message[packetOf[h]]) => Ahead(message[packetOf[h]])'
        /\ obsId'[h] = obsId[h] /\ message'[packetOf[h]] = message[packetOf[h]]
        /\ state' = state /\ (Overtaken(h) => Overtaken(h)')
    BY <1>2, <1>3, <1>11
  <2>4. message[packetOf[h]] > state.msgPrev => message[packetOf[h]] > state.msgHi
    BY <1>7, <1>14, Numbers
  <2> QED
    BY <1>14, <2>2, <2>3, <2>4
<1>16. ReportsFilled'
  <2> SUFFICES ASSUME ~moved, NEW h \in reported, h \in Missing'
               PROVE  Overtaken(h)' \/ Filling(h)'
    BY <1>3 DEF ReportsFilled
  <2>1. Overtaken(h) \/ Filling(h)
    BY <1>1, <1>14 DEF ReportsFilled
  <2>2. Filling(h) => /\ ~job.verifying /\ obsId[h] <= job.obsHi
                      /\ message[packetOf[h]] <= job.msgHi
                      /\ ToCome(message[packetOf[h]])
    BY <1>3 DEF Filling, AfterObservations, AfterMessages
  <2>3. Filling(h) => Ahead(message[packetOf[h]])
    BY <1>14, <2>2, Numbers DEF ToCome
  <2>4. Filling(h) => Filling(h)'
    BY <1>2, <1>6, <1>11, <2>2, <2>3 DEF Filling, AfterObservations, AfterMessages
  <2> QED
    BY <1>11, <2>1, <2>4
<1>17. TrustRepaired'
  BY <1>1, <1>3, <1>4, <1>11 DEF TrustRepaired
<1> QED
  BY <1>8, <1>9, <1>10, <1>12, <1>13, <1>15, <1>16, <1>17 DEF TrustParts

(* The watermarks are saved: what they were is the start of the next       *)
(* range.                                                                  *)
LEMMA SaveKeeps ==
  ASSUME TrustInv, Save PROVE TrustParts'
<1>1. /\ JobTypes /\ Marks /\ Stages /\ state \in CmiState /\ job \in CmiJob
      /\ ObservationsInFlight /\ MessagesInFlight /\ MissesCovered /\ ReportsFilled
      /\ TrustRepaired
  BY DEF TrustInv, TrustParts, JobTypes
<1>2. /\ UNCHANGED <<observed, obsId, message, draft, writerVars>>
      /\ Observing' = Observing /\ Creating' = Creating
      /\ Missing' = {h \in Missing : h \notin sites'}
  BY SessionFrame DEF Session
<1> DEFINE o == Max({job.obsHi, state.obsHi})
           m == Max({job.msgHi, state.msgHi})
           to == IF job.verifying THEN "checking"
                 ELSE IF state.complete THEN "repaired" ELSE "backfilling"
<1>3. /\ job.step = "saving" /\ job' = [job EXCEPT !.step = to]
      /\ state' = [state EXCEPT !.obsPrev = state.obsHi, !.obsHi = o,
                                !.msgPrev = state.msgHi, !.msgHi = m]
      /\ UNCHANGED <<sites, behind, moved, booted, reported, aged, overtaken, faults>>
  BY DEF Save, InJob, Proceed, dataVars, history
<1>4. UNCHANGED policyVars \/ ObserveRun
  BY DEF Save
<1>5. state.found /\ state.obsHi <= job.obsHi /\ state.msgHi <= job.msgHi
  BY <1>1, <1>3 DEF Stages, AfterObservations, AfterMessages
<1>6. o = job.obsHi /\ m = job.msgHi
  <2>1. /\ job.obsHi \in Int /\ state.obsHi \in Int /\ job.msgHi \in Int /\ state.msgHi \in Int
    BY Numbers
  <2>2. /\ o \in {job.obsHi, state.obsHi} /\ o >= job.obsHi
        /\ m \in {job.msgHi, state.msgHi} /\ m >= job.msgHi
    BY <2>1, OfTwo
  <2> HIDE DEF o, m
  <2> QED
    BY <1>5, <2>1, <2>2
<1> HIDE DEF o, m
<1>7. /\ state' \in CmiState /\ state'.found = state.found /\ state'.complete = state.complete
      /\ state'.filledTo = state.filledTo /\ state'.maxID = state.maxID
      /\ state'.obsPrev = state.obsHi /\ state'.obsHi = job.obsHi
      /\ state'.msgPrev = state.msgHi /\ state'.msgHi = job.msgHi
  BY <1>1, <1>3, <1>6, Numbers DEF CmiState
<1>8. /\ \/ job.verifying /\ to = "checking"
         \/ ~job.verifying /\ state.complete /\ to = "repaired"
         \/ ~job.verifying /\ ~state.complete /\ to = "backfilling"
      /\ to \in {"checking", "repaired", "backfilling"}
  OBVIOUS
<1> HIDE DEF to
<1>9. /\ job' \in CmiJob /\ job'.step = to /\ job'.obsHi = job.obsHi
      /\ job'.msgHi = job.msgHi /\ job'.verifying = job.verifying
  BY <1>1, <1>3, <1>8 DEF CmiJob, Steps
<1>10. /\ earned' = earned /\ dropped' \in BOOLEAN
       /\ dirty' \in 0..DropAfterDirty /\ clean' \in 0..RestoreAfterClean
  <2>1. /\ dropped \in BOOLEAN /\ dirty \in 0..DropAfterDirty
        /\ clean \in 0..RestoreAfterClean
        /\ DropAfterDirty \in Nat \ {0} /\ RestoreAfterClean \in Nat \ {0}
    BY <1>1, ReadModelAssumption DEF JobTypes
  <2>2. CASE UNCHANGED policyVars
    BY <2>1, <2>2 DEF policyVars
  <2>3. CASE ObserveRun
    <3>1. /\ dirty + 1 \in Int /\ clean + 1 \in Int /\ DropAfterDirty \in Int
          /\ RestoreAfterClean \in Int
      BY <2>1
    <3>2. /\ Min({dirty + 1, DropAfterDirty}) \in {dirty + 1, DropAfterDirty}
          /\ Min({dirty + 1, DropAfterDirty}) <= DropAfterDirty
          /\ Min({clean + 1, RestoreAfterClean}) \in {clean + 1, RestoreAfterClean}
          /\ Min({clean + 1, RestoreAfterClean}) <= RestoreAfterClean
      BY <3>1, OfTwo
    <3>3. /\ Min({dirty + 1, DropAfterDirty}) \in 0..DropAfterDirty
          /\ Min({clean + 1, RestoreAfterClean}) \in 0..RestoreAfterClean
      BY <2>1, <3>2
    <3>4. /\ earned' = earned
          /\ dirty' \in {dirty, 0, Min({dirty + 1, DropAfterDirty})}
          /\ clean' \in {clean, 0, Min({clean + 1, RestoreAfterClean})}
      BY <2>3 DEF ObserveRun, policyVars
    <3>5. \/ dropped' = dropped
          \/ dropped' = (dropped \/ dirty' >= DropAfterDirty)
          \/ dropped' = (dropped /\ clean' < RestoreAfterClean)
      BY <2>3 DEF ObserveRun, policyVars
    <3>6. dropped' \in BOOLEAN
      BY <2>1, <3>5
    <3> QED
      BY <2>1, <3>3, <3>4, <3>6
  <2> QED
    BY <1>4, <2>2, <2>3
<1>11. JobTypes' /\ Rows'
  <2>1. {earned, behind, moved, booted} \subseteq BOOLEAN /\ faults \in 0..MaxFaults
    BY <1>1 DEF JobTypes
  <2>2. /\ sites' \subseteq sites \cup Missing /\ reported' \subseteq reported \cup Missing
        /\ aged' \subseteq aged \cup Observing \cup Creating
        /\ overtaken' \subseteq overtaken \cup Writers
        /\ faults' \in 0..MaxFaults
        /\ {earned', dropped', behind', moved', booted'} \subseteq BOOLEAN
    BY <1>3, <1>10, <2>1
  <2> QED
    BY <1>2, <1>7, <1>9, <1>10, <2>2, TypesKeep
<1>12. Marks'
  <2>1. \A n : (ReachedByObservations(n) => ReachedByObservations(n)')
               /\ (ReachedByMessages(n) => ReachedByMessages(n)')
    BY <1>2 DEF ReachedByObservations, ReachedByMessages
  <2>2. /\ ReachedByObservations(job.obsHi) /\ ReachedByMessages(job.msgHi)
        /\ ~state.complete => state.filledTo <= state.maxID
    BY <1>1 DEF Marks
  <2>3. ReachedByObservations(state.obsHi)' /\ ReachedByObservations(job.obsHi)'
    BY <1>7, <1>9, <2>1, <2>2
  <2>4. ReachedByMessages(state.msgHi)' /\ ReachedByMessages(job.msgHi)'
    BY <1>7, <1>9, <2>1, <2>2
  <2> QED
    BY <1>5, <1>7, <2>2, <2>3, <2>4 DEF Marks
<1>13. Stages'
  <2>1. (moved => behind) /\ (~booted => ~earned) /\ (job.verifying => state.complete /\ booted)
    BY <1>1 DEF Stages
  <2>2. (moved' => behind') /\ (~booted' => ~earned')
    BY <1>3, <1>10, <2>1
  <2>3. job'.step \in {"checking", "repaired", "backfilling"} /\ state'.found
    BY <1>5, <1>7, <1>8, <1>9
  <2>4. /\ job'.step \in {"repaired", "checking"} => state'.complete
        /\ job'.step = "checking" => job'.verifying
        /\ job'.verifying => state'.complete /\ booted'
    BY <1>3, <1>7, <1>8, <1>9, <2>1
  <2> QED
    BY <2>2, <2>3, <2>4 DEF Stages, AfterObservations, AfterMessages
<1>14. /\ \A n : Ahead(n)' <=> Ahead(n)
       /\ \A h : Overtaken(h) => Overtaken(h)'
       /\ Missing' = Missing
  BY <1>2, <1>3, <1>7 DEF Ahead, Overtaken, Missing, Stored
<1>15. job'.step \notin AfterObservations \cup AfterMessages \cup {"first use"}
  BY <1>8, <1>9 DEF AfterObservations, AfterMessages
<1>16. ObservationsInFlight'
  <2> SUFFICES ASSUME NEW h \in Observing
               PROVE  /\ h \notin aged => obsId[h] > job.obsHi
                      /\ h \in aged \ overtaken => obsId[h] > state.obsHi
    BY <1>2, <1>3, <1>7, <1>15 DEF ObservationsInFlight
  <2> QED
    BY <1>1, <1>3, <1>5 DEF ObservationsInFlight, AfterObservations
<1>17. MessagesInFlight'
  <2> SUFFICES ASSUME NEW w \in Creating
               PROVE  /\ w \notin aged => draft[w] > job.msgHi
                      /\ w \in aged \ overtaken => draft[w] > state.msgHi
    BY <1>2, <1>3, <1>7, <1>15 DEF MessagesInFlight, ToCome
  <2> QED
    BY <1>1, <1>3, <1>5 DEF MessagesInFlight, AfterMessages, AfterObservations
<1>18. MissesCovered'
  <2> SUFFICES ASSUME NEW h \in Missing PROVE Overtaken(h)' \/ Covered(h)'
    BY <1>14 DEF MissesCovered
  <2>1. Overtaken(h) \/ Covered(h)
    BY <1>1, <1>5 DEF MissesCovered
  <2>2. Covered(h) => \/ Ahead(message[packetOf[h]])
                      \/ obsId[h] > state.obsHi
                      \/ message[packetOf[h]] > state.msgHi
    BY <1>3 DEF Covered
  <2>3. job'.step \notin {"filling messages", "saving"} /\ job'.step # "saving"
    BY <1>8, <1>9
  <2>4. Covered(h)' <=> \/ Ahead(message[packetOf[h]])'
                        \/ obsId'[h] > state'.obsPrev
                        \/ message'[packetOf[h]] > state'.msgPrev
    BY <2>3 DEF Covered
  <2>5. /\ Ahead(message[packetOf[h]]) => Ahead(message[packetOf[h]])'
        /\ obsId'[h] = obsId[h] /\ message'[packetOf[h]] = message[packetOf[h]]
        /\ Overtaken(h) => Overtaken(h)'
    BY <1>2, <1>14
  <2> QED
    BY <1>7, <2>1, <2>2, <2>4, <2>5
<1>19. ReportsFilled'
  <2> SUFFICES ASSUME ~moved, NEW h \in reported \cap Missing
               PROVE  Overtaken(h)' \/ Filling(h)'
    BY <1>3, <1>14 DEF ReportsFilled
  <2>1. Overtaken(h) \/ Filling(h)
    BY <1>1 DEF ReportsFilled
  <2>2. Filling(h) => ~job.verifying /\ Ahead(message[packetOf[h]])
    BY <1>3 DEF Filling
  <2>3. Filling(h) => ~job.verifying /\ ~state.complete
    BY <2>2 DEF Ahead
  <2>4. Filling(h) => ~job'.verifying /\ job'.step = "backfilling"
    BY <1>8, <1>9, <2>3
  <2>5. Ahead(message[packetOf[h]]) => Ahead(message[packetOf[h]])'
    BY <1>2, <1>14
  <2>6. Filling(h) => Filling(h)'
    BY <2>2, <2>4, <2>5 DEF Filling, AfterObservations, AfterMessages
  <2> QED
    BY <1>14, <2>1, <2>6
<1>20. TrustRepaired'
  BY <1>1, <1>3, <1>10, <1>14 DEF TrustRepaired
<1> QED
  BY <1>11, <1>12, <1>13, <1>16, <1>17, <1>18, <1>19, <1>20 DEF TrustParts

(* The backfill goes from message to message: none is between where it is  *)
(* and the next it finds.                                                  *)
LEMMA BackfillKeeps ==
  ASSUME TrustInv, Backfill PROVE TrustParts'
<1>1. /\ JobTypes /\ Marks /\ Stages /\ state \in CmiState /\ job \in CmiJob
      /\ ObservationsInFlight /\ MessagesInFlight /\ MissesCovered /\ ReportsFilled
      /\ TrustRepaired /\ Typed /\ obsId \in [Hearings -> Nat]
  BY DEF TrustInv, TrustParts, IInv, JobTypes
<1>2. /\ UNCHANGED <<observed, obsId, message, draft, writerVars>>
      /\ Observing' = Observing /\ Creating' = Creating
      /\ \A h : h \in Missing' <=> h \in Missing /\ h \notin sites'
  BY SessionFrame DEF Session
<1> DEFINE next == NextChannelMessageID(state.filledTo)
           hi == Min({next - 1 + Batch, state.maxID})
           done == next = 0 \/ next > state.maxID
<1>3. /\ next \in Nat
      /\ next = 0 => \A p \in Packets : message[p] <= state.filledTo
      /\ next # 0 => /\ next > state.filledTo
                     /\ \A p \in Packets : message[p] > state.filledTo => next <= message[p]
  BY <1>1, FirstAbove, Numbers
<1>4. /\ job.step = "backfilling" /\ state.found
      /\ UNCHANGED <<earned, dropped, dirty, clean, behind, moved, booted, reported, aged,
                     overtaken, faults>>
  BY <1>1 DEF Backfill, InJob, Fill, trustVars, policyVars, history, Stages, AfterSave
<1>5. \/ /\ done /\ state' = [state EXCEPT !.complete = TRUE] /\ UNCHANGED sites
         /\ job' = [job EXCEPT !.step = "repaired"] \/ job' = NoJob
      \/ /\ ~done /\ state' = [state EXCEPT !.filledTo = hi]
         /\ sites' = sites \cup MissingBetween(next - 1, hi)
         /\ \E step \in {"backfilling", "stopping"} :
              job' = [job EXCEPT !.step = step,
                                 !.repairs = @ \/ MissingBetween(next - 1, hi) # {}]
  BY DEF Backfill, Proceed, Close, Fill, dataVars
<1>6. /\ NoJob \in CmiJob /\ NoJob.step = "closed" /\ ~NoJob.verifying
      /\ NoJob.obsHi = 0 /\ NoJob.msgHi = 0
  BY DEF NoJob, CmiJob, Steps
<1>7. MissingBetween(next - 1, hi) \subseteq Missing
  BY DEF MissingBetween
<1>8. /\ {dropped, earned, behind, moved, booted} \subseteq BOOLEAN
      /\ dirty \in 0..DropAfterDirty /\ clean \in 0..RestoreAfterClean
      /\ faults \in 0..MaxFaults
  BY <1>1 DEF JobTypes
<1>9. ASSUME state' \in CmiState, job' \in CmiJob PROVE JobTypes' /\ Rows'
  <2>1. sites' \subseteq sites \cup Missing
    BY <1>5, <1>7
  <2> QED
    BY <1>2, <1>4, <1>8, <1>9, <2>1, TypesKeep
<1>10. /\ (moved' => behind') /\ (~booted' => ~earned')
       /\ job.verifying => state.complete /\ booted'
  BY <1>1, <1>4 DEF Stages
<1>11. /\ \A n : (ReachedByObservations(n) => ReachedByObservations(n)')
                 /\ (ReachedByMessages(n) => ReachedByMessages(n)')
       /\ \A h : Overtaken(h) => Overtaken(h)'
       /\ Missing' \subseteq Missing
  BY <1>2, <1>4 DEF ReachedByObservations, ReachedByMessages, Overtaken
<1>12. TrustRepaired'
  BY <1>1, <1>4, <1>11 DEF TrustRepaired
<1>13. /\ \A h \in Observing : h \notin aged => obsId[h] > state.obsHi
       /\ \A h \in Observing : h \in aged \ overtaken => obsId[h] > state.obsPrev
       /\ \A w \in Creating : w \notin aged => draft[w] > state.msgHi
       /\ \A w \in Creating : w \in aged \ overtaken => draft[w] > state.msgPrev
  BY <1>1, <1>4 DEF ObservationsInFlight, MessagesInFlight, AfterSave
<1>14. ASSUME state'.obsHi = state.obsHi, state'.obsPrev = state.obsPrev,
              state'.msgHi = state.msgHi, state'.msgPrev = state.msgPrev,
              job'.step \in {"closed", "repaired", "backfilling", "stopping"}
       PROVE  ObservationsInFlight' /\ MessagesInFlight'
  <2>1. job'.step \notin AfterObservations \cup AfterMessages \cup {"first use"}
    BY <1>14 DEF AfterObservations, AfterMessages
  <2>2. ObservationsInFlight'
    BY <1>2, <1>4, <1>13, <1>14, <2>1 DEF ObservationsInFlight
  <2>3. MessagesInFlight'
    BY <1>2, <1>4, <1>13, <1>14, <2>1 DEF MessagesInFlight, ToCome
  <2> QED
    BY <2>2, <2>3
<1>15. ASSUME NEW h \in Missing
       PROVE  /\ packetOf[h] \in Packets /\ message[packetOf[h]] \in Nat
              /\ \/ Overtaken(h) \/ Ahead(message[packetOf[h]])
                 \/ obsId[h] > state.obsPrev \/ message[packetOf[h]] > state.msgPrev
  <2>1. packetOf[h] \in Packets /\ message[packetOf[h]] \in Nat
    BY Numbers DEF Missing
  <2>2. Overtaken(h) \/ Covered(h)
    BY <1>1, <1>4 DEF MissesCovered
  <2>3. Covered(h) => \/ Ahead(message[packetOf[h]])
                      \/ obsId[h] > state.obsPrev
                      \/ message[packetOf[h]] > state.msgPrev
    BY <1>4 DEF Covered
  <2> QED
    BY <2>1, <2>2, <2>3
<1>16. ASSUME state'.obsPrev = state.obsPrev, state'.msgPrev = state.msgPrev,
              job'.step \notin {"filling messages", "saving"},
              \A h \in Missing' :
                Ahead(message[packetOf[h]]) => Ahead(message[packetOf[h]])'
       PROVE  MissesCovered'
  <2> SUFFICES ASSUME NEW h \in Missing' PROVE Overtaken(h)' \/ Covered(h)'
    BY DEF MissesCovered
  <2>1. job'.step \notin {"filling messages", "saving"} /\ job'.step # "saving"
    BY <1>16
  <2>2. Covered(h)' <=> \/ Ahead(message[packetOf[h]])'
                        \/ obsId'[h] > state'.obsPrev
                        \/ message'[packetOf[h]] > state'.msgPrev
    BY <2>1 DEF Covered
  <2>3. /\ h \in Missing /\ obsId'[h] = obsId[h]
        /\ message'[packetOf[h]] = message[packetOf[h]]
        /\ Ahead(message[packetOf[h]]) => Ahead(message[packetOf[h]])'
        /\ Overtaken(h) => Overtaken(h)'
    BY <1>2, <1>11, <1>16
  <2> QED
    BY <1>15, <1>16, <2>2, <2>3
<1>17. ASSUME ~moved, NEW h \in reported, h \in Missing
       PROVE  Overtaken(h) \/ (Ahead(message[packetOf[h]]) /\ ~job.verifying)
  BY <1>1, <1>4, <1>17 DEF ReportsFilled, Filling
<1>18. CASE done
  <2>1. /\ state' = [state EXCEPT !.complete = TRUE] /\ UNCHANGED sites
        /\ job' = [job EXCEPT !.step = "repaired"] \/ job' = NoJob
    BY <1>5, <1>18
  <2>2. \A h \in Missing : ~Ahead(message[packetOf[h]])
    <3> SUFFICES ASSUME NEW h \in Missing PROVE ~Ahead(message[packetOf[h]])
      OBVIOUS
    <3>1. packetOf[h] \in Packets /\ message[packetOf[h]] \in Nat
      BY <1>15
    <3>2. state.filledTo \in Nat /\ state.maxID \in Nat
      BY Numbers
    <3> HIDE DEF next
    <3> QED
      BY <1>3, <1>18, <3>1, <3>2 DEF Ahead
  <2> HIDE DEF next, hi
  <2>3. /\ state' \in CmiState /\ state'.found = state.found /\ state'.complete = TRUE
        /\ state'.filledTo = state.filledTo /\ state'.maxID = state.maxID
        /\ state'.obsPrev = state.obsPrev /\ state'.obsHi = state.obsHi
        /\ state'.msgPrev = state.msgPrev /\ state'.msgHi = state.msgHi
    BY <1>1, <2>1 DEF CmiState
  <2>4. /\ job' \in CmiJob
        /\ \/ /\ job'.step = "repaired" /\ job'.obsHi = job.obsHi /\ job'.msgHi = job.msgHi
              /\ job'.verifying = job.verifying
           \/ /\ job'.step = "closed" /\ job'.obsHi = 0 /\ job'.msgHi = 0
              /\ ~job'.verifying
    BY <1>1, <1>6, <2>1 DEF CmiJob, Steps
  <2>5. Marks'
    <3>1. ReachedByObservations(0) /\ ReachedByMessages(0)
      BY DEF ReachedByObservations, ReachedByMessages
    <3>2. ReachedByObservations(state.obsHi)' /\ ReachedByObservations(job.obsHi)'
      BY <1>1, <1>11, <2>3, <2>4, <3>1 DEF Marks
    <3>3. ReachedByMessages(state.msgHi)' /\ ReachedByMessages(job.msgHi)'
      BY <1>1, <1>11, <2>3, <2>4, <3>1 DEF Marks
    <3> QED
      BY <1>1, <2>3, <3>2, <3>3 DEF Marks
  <2>6. Stages'
    <3>1. /\ job'.step \in {"closed", "repaired"} /\ state'.found /\ state'.complete
          /\ job'.verifying => booted'
          /\ job'.step = "closed" => ~job'.verifying
      BY <1>4, <1>10, <2>3, <2>4
    <3> QED
      BY <1>10, <3>1 DEF Stages, AfterObservations, AfterMessages, AfterSave
  <2>7. MissesCovered'
    BY <1>11, <1>16, <2>2, <2>3, <2>4
  <2>8. ReportsFilled'
    <3> SUFFICES ASSUME ~moved', NEW h \in reported' \cap Missing' PROVE Overtaken(h)'
      BY DEF ReportsFilled
    <3>1. ~moved /\ h \in reported /\ h \in Missing
      BY <1>4, <1>11
    <3> QED
      BY <1>11, <1>17, <2>2, <3>1
  <2>9. JobTypes' /\ Rows' /\ ObservationsInFlight' /\ MessagesInFlight'
    BY <1>9, <1>14, <2>3, <2>4
  <2> QED
    BY <1>12, <2>5, <2>6, <2>7, <2>8, <2>9 DEF TrustParts
<1>19. CASE ~done
  <2>1. /\ state' = [state EXCEPT !.filledTo = hi]
        /\ sites' = sites \cup MissingBetween(next - 1, hi)
        /\ next # 0 /\ next <= state.maxID
    BY <1>3, <1>5, <1>19, Numbers
  <2>2. PICK step \in {"backfilling", "stopping"} :
          job' = [job EXCEPT !.step = step,
                             !.repairs = @ \/ MissingBetween(next - 1, hi) # {}]
    BY <1>5, <1>19
  <2>3. hi \in Nat /\ hi <= state.maxID
    <3> HIDE DEF next
    <3>1. next - 1 + Batch \in Nat /\ next - 1 + Batch \in Int
          /\ state.maxID \in Nat /\ state.maxID \in Int
      BY <1>3, <2>1, ReadModelAssumption, Numbers
    <3>2. hi \in {next - 1 + Batch, state.maxID} /\ hi <= state.maxID
      BY <3>1, OfTwo
    <3> HIDE DEF hi
    <3> QED
      BY <3>1, <3>2
  <2>4. \A h \in Missing' : Ahead(message[packetOf[h]]) =>
          /\ ~state.complete /\ hi < message[packetOf[h]]
          /\ message[packetOf[h]] <= state.maxID
    <3> SUFFICES ASSUME NEW h \in Missing', Ahead(message[packetOf[h]])
                 PROVE  /\ ~state.complete /\ hi < message[packetOf[h]]
                        /\ message[packetOf[h]] <= state.maxID
      OBVIOUS
    <3>1. h \in Missing /\ h \notin MissingBetween(next - 1, hi)
      BY <1>2, <2>1
    <3>2. packetOf[h] \in Packets /\ message[packetOf[h]] \in Nat
      BY <1>15, <3>1
    <3>3. ~(next - 1 < message[packetOf[h]] /\ message[packetOf[h]] <= hi)
      BY <3>1 DEF MissingBetween
    <3>4. /\ ~state.complete /\ state.filledTo < message[packetOf[h]]
          /\ message[packetOf[h]] <= state.maxID
      BY DEF Ahead
    <3> HIDE DEF next, hi
    <3>5. next <= message[packetOf[h]]
      BY <1>3, <2>1, <3>2, <3>4
    <3> QED
      BY <1>3, <2>3, <3>2, <3>3, <3>4, <3>5
  <2> DEFINE pairs == MissingBetween(next - 1, hi)
  <2> HIDE DEF next, hi, pairs
  <2>5. /\ state' \in CmiState /\ state'.found = state.found
        /\ state'.complete = state.complete
        /\ state'.filledTo = hi /\ state'.maxID = state.maxID
        /\ state'.obsPrev = state.obsPrev /\ state'.obsHi = state.obsHi
        /\ state'.msgPrev = state.msgPrev /\ state'.msgHi = state.msgHi
    BY <1>1, <2>1, <2>3 DEF CmiState
  <2>6. /\ job' \in CmiJob /\ job'.step \in {"backfilling", "stopping"}
        /\ job'.obsHi = job.obsHi /\ job'.msgHi = job.msgHi
        /\ job'.verifying = job.verifying
    BY <1>1, <2>2 DEF CmiJob, Steps
  <2>7. \A h \in Missing' : Ahead(message[packetOf[h]]) => Ahead(message[packetOf[h]])'
    <3> SUFFICES ASSUME NEW h \in Missing', Ahead(message[packetOf[h]])
                 PROVE  Ahead(message[packetOf[h]])'
      OBVIOUS
    <3>1. message'[packetOf[h]] = message[packetOf[h]]
      BY <1>2
    <3> QED
      BY <2>4, <2>5, <3>1 DEF Ahead
  <2>8. Marks'
    <3>1. ReachedByObservations(state.obsHi)' /\ ReachedByObservations(job.obsHi)'
      BY <1>1, <1>11, <2>5, <2>6 DEF Marks
    <3>2. ReachedByMessages(state.msgHi)' /\ ReachedByMessages(job.msgHi)'
      BY <1>1, <1>11, <2>5, <2>6 DEF Marks
    <3> QED
      BY <1>1, <2>3, <2>5, <3>1, <3>2 DEF Marks
  <2>9. Stages'
    <3>1. /\ job'.step \in {"backfilling", "stopping"} /\ state'.found
          /\ job'.verifying => state'.complete /\ booted'
      BY <1>4, <1>10, <2>5, <2>6
    <3> QED
      BY <1>10, <3>1 DEF Stages, AfterObservations, AfterMessages, AfterSave
  <2>10. MissesCovered'
    BY <1>16, <2>5, <2>6, <2>7
  <2>11. ReportsFilled'
    <3> SUFFICES ASSUME ~moved', NEW h \in reported', h \in Missing'
                 PROVE  Overtaken(h)' \/ Filling(h)'
      BY DEF ReportsFilled
    <3>1. ~moved /\ h \in reported /\ h \in Missing
      BY <1>4, <1>11
    <3>2. Overtaken(h) \/ (Ahead(message[packetOf[h]])' /\ ~job'.verifying)
      BY <1>17, <2>6, <2>7, <3>1
    <3> QED
      BY <1>11, <2>6, <3>2 DEF Filling, AfterObservations, AfterMessages
  <2>12. JobTypes' /\ Rows' /\ ObservationsInFlight' /\ MessagesInFlight'
    BY <1>9, <1>14, <2>5, <2>6
  <2> QED
    BY <1>12, <2>8, <2>9, <2>10, <2>11, <2>12 DEF TrustParts
<1> QED
  BY <1>18, <1>19

(* A crash, and a rebuild of the table between two sessions.               *)
LEMMA CrashKeeps ==
  ASSUME TrustInv, Crash PROVE TrustParts'
<1>1. JobTypes /\ Rows /\ Typed /\ Stages /\ state \in CmiState
  BY DEF TrustInv, TrustParts, IInv, JobTypes
<1>2. /\ phase' = [w \in Writers |->
                     IF UnderWay(w) /\ w \notin Observing \cup Creating THEN "done"
                                                                      ELSE phase[w]]
      /\ orphans' = Observing \cup Creating /\ job' = NoJob
      /\ earned' = FALSE /\ dropped' = FALSE /\ dirty' = 0 /\ clean' = 0
      /\ behind' = FALSE /\ moved' = FALSE /\ booted' = FALSE
      /\ UNCHANGED <<observed, obsId, message, sites, state, draft, seen, recorded, keyed,
                     reported, aged, overtaken>>
  BY DEF Crash, Close, dataVars
<1>3. /\ NoJob \in CmiJob /\ NoJob.step = "closed" /\ ~NoJob.verifying
      /\ NoJob.obsHi = 0 /\ NoJob.msgHi = 0
  BY DEF NoJob, CmiJob, Steps
<1>4. Observing' = Observing /\ Creating' = Creating
  BY <1>1, <1>2, Numbers DEF Observing, Creating, Typed
<1>5. JobTypes'
  <2>1. DropAfterDirty \in Nat /\ RestoreAfterClean \in Nat
    BY ReadModelAssumption
  <2>2. dirty' \in 0..DropAfterDirty /\ clean' \in 0..RestoreAfterClean
    BY <1>2, <2>1
  <2>3. {keyed', earned', dropped', behind', moved', booted'} \subseteq BOOLEAN
    BY <1>1, <1>2 DEF JobTypes
  <2>4. faults' \in 0..MaxFaults
    BY <1>1, ReadModelAssumption DEF Crash, Fault, JobTypes
  <2> QED
    BY <1>1, <1>2, <1>3, <2>2, <2>3, <2>4 DEF JobTypes
<1>6. Rows'
  <2>1. \A h \in observed' : phase'[h] \notin {"new", "observing"}
    BY <1>1, <1>2, Numbers DEF Rows, Typed
  <2>2. \A w \in Writers : seen'[w] \subseteq HearingsOf(packetOf[w])'
    BY <1>1, <1>2 DEF Rows, HearingsOf
  <2>3. sites' \subseteq Due' /\ reported' \subseteq Due'
    BY <1>1, <1>2 DEF Rows, Due
  <2>4. orphans' \cup aged' \subseteq Observing' \cup Creating'
    BY <1>1, <1>2, <1>4 DEF Rows
  <2> QED
    BY <2>1, <2>2, <2>3, <2>4 DEF Rows
<1>7. Rests
  BY <1>2, <1>3, <1>4 DEF Rests
<1>8. Stages'
  BY <1>2, <1>3 DEF Stages, AfterObservations, AfterMessages, AfterSave
<1>9. TrustRepaired'
  BY <1>2 DEF TrustRepaired
<1> QED
  BY <1>2, <1>3, <1>5, <1>6, <1>7, <1>8, <1>9, RestsKeep DEF TrustParts

LEMMA RebuildKeeps ==
  ASSUME TrustInv, Rebuild PROVE TrustParts'
<1>1. JobTypes /\ Rows /\ Typed /\ Stages /\ TrustRepaired
  BY DEF TrustInv, TrustParts, IInv
<1>2. /\ job = NoJob /\ sites' = {} /\ state' = Fresh /\ reported' = reported \cap Missing
      /\ UNCHANGED <<observed, obsId, message, phase, draft, seen, recorded, orphans, keyed,
                     earned, dropped, dirty, clean, behind, moved, job, booted, aged,
                     overtaken>>
  BY DEF Rebuild, writerVars, trustVars, policyVars
<1>3. /\ Fresh \in CmiState /\ ~Fresh.found /\ ~Fresh.complete
      /\ Fresh.obsPrev = 0 /\ Fresh.obsHi = 0 /\ Fresh.msgPrev = 0 /\ Fresh.msgHi = 0
      /\ Fresh.filledTo = 0 /\ Fresh.maxID = 0
  BY DEF Fresh, CmiState
<1>4. /\ NoJob \in CmiJob /\ NoJob.step = "closed" /\ ~NoJob.verifying
      /\ NoJob.obsHi = 0 /\ NoJob.msgHi = 0
  BY DEF NoJob, CmiJob, Steps
<1>5. Observing' = Observing /\ Creating' = Creating /\ Due' = Due
  BY <1>2 DEF Observing, Creating, Due
<1>6. JobTypes'
  <2>1. faults' \in 0..MaxFaults
    BY <1>1, ReadModelAssumption DEF Rebuild, Fault, JobTypes
  <2>2. reported' \cup aged' \cup overtaken' \subseteq Writers
    BY <1>1, <1>2 DEF JobTypes
  <2>3. {keyed', earned', dropped', behind', moved', booted'} \subseteq BOOLEAN
    BY <1>1, <1>2 DEF JobTypes
  <2> QED
    BY <1>1, <1>2, <1>3, <2>1, <2>2, <2>3 DEF JobTypes
<1>7. Rows'
  <2>1. \A h \in observed' : phase'[h] \notin {"new", "observing"}
    BY <1>1, <1>2 DEF Rows
  <2>2. \A w \in Writers : seen'[w] \subseteq HearingsOf(packetOf[w])'
    BY <1>1, <1>2 DEF Rows, HearingsOf
  <2>3. sites' \subseteq Due' /\ reported' \subseteq Due'
    BY <1>1, <1>2, <1>5 DEF Rows
  <2>4. orphans' \cup aged' \subseteq Observing' \cup Creating'
    BY <1>1, <1>2, <1>5 DEF Rows
  <2> QED
    BY <2>1, <2>2, <2>3, <2>4 DEF Rows
<1>8. Marks'
  BY <1>2, <1>3, <1>4 DEF Marks, ReachedByObservations, ReachedByMessages
<1>9. Stages'
  BY <1>1, <1>2, <1>4 DEF Stages, AfterObservations, AfterMessages, AfterSave
<1>10. ObservationsInFlight' /\ MessagesInFlight' /\ MissesCovered'
  BY <1>2, <1>3, <1>4 DEF ObservationsInFlight, MessagesInFlight, MissesCovered,
     AfterObservations, AfterMessages
<1>11. ReportsFilled'
  BY <1>2, <1>4 DEF ReportsFilled, Filling, AfterObservations, AfterMessages
<1>12. TrustRepaired'
  BY <1>1, <1>2 DEF TrustRepaired, Overtaken
<1> QED
  BY <1>6, <1>7, <1>8, <1>9, <1>10, <1>11, <1>12 DEF TrustParts

LEMMA TrustInit == Init => TrustInv
<1> SUFFICES ASSUME Init PROVE TrustInv
  OBVIOUS
<1>1. IInv
  BY InvInit
<1>2. Cardinality(Legacy) \in Nat /\ Legacy \subseteq Hearings
  BY ReadModelAssumption, FS_Subset, FS_CardinalityType DEF Writers
<1>3. /\ Fresh \in CmiState /\ ~Fresh.found /\ ~Fresh.complete
      /\ Fresh.obsPrev = 0 /\ Fresh.obsHi = 0 /\ Fresh.msgPrev = 0 /\ Fresh.msgHi = 0
      /\ Fresh.filledTo = 0 /\ Fresh.maxID = 0
  BY DEF Fresh, CmiState
<1>4. /\ NoJob \in CmiJob /\ NoJob.step = "closed" /\ ~NoJob.verifying
      /\ NoJob.obsHi = 0 /\ NoJob.msgHi = 0
  BY DEF NoJob, CmiJob, Steps
<1>5. JobTypes
  <2>1. DropAfterDirty \in Nat /\ RestoreAfterClean \in Nat /\ MaxFaults \in Nat
    BY ReadModelAssumption
  <2>2. /\ dirty \in 0..DropAfterDirty /\ clean \in 0..RestoreAfterClean
        /\ faults \in 0..MaxFaults
    BY <2>1 DEF Init
  <2>3. {keyed, earned, dropped, behind, moved, booted} \subseteq BOOLEAN
    BY DEF Init
  <2>4. obsId \in [Hearings -> Nat]
    BY <1>2 DEF Init
  <2>5. state = Fresh /\ job = NoJob /\ reported \cup aged \cup overtaken \cup recorded = {}
    BY DEF Init
  <2> QED
    BY <1>3, <1>4, <2>2, <2>3, <2>4, <2>5 DEF JobTypes
<1>6. Rows
  BY <1>2, ReadModelAssumption DEF Init, Rows, Writers
<1>7. Marks
  BY <1>3, <1>4 DEF Init, Marks, ReachedByObservations, ReachedByMessages
<1>8. Stages
  BY <1>4 DEF Init, Stages, AfterObservations, AfterMessages, AfterSave
<1>9. ObservationsInFlight /\ MessagesInFlight /\ MissesCovered
  BY <1>3, <1>4 DEF Init, ObservationsInFlight, MessagesInFlight, MissesCovered,
     AfterObservations, AfterMessages
<1>10. ReportsFilled /\ TrustRepaired
  BY DEF Init, ReportsFilled, TrustRepaired
<1> QED
  BY <1>1, <1>5, <1>6, <1>7, <1>8, <1>9, <1>10 DEF TrustInv, TrustParts

LEMMA TrustStep == TrustInv /\ [Next]_vars => TrustInv'
<1> SUFFICES ASSUME TrustInv, [Next]_vars PROVE TrustInv'
  OBVIOUS
<1>1. IInv'
  BY InvStep DEF TrustInv
<1>2. CASE (\E w \in Writers : Handle(w)) \/ ImportKey
  BY <1>1, <1>2, WriterStep, WritesKeep DEF TrustInv, TrustParts
<1>3. CASE BootBegin \/ TaskBegin \/ Load \/ Stop \/ Repaired \/ CheckPasses \/ CheckDiffers
             \/ JobFails
  BY <1>1, <1>3, RestSteps DEF TrustInv
<1>4. CASE FirstUseMessages \/ FirstUse \/ ReadObservations \/ ReadMessages
  BY <1>1, <1>4, FirstUseMessagesKeeps, FirstUseKeeps, ReadObservationsKeeps,
     ReadMessagesKeeps DEF TrustInv
<1>5. CASE FillByObservations \/ FillByMessages \/ Save \/ Backfill
  BY <1>1, <1>5, FillByObservationsKeeps, FillByMessagesKeeps, SaveKeeps, BackfillKeeps
     DEF TrustInv
<1>6. CASE Crash \/ Rebuild
  BY <1>1, <1>6, CrashKeeps, RebuildKeeps DEF TrustInv
<1>7. CASE UNCHANGED vars
  <2>1. /\ UNCHANGED <<observed, obsId, message, sites, state, phase, draft, seen, recorded,
                       orphans, keyed, earned, dropped, dirty, clean, behind, moved, job,
                       booted, reported, aged, overtaken, hurt, faults>>
    BY <1>7 DEF vars, dataVars, writerVars, trustVars, policyVars, history
  <2>2. JobTypes' /\ Rows'
    BY <2>1 DEF TrustInv, TrustParts, JobTypes, Rows, Due, HearingsOf, Observing, Creating
  <2>3. Writes
    BY <2>1 DEF Writes, Observing, Creating
  <2> QED
    BY <1>1, <2>2, <2>3, WritesKeep DEF TrustInv, TrustParts
<1> QED
  BY <1>2, <1>3, <1>4, <1>5, <1>6, <1>7 DEF Next, Session

(* The state of the writers, of the database and of the jobs has its type, *)
(* a site is of a committed hearing whose message is stored, the older     *)
(* watermark is never ahead of the newer, and the backfill never past its  *)
(* end (db/cmi.go).                                                        *)
THEOREM TypesTheorem == Spec => []TypeOK
<1>1. TrustInv => TypeOK
  <2> SUFFICES ASSUME TrustInv PROVE TypeOK
    OBVIOUS
  <2>1. Typed /\ JobTypes /\ Rows /\ Marks
    BY DEF TrustInv, TrustParts, IInv
  <2>2. job.mode \in {"none", "boot", "task"} /\ job.step \in Steps
    BY <2>1 DEF JobTypes, CmiJob
  <2>3. sites \subseteq {h \in Hearings : Stored(h)}
    BY <2>1 DEF Rows, Due, Stored, Typed
  <2>4. orphans \subseteq Observing \cup Creating
    BY <2>1 DEF Rows
  <2> QED
    BY <2>1, <2>2, <2>3, <2>4 DEF TypeOK, Typed, JobTypes, Marks
<1> QED
  BY <1>1, TrustInit, TrustStep, PTL DEF Spec

(* While pages are served from the table, every pair that a writer         *)
(* reported missing, or that was missing when boot or a rebuild began to   *)
(* repair, is in it again, unless the ids were read twice during one of    *)
(* its packet's statements or first use passed its message over            *)
(* (db/readmodel.go Invalidate and Repaired, readmodel_cmi.go Boot).       *)
THEOREM HiddenTheorem == Spec => []ReportedMissesHidden
<1>1. TrustInv => ReportedMissesHidden
  BY DEF TrustInv, TrustParts, TrustRepaired, ReportedMissesHidden, Trusted
<1> QED
  BY <1>1, TrustInit, TrustStep, PTL DEF Spec
=============================================================================
