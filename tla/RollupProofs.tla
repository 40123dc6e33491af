---------------------------- MODULE RollupProofs ----------------------------
(***************************************************************************)
(* Theorems of Rollup, for any lengths and bounds: a complete hour is      *)
(* exact, the hours that the cleanup was held back for keep their raw      *)
(* rows, and what readers see never changes without the revision.          *)
(***************************************************************************)
EXTENDS Rollup, FiniteSetTheorems, WellFoundedInduction, TLAPS

Times == 0..MaxTime
Contents == [heard : SUBSET Hearings, texts : SUBSET Packets]
Rolls == [hour : Hours, content : Contents, queued : BOOLEAN, conflict : BOOLEAN]
Passes ==
  [step : {"idle", "registered", "marked", "rolling"}, queue : SUBSET Hours,
   tried : SUBSET Hours]
Cleanups ==
  [step : {"idle", "packets", "rollups", "deleting"}, at : Times, cutoff : Int,
   held : SUBSET Hours, families : SUBSET Hours, queued : SUBSET Hours]

IngestTypes ==
  /\ now \in Times
  /\ phase \in [Hearings -> {"new", "heard", "stored", "done"}]
  /\ known \in [Hearings -> BOOLEAN]
  /\ packetOf \in [Hearings -> Packets \cup {NoPacket}]
  /\ heardAt \in [Hearings -> Int]
  /\ lastHeard \in [Packets -> Int]
  /\ stored \subseteq ever /\ said \subseteq ever /\ ever \subseteq Hearings
  /\ messages \subseteq Packets
RollTypes ==
  /\ status \in [Hours -> {"none", "missing", "complete", "partial"}]
  /\ rolled \in [Hours -> Contents]
  /\ dirty \subseteq Hours
  /\ revision \in Nat
  /\ pass \in Passes
  /\ roll \in Rolls \cup {NoRoll}
CleanupTypes ==
  /\ rawDeletedBefore \in Int
  /\ cleanup \in Cleanups
  /\ faults \in 0..MaxFaults

(* Hearings under way were heard in this tick, and their packets with      *)
(* them; a packet that was not stored before has none of an earlier tick.  *)
Fresh ==
  \A x \in Hearings :
    /\ phase[x] \in {"new", "heard"} => x \notin ever
    /\ phase[x] \in {"heard", "stored"} =>
         /\ packetOf[x] \in Packets
         /\ heardAt[x] \in Times /\ now - Clamp <= heardAt[x] /\ heardAt[x] <= now + Clamp
         /\ lastHeard[packetOf[x]] = now
         /\ ~ known[x] =>
              \A y \in stored : packetOf[y] = packetOf[x] => now - Clamp <= heardAt[y]

(* The raw rows: a packet is there as long as a hearing of it, not much    *)
(* older than its last, and so are its messages; what was deleted is       *)
(* behind rawDeletedBefore.                                                *)
RawRows ==
  /\ \A p \in Packets : lastHeard[p] = Never \/ lastHeard[p] \in 0..now
  /\ \A p \in messages : lastHeard[p] # Never
  /\ \A x \in ever : packetOf[x] \in Packets /\ heardAt[x] \in Times
  /\ \A x \in stored :
       /\ lastHeard[packetOf[x]] # Never
       /\ heardAt[x] <= lastHeard[packetOf[x]] + Clamp
       /\ x \in said <=> packetOf[x] \in messages
  /\ \A x \in ever \ stored : heardAt[x] <= rawDeletedBefore + Clamp

(* Hours are registered when no hearing can land in them any more.         *)
Registered == \A h \in Hours : status[h] # "none" => h + Delay <= now

Texts(h) == {packetOf[x] : x \in HeardIn(h, said)}
Exact ==
  \A h \in Hours : status[h] = "complete" =>
    /\ rolled[h].heard = HeardIn(h, ever)
    /\ h \notin dirty /\ Intact(h) => rolled[h].texts = Texts(h)

(* The snapshot of a roll misses a message only if the hour is queued and  *)
(* remains so, or the commit will fail.                                    *)
Snapshot ==
  roll # NoRoll =>
    /\ pass.queue # {} /\ roll.hour = Min(pass.queue)
    /\ status[roll.hour] \in {"missing", "complete"}
    /\ roll.content.heard = HeardIn(roll.hour, ever)
    /\ /\ Intact(roll.hour) /\ ~ roll.conflict
       /\ roll.hour \notin dirty \/ roll.queued
       => roll.content.texts = Texts(roll.hour)

HeldBack ==
  /\ cleanup.at <= now
  /\ cleanup.step = "packets" => cleanup.cutoff < now
  /\ \A h \in cleanup.held : Intact(h) /\ cleanup.cutoff + Clamp <= h
  /\ cleanup.families \cup cleanup.queued \subseteq OldHours

IInv ==
  /\ IngestTypes
  /\ RollTypes
  /\ CleanupTypes
  /\ Fresh
  /\ RawRows
  /\ Registered
  /\ Exact
  /\ Snapshot
  /\ HeldBack

-----------------------------------------------------------------------------
(* Hours                                                                   *)

LEMMA HourFacts ==
  ASSUME NEW t \in Times
  PROVE  /\ HourOf(t) \in Hours
         /\ HourOf(t) <= t
         /\ t < HourOf(t) + HourLen
<1>1. HourLen \in Nat \ {0} /\ MaxTime \in Nat /\ t \in Nat /\ t <= MaxTime
  BY RollupAssumption DEF Times
<1>2. t % HourLen \in 0..(HourLen - 1)
  BY <1>1
<1>3. t = HourLen * (t \div HourLen) + (t % HourLen) /\ t \div HourLen \in Nat
  BY <1>1
<1>4. (t - (t % HourLen)) % HourLen = 0
  BY <1>1, <1>2, <1>3
<1>5. t - (t % HourLen) \in 0..MaxTime
  BY <1>1, <1>2, <1>3
<1> QED
  BY <1>1, <1>2, <1>4, <1>5 DEF HourOf, Hours

(* A hearing of this tick is in no hour that can be registered.            *)
LEMMA FreshHour ==
  ASSUME now \in Times, NEW t \in Times, now - Clamp <= t,
         NEW h \in Hours, h + Delay <= now
  PROVE  HourOf(t) # h
<1>1. /\ HourLen \in Nat /\ Clamp \in Nat /\ Delay \in Nat /\ MaxTime \in Nat
      /\ Delay >= HourLen + Clamp
  BY RollupAssumption
<1>2. HourOf(t) \in Hours /\ t < HourOf(t) + HourLen
  BY HourFacts
<1>3. h \in Nat /\ HourOf(t) \in Nat /\ t \in Nat /\ now \in Nat
  BY <1>1, <1>2 DEF Hours, Times
<1> QED
  BY <1>1, <1>2, <1>3

(* Numbers                                                                 *)

(* A set of numbers up to n has a least element.                           *)
LEMMA LeastExists ==
  ASSUME NEW n \in Nat, NEW S \in SUBSET (0..n), S # {}
  PROVE  Min(S) \in S /\ \A y \in S : Min(S) <= y
<1> DEFINE Upto == {0..x : x \in S}
           R == StrictSubsetOrdering(0..n)
<1>1. IsWellFoundedOn(R, SUBSET (0..n))
  <2>1. IsFiniteSet(0..n)
    BY FS_Interval
  <2> QED
    BY <2>1, FS_StrictSubsetOrderingWellFounded, FS_FiniteSubsetsOfFinite
<1>2. Upto \subseteq SUBSET (0..n) /\ Upto # {}
  <2>1. \A x \in S : 0..x \subseteq 0..n
    OBVIOUS
  <2> QED
    BY <2>1
<1>3. \E I \in Upto : \A J \in Upto : ~ (<<J, I>> \in R)
  <2> HIDE DEF Upto, R
  <2> QED
    BY <1>1, <1>2, WFMin
<1>4. PICK x \in S : \A y \in S : ~ (<<0..y, 0..x>> \in R)
  BY <1>3
<1>5. ASSUME NEW y \in S, ~ (x <= y)
      PROVE  FALSE
  <2>1. 0..y \subseteq 0..x /\ 0..y # 0..x
    BY <1>5
  <2>2. <<0..y, 0..x>> \in R
    BY <2>1 DEF StrictSubsetOrdering
  <2> QED
    BY <2>2, <1>4
<1> QED
  BY <1>5 DEF Min

LEMMA OfTwo ==
  ASSUME NEW a \in Int, NEW b \in Int
  PROVE  /\ Min({a, b}) \in {a, b} /\ Min({a, b}) <= a /\ Min({a, b}) <= b
         /\ Max({a, b}) \in {a, b} /\ Max({a, b}) >= a /\ Max({a, b}) >= b
<1>1. \E x \in {a, b} : \A y \in {a, b} : x <= y
  <2>1. CASE a <= b
    BY <2>1
  <2>2. CASE b <= a
    BY <2>2
  <2> QED
    BY <2>1, <2>2
<1>2. Min({a, b}) \in {a, b} /\ \A y \in {a, b} : Min({a, b}) <= y
  BY <1>1 DEF Min
<1>3. \E x \in {a, b} : \A y \in {a, b} : x >= y
  <2>1. CASE a >= b
    BY <2>1
  <2>2. CASE b >= a
    BY <2>2
  <2> QED
    BY <2>1, <2>2
<1>4. Max({a, b}) \in {a, b} /\ \A y \in {a, b} : Max({a, b}) >= y
  BY <1>3 DEF Max
<1> QED
  BY <1>2, <1>4

LEMMA LeastHour ==
  ASSUME NEW S \in SUBSET Hours, S # {}
  PROVE  Min(S) \in S /\ \A h \in S : Min(S) <= h
<1>1. MaxTime \in Nat /\ S \in SUBSET (0..MaxTime)
  BY RollupAssumption DEF Hours
<1> QED
  BY <1>1, LeastExists

-----------------------------------------------------------------------------
(* Ingest                                                                  *)

LEMMA InitInv == Init => IInv
<1> SUFFICES ASSUME Init PROVE IInv
  OBVIOUS
<1> USE DEF Init
<1>1. IngestTypes
  BY RollupAssumption DEF IngestTypes, Times, Never
<1>2. RollTypes
  BY DEF RollTypes, Contents, Unrolled, Passes, NoPass
<1>3. CleanupTypes
  BY RollupAssumption DEF CleanupTypes, Cleanups, NoCleanup, Times, Never
<1>4. Fresh /\ RawRows
  BY DEF Fresh, RawRows
<1>5. Registered /\ Exact /\ Snapshot
  BY DEF Registered, Exact, Snapshot
<1>6. HeldBack
  BY DEF HeldBack, NoCleanup
<1> QED
  BY <1>1, <1>2, <1>3, <1>4, <1>5, <1>6 DEF IInv

LEMMA HearInv ==
  ASSUME IInv, NEW x \in Hearings, NEW p \in Packets, NEW t \in Times, Hear(x, p, t)
  PROVE  IInv'
<1>1. /\ phase[x] = "new" /\ t - now \in -Clamp..Clamp
      /\ phase' = [phase EXCEPT ![x] = "heard"]
      /\ packetOf' = [packetOf EXCEPT ![x] = p]
      /\ heardAt' = [heardAt EXCEPT ![x] = t]
      /\ known' = [known EXCEPT ![x] = lastHeard[p] # Never]
      /\ lastHeard' = [lastHeard EXCEPT ![p] = now]
      /\ UNCHANGED <<now, stored, messages, ever, said, status, rolled, revision, dirty,
                     rawDeletedBefore, pass, roll, cleanup, faults>>
  BY DEF Hear, rollVars
<1>2. IngestTypes /\ now \in Nat /\ t \in Nat /\ Clamp \in Nat
  BY RollupAssumption DEF IInv, IngestTypes, Times
<1>3. x \notin ever /\ x \notin stored /\ x \notin said
  BY <1>1, <1>2 DEF IInv, Fresh, IngestTypes
<1>4. IngestTypes'
  BY <1>1, <1>2 DEF IngestTypes, Times
<1>5. RollTypes' /\ CleanupTypes' /\ Registered' /\ HeldBack'
  BY <1>1 DEF IInv, RollTypes, CleanupTypes, Registered, HeldBack, Intact, OldHours
<1>6. /\ packetOf'[x] = p /\ heardAt'[x] = t
      /\ \A y \in Hearings : y # x => packetOf'[y] = packetOf[y] /\ heardAt'[y] = heardAt[y]
                                      /\ phase'[y] = phase[y] /\ known'[y] = known[y]
      /\ phase'[x] = "heard" /\ known'[x] = (lastHeard[p] # Never)
      /\ lastHeard'[p] = now /\ \A q \in Packets : q # p => lastHeard'[q] = lastHeard[q]
  BY <1>1, <1>2 DEF IngestTypes
<1>7. Fresh'
  <2>1. SUFFICES ASSUME NEW y \in Hearings
        PROVE
         /\ phase'[y] \in {"new", "heard"} => y \notin ever
         /\ phase'[y] \in {"heard", "stored"} =>
              /\ packetOf'[y] \in Packets
              /\ heardAt'[y] \in Times /\ now - Clamp <= heardAt'[y] /\ heardAt'[y] <= now + Clamp
              /\ lastHeard'[packetOf'[y]] = now
              /\ ~ known'[y] =>
                   \A z \in stored : packetOf'[z] = packetOf'[y] => now - Clamp <= heardAt'[z]
    BY <1>1 DEF Fresh
  <2>2. \A z \in stored : z \in Hearings /\ z # x
    BY <1>2, <1>3 DEF IngestTypes
  <2>3. CASE y = x
    <3>1. now - Clamp <= t /\ t <= now + Clamp
      BY <1>1, <1>2
    <3>2. ~ known'[x] => \A z \in stored : packetOf'[z] # p
      <4>1. ~ known'[x] => lastHeard[p] = Never
        BY <1>6
      <4>2. \A z \in stored : packetOf'[z] = packetOf[z]
        BY <1>6, <2>2
      <4>3. \A z \in stored : lastHeard[packetOf[z]] # Never
        BY DEF IInv, RawRows
      <4> QED
        BY <4>1, <4>2, <4>3
    <3> QED
      BY <1>3, <1>6, <2>3, <3>1, <3>2
  <2>4. CASE y # x
    <3>1. /\ phase'[y] = phase[y] /\ packetOf'[y] = packetOf[y] /\ heardAt'[y] = heardAt[y]
          /\ known'[y] = known[y]
      BY <1>6, <2>4
    <3>2. \A z \in stored : packetOf'[z] = packetOf[z] /\ heardAt'[z] = heardAt[z]
      BY <1>6, <2>2
    <3>3. phase[y] \in {"heard", "stored"} => lastHeard'[packetOf[y]] = now
      BY <1>6 DEF IInv, Fresh
    <3> QED
      BY <3>1, <3>2, <3>3 DEF IInv, Fresh
  <2> QED
    BY <2>3, <2>4
<1>8. \A y \in ever : packetOf'[y] = packetOf[y] /\ heardAt'[y] = heardAt[y]
  BY <1>2, <1>3, <1>6 DEF IngestTypes
<1>9. stored \subseteq ever /\ said \subseteq ever
  BY <1>2 DEF IngestTypes
<1>10. RawRows'
  <2>1. \A q \in Packets : lastHeard'[q] = Never \/ lastHeard'[q] \in 0..now
    BY <1>2, <1>6 DEF IInv, RawRows
  <2>2. now # Never
    BY <1>2 DEF Never
  <2>3. \A q \in messages : q \in Packets /\ lastHeard'[q] # Never
    BY <1>2, <1>6, <2>2 DEF IInv, RawRows, IngestTypes
  <2>4. \A y \in stored :
          /\ lastHeard'[packetOf[y]] # Never
          /\ heardAt[y] <= lastHeard'[packetOf[y]] + Clamp
    <3>1. SUFFICES ASSUME NEW y \in stored
                   PROVE  /\ lastHeard'[packetOf[y]] # Never
                          /\ heardAt[y] <= lastHeard'[packetOf[y]] + Clamp
      OBVIOUS
    <3>2. /\ packetOf[y] \in Packets /\ heardAt[y] \in Nat
          /\ lastHeard[packetOf[y]] \in 0..now
          /\ heardAt[y] <= lastHeard[packetOf[y]] + Clamp
      BY <1>9 DEF IInv, RawRows, Times
    <3>3. CASE packetOf[y] = p
      BY <1>2, <1>6, <2>2, <3>2, <3>3
    <3>4. CASE packetOf[y] # p
      BY <1>6, <3>2, <3>4 DEF IInv, RawRows
    <3> QED
      BY <3>3, <3>4
  <2> QED
    BY <1>1, <1>8, <1>9, <2>1, <2>3, <2>4 DEF IInv, RawRows
<1>11. \A h \in Hours : HeardIn(h, ever)' = HeardIn(h, ever) /\ Texts(h)' = Texts(h)
  <2>1. \A h : HeardIn(h, ever)' = HeardIn(h, ever)
    BY <1>1, <1>8 DEF HeardIn
  <2>2. \A h : HeardIn(h, said)' = HeardIn(h, said)
    BY <1>1, <1>8, <1>9 DEF HeardIn
  <2>3. \A h : HeardIn(h, said) \subseteq ever
    BY <1>9 DEF HeardIn
  <2> QED
    BY <1>8, <2>1, <2>2, <2>3 DEF Texts
<1>12. Exact' /\ Snapshot'
  <2>1. Exact'
    BY <1>1, <1>11 DEF IInv, Exact, Intact
  <2>2. roll # NoRoll => roll.hour \in Hours
    BY DEF IInv, RollTypes, Rolls
  <2>3. Snapshot'
    BY <1>1, <1>11, <2>2 DEF IInv, Snapshot, Intact
  <2> QED
    BY <2>1, <2>3
<1> QED
  BY <1>4, <1>5, <1>7, <1>10, <1>12 DEF IInv

LEMMA InsertObservationInv ==
  ASSUME IInv, NEW x \in Hearings, InsertObservation(x)
  PROVE  IInv'
<1>1. /\ phase[x] = "heard"
      /\ phase' = [phase EXCEPT ![x] = "stored"]
      /\ stored' = stored \cup {x}
      /\ ever' = ever \cup {x}
      /\ said' = IF packetOf[x] \in messages THEN said \cup {x} ELSE said
      /\ UNCHANGED <<now, known, packetOf, heardAt, lastHeard, messages, status, rolled,
                     revision, dirty, rawDeletedBefore, pass, roll, cleanup, faults>>
  BY DEF InsertObservation, rollVars, heardVars
<1>2. IngestTypes
  BY DEF IInv
<1>3. /\ x \notin ever /\ x \notin stored /\ x \notin said
      /\ packetOf[x] \in Packets /\ heardAt[x] \in Times
      /\ now - Clamp <= heardAt[x] /\ heardAt[x] <= now + Clamp
      /\ lastHeard[packetOf[x]] = now
  BY <1>1, <1>2 DEF IInv, Fresh, IngestTypes
<1>4. IngestTypes'
  BY <1>1, <1>2 DEF IngestTypes
<1>5. RollTypes' /\ CleanupTypes' /\ Registered' /\ HeldBack'
  BY <1>1 DEF IInv, RollTypes, CleanupTypes, Registered, HeldBack, Intact, OldHours
<1>6. phase'[x] = "stored" /\ \A y \in Hearings : y # x => phase'[y] = phase[y]
  BY <1>1, <1>2 DEF IngestTypes
<1>7. Fresh'
  <2>1. SUFFICES ASSUME NEW y \in Hearings
        PROVE
         /\ phase'[y] \in {"new", "heard"} => y \notin ever'
         /\ phase'[y] \in {"heard", "stored"} =>
              /\ packetOf[y] \in Packets
              /\ heardAt[y] \in Times /\ now - Clamp <= heardAt[y] /\ heardAt[y] <= now + Clamp
              /\ lastHeard[packetOf[y]] = now
              /\ ~ known[y] =>
                   \A z \in stored' : packetOf[z] = packetOf[y] => now - Clamp <= heardAt[z]
    BY <1>1 DEF Fresh
  <2>2. phase'[y] \in {"heard", "stored"} => phase[y] \in {"heard", "stored"}
    BY <1>1, <1>6
  <2>3. phase'[y] \in {"new", "heard"} => y # x /\ phase[y] \in {"new", "heard"}
    BY <1>6
  <2>4. phase[y] \in {"heard", "stored"} /\ ~ known[y] =>
          \A z \in stored : packetOf[z] = packetOf[y] => now - Clamp <= heardAt[z]
    BY DEF IInv, Fresh
  <2>5. phase[y] \in {"heard", "stored"} =>
          /\ packetOf[y] \in Packets
          /\ heardAt[y] \in Times /\ now - Clamp <= heardAt[y] /\ heardAt[y] <= now + Clamp
          /\ lastHeard[packetOf[y]] = now
    BY DEF IInv, Fresh
  <2>6. phase[y] \in {"new", "heard"} => y \notin ever
    BY DEF IInv, Fresh
  <2> QED
    BY <1>1, <1>3, <2>2, <2>3, <2>4, <2>5, <2>6
<1>8. RawRows'
  <2>1. now # Never
    BY <1>2, RollupAssumption DEF IngestTypes, Times, Never
  <2>2. \A y \in stored' :
          /\ lastHeard[packetOf[y]] # Never
          /\ heardAt[y] <= lastHeard[packetOf[y]] + Clamp
          /\ y \in said' <=> packetOf[y] \in messages
    <3>1. ASSUME NEW y \in stored
          PROVE  /\ lastHeard[packetOf[y]] # Never
                 /\ heardAt[y] <= lastHeard[packetOf[y]] + Clamp
                 /\ y \in said' <=> packetOf[y] \in messages
      <4>1. y \in said' <=> y \in said
        BY <1>1, <1>3
      <4> QED
        BY <4>1 DEF IInv, RawRows
    <3>2. /\ lastHeard[packetOf[x]] # Never
          /\ heardAt[x] <= lastHeard[packetOf[x]] + Clamp
          /\ x \in said' <=> packetOf[x] \in messages
      BY <1>1, <1>3, <2>1
    <3> QED
      BY <1>1, <3>1, <3>2
  <2>3. \A y \in ever' : packetOf[y] \in Packets /\ heardAt[y] \in Times
    BY <1>1, <1>3 DEF IInv, RawRows
  <2>4. \A y \in ever' \ stored' : heardAt[y] <= rawDeletedBefore + Clamp
    BY <1>1 DEF IInv, RawRows
  <2> QED
    BY <1>1, <2>2, <2>3, <2>4 DEF IInv, RawRows
<1>9. \A h \in Hours : status[h] # "none" =>
        HeardIn(h, ever)' = HeardIn(h, ever) /\ Texts(h)' = Texts(h)
  <2>1. SUFFICES ASSUME NEW h \in Hours, status[h] # "none"
                 PROVE  HeardIn(h, ever)' = HeardIn(h, ever) /\ Texts(h)' = Texts(h)
    OBVIOUS
  <2>2. HourOf(heardAt[x]) # h
    <3>1. h + Delay <= now /\ now \in Times
      BY <1>2, <2>1 DEF IInv, Registered, IngestTypes
    <3> QED
      BY <1>3, <3>1, FreshHour
  <2>3. HeardIn(h, ever)' = HeardIn(h, ever)
    BY <1>1, <2>2 DEF HeardIn
  <2>4. HeardIn(h, said)' = HeardIn(h, said)
    BY <1>1, <2>2 DEF HeardIn
  <2> QED
    BY <1>1, <2>3, <2>4 DEF Texts
<1>10. Exact' /\ Snapshot'
  <2>1. Exact'
    BY <1>1, <1>9 DEF IInv, Exact, Intact
  <2>2. roll # NoRoll => roll.hour \in Hours /\ status[roll.hour] # "none"
    BY DEF IInv, RollTypes, Rolls, Snapshot
  <2>3. Snapshot'
    BY <1>1, <1>9, <2>2 DEF IInv, Snapshot, Intact
  <2> QED
    BY <2>1, <2>3
<1> QED
  BY <1>4, <1>5, <1>7, <1>8, <1>10 DEF IInv

(* A message of p either queues every registered hour with a hearing of p, *)
(* or there is none: the packet was first heard in this tick.              *)
LEMMA MessageInv ==
  ASSUME IInv, NEW p \in Packets, NEW historical \in BOOLEAN,
         lastHeard[p] # Never, InsertChannelMessage(p, historical),
         historical \/ \A y \in stored : packetOf[y] = p => now - Clamp <= heardAt[y],
         UNCHANGED <<now, heardVars, lastHeard, stored, ever, rollVars,
                     rawDeletedBefore, pass, cleanup, faults>>
  PROVE  /\ said' \subseteq ever /\ messages' \subseteq Packets
         /\ RollTypes' /\ RawRows' /\ Registered' /\ Exact' /\ Snapshot'
<1> DEFINE hours == IF historical THEN HoursOf(p) ELSE {}
<1>1. /\ messages' = messages \cup {p}
      /\ said' = said \cup {y \in stored : packetOf[y] = p}
      /\ dirty' = dirty \cup hours
      /\ roll' = [roll EXCEPT !.conflict = @ \/ (roll.queued /\ roll.hour \in hours)]
      /\ UNCHANGED <<now, packetOf, heardAt, lastHeard, stored, ever, status, rolled,
                     revision, rawDeletedBefore, pass, cleanup, faults>>
  BY DEF InsertChannelMessage, heardVars, rollVars
<1>2. IngestTypes /\ RollTypes
  BY DEF IInv
<1>3. hours \subseteq Hours
  <2>1. \A y \in stored : HourOf(heardAt[y]) \in Hours
    BY <1>2, HourFacts DEF IngestTypes, IInv, RawRows
  <2> QED
    BY <2>1 DEF HoursOf
<1>4. \A h \in Hours : status[h] # "none" /\ h \notin hours =>
        \A y \in stored : packetOf[y] = p => HourOf(heardAt[y]) # h
  <2>1. SUFFICES ASSUME NEW h \in Hours, status[h] # "none", h \notin hours,
                        NEW y \in stored, packetOf[y] = p
                 PROVE  HourOf(heardAt[y]) # h
    OBVIOUS
  <2>2. CASE historical
    BY <2>1, <2>2 DEF HoursOf
  <2>3. CASE ~ historical
    <3>1. h + Delay <= now /\ now \in Times /\ heardAt[y] \in Times /\ now - Clamp <= heardAt[y]
      BY <1>2, <2>1, <2>3 DEF IInv, Registered, RawRows, IngestTypes
    <3> QED
      BY <3>1, FreshHour
  <2> QED
    BY <2>2, <2>3
<1> HIDE DEF hours
<1>5. \A h \in Hours : HeardIn(h, ever)' = HeardIn(h, ever)
  BY <1>1 DEF HeardIn
<1>6. \A h \in Hours : status[h] # "none" /\ h \notin hours => Texts(h)' = Texts(h)
  <2>1. SUFFICES ASSUME NEW h \in Hours, status[h] # "none", h \notin hours
                 PROVE  Texts(h)' = Texts(h)
    OBVIOUS
  <2>2. HeardIn(h, said)' = HeardIn(h, said)
    BY <1>1, <1>4, <2>1 DEF HeardIn
  <2> QED
    BY <1>1, <2>2 DEF Texts
<1>7. said' \subseteq ever /\ messages' \subseteq Packets
  BY <1>1, <1>2 DEF IngestTypes
<1>8. roll = NoRoll => roll' = NoRoll
  <2>1. SUFFICES ASSUME roll = NoRoll PROVE roll' = NoRoll
    OBVIOUS
  <2>2. (roll.conflict \/ (roll.queued /\ roll.hour \in hours)) = FALSE
    BY <2>1 DEF NoRoll
  <2>3. roll' = [NoRoll EXCEPT !.conflict = FALSE]
    BY <1>1, <2>1, <2>2
  <2> QED
    BY <2>3 DEF NoRoll
<1>9. roll \in Rolls =>
        /\ roll' \in Rolls
        /\ roll'.hour = roll.hour /\ roll'.content = roll.content /\ roll'.queued = roll.queued
        /\ roll'.conflict = (roll.conflict \/ (roll.queued /\ roll.hour \in hours))
  BY <1>1 DEF Rolls
<1>10. RollTypes'
  <2>1. roll' \in Rolls \cup {NoRoll}
    BY <1>2, <1>8, <1>9 DEF RollTypes
  <2> QED
    BY <1>1, <1>2, <1>3, <2>1 DEF RollTypes
<1>11. RawRows'
  <2>1. \A y \in stored : y \in said' <=> packetOf[y] \in messages'
    <3>1. \A y \in stored : y \in said <=> packetOf[y] \in messages
      BY DEF IInv, RawRows
    <3> QED
      BY <1>1, <3>1
  <2>2. \A q \in messages' : lastHeard[q] # Never
    BY <1>1 DEF IInv, RawRows
  <2> QED
    BY <1>1, <2>1, <2>2 DEF IInv, RawRows
<1>12. Registered'
  BY <1>1 DEF IInv, Registered
<1>13. Exact'
  <2>1. SUFFICES ASSUME NEW h \in Hours, status[h] = "complete"
                 PROVE  /\ rolled[h].heard = HeardIn(h, ever)'
                        /\ h \notin dirty' /\ Intact(h)' => rolled[h].texts = Texts(h)'
    BY <1>1 DEF Exact
  <2>2. rolled[h].heard = HeardIn(h, ever)'
    BY <1>5, <2>1 DEF IInv, Exact
  <2>3. ASSUME h \notin dirty', Intact(h)' PROVE rolled[h].texts = Texts(h)'
    <3>1. h \notin dirty /\ h \notin hours /\ Intact(h)
      BY <1>1, <2>3 DEF Intact
    <3> QED
      BY <1>6, <2>1, <3>1 DEF IInv, Exact
  <2> QED
    BY <2>2, <2>3
<1>14. Snapshot'
  <2>1. SUFFICES ASSUME roll' # NoRoll PROVE Snapshot'
    BY DEF Snapshot
  <2>2. roll \in Rolls /\ roll # NoRoll
    BY <1>2, <1>8, <2>1 DEF RollTypes
  <2>3. PICK k \in Hours : k = roll.hour /\ k = roll'.hour
    BY <1>9, <2>2 DEF Rolls
  <2>4. /\ pass.queue # {} /\ k = Min(pass.queue)
        /\ status[k] \in {"missing", "complete"}
        /\ roll.content.heard = HeardIn(k, ever)
    BY <2>2, <2>3 DEF IInv, Snapshot
  <2>5. ASSUME Intact(k)', ~ roll'.conflict, k \notin dirty' \/ roll'.queued
        PROVE  roll'.content.texts = Texts(k)'
    <3>1. Intact(k)
      BY <1>1, <2>5 DEF Intact
    <3>2. ~ roll.conflict /\ ~ (roll.queued /\ k \in hours)
          /\ (k \notin dirty' \/ roll.queued)
      BY <1>9, <2>2, <2>3, <2>5
    <3>3. k \notin hours /\ (k \notin dirty \/ roll.queued)
      BY <1>1, <3>2
    <3>4. roll.content.texts = Texts(k)
      BY <2>2, <2>3, <3>1, <3>2, <3>3 DEF IInv, Snapshot
    <3>5. Texts(k)' = Texts(k)
      BY <1>6, <2>4, <3>3
    <3> QED
      BY <1>9, <2>2, <3>4, <3>5
  <2>6. roll'.content.heard = HeardIn(k, ever)'
    BY <1>5, <1>9, <2>2, <2>4
  <2>7. pass'.queue # {} /\ k = Min(pass'.queue) /\ status'[k] \in {"missing", "complete"}
    BY <1>1, <2>4
  <2>8. \A j : j = k =>
          /\ (Intact(j)' /\ ~ roll'.conflict /\ (j \notin dirty' \/ roll'.queued)
                => roll'.content.texts = Texts(j)')
          /\ roll'.content.heard = HeardIn(j, ever)'
    BY <2>5, <2>6
  <2> QED
    BY <2>3, <2>7, <2>8 DEF Snapshot, Texts, HeardIn, Intact
<1> QED
  BY <1>7, <1>10, <1>11, <1>12, <1>13, <1>14

(* A hearing that is done needs nothing of Fresh.                          *)
LEMMA DoneFresh ==
  ASSUME IInv, NEW x \in Hearings,
         phase' = [phase EXCEPT ![x] = "done"], known' = [known EXCEPT ![x] = FALSE],
         UNCHANGED <<now, packetOf, heardAt, lastHeard, stored, ever>>
  PROVE  /\ Fresh'
         /\ phase' \in [Hearings -> {"new", "heard", "stored", "done"}]
         /\ known' \in [Hearings -> BOOLEAN]
<1>1. /\ phase'[x] = "done"
      /\ \A y \in Hearings : y # x => phase'[y] = phase[y] /\ known'[y] = known[y]
      /\ phase' \in [Hearings -> {"new", "heard", "stored", "done"}]
      /\ known' \in [Hearings -> BOOLEAN]
  BY DEF IInv, IngestTypes
<1>2. \A y \in Hearings : y # x =>
        /\ phase[y] \in {"new", "heard"} => y \notin ever
        /\ phase[y] \in {"heard", "stored"} =>
             /\ packetOf[y] \in Packets
             /\ heardAt[y] \in Times /\ now - Clamp <= heardAt[y] /\ heardAt[y] <= now + Clamp
             /\ lastHeard[packetOf[y]] = now
             /\ ~ known'[y] =>
                  \A z \in stored : packetOf[z] = packetOf[y] => now - Clamp <= heardAt[z]
  BY <1>1 DEF IInv, Fresh
<1>3. Fresh'
  BY <1>1, <1>2 DEF Fresh
<1> QED
  BY <1>1, <1>3

LEMMA StoreGroupTextInv ==
  ASSUME IInv, NEW x \in Hearings, StoreGroupText(x)
  PROVE  IInv'
<1>1. /\ phase[x] = "stored"
      /\ phase' = [phase EXCEPT ![x] = "done"]
      /\ known' = [known EXCEPT ![x] = FALSE]
      /\ IF packetOf[x] \in messages
         THEN UNCHANGED <<messages, said, dirty, roll>>
         ELSE InsertChannelMessage(packetOf[x], known[x])
      /\ UNCHANGED <<now, heardVars, lastHeard, stored, ever, rollVars, rawDeletedBefore,
                     pass, cleanup, faults>>
      /\ UNCHANGED <<packetOf, heardAt>>
  BY DEF StoreGroupText, heardVars
<1>2. IngestTypes
  BY DEF IInv
<1>3. /\ Fresh'
      /\ phase' \in [Hearings -> {"new", "heard", "stored", "done"}]
      /\ known' \in [Hearings -> BOOLEAN]
  BY <1>1, DoneFresh
<1>4. /\ packetOf[x] \in Packets /\ lastHeard[packetOf[x]] # Never
      /\ known[x] \/ \A y \in stored : packetOf[y] = packetOf[x] => now - Clamp <= heardAt[y]
  <2>1. now # Never
    BY <1>2, RollupAssumption DEF IngestTypes, Times, Never
  <2> QED
    BY <1>1, <2>1 DEF IInv, Fresh
<1>5. CleanupTypes' /\ HeldBack'
  BY <1>1 DEF IInv, CleanupTypes, HeldBack, Intact, OldHours
<1>6. CASE packetOf[x] \in messages
  <2>1. UNCHANGED <<messages, said, dirty, roll, status, rolled, revision>>
    BY <1>1, <1>6 DEF rollVars
  <2>2. IngestTypes'
    BY <1>1, <1>2, <1>3, <2>1 DEF IngestTypes
  <2>3. RollTypes' /\ Registered' /\ RawRows'
    BY <1>1, <2>1 DEF IInv, RollTypes, Registered, RawRows
  <2>4. Exact' /\ Snapshot'
    BY <1>1, <2>1 DEF IInv, Exact, Snapshot, Texts, HeardIn, Intact
  <2> QED
    BY <1>3, <1>5, <2>2, <2>3, <2>4 DEF IInv
<1>7. CASE packetOf[x] \notin messages
  <2>1. InsertChannelMessage(packetOf[x], known[x]) /\ known[x] \in BOOLEAN
    BY <1>1, <1>2, <1>7 DEF IngestTypes
  <2>2. /\ said' \subseteq ever /\ messages' \subseteq Packets
        /\ RollTypes' /\ RawRows' /\ Registered' /\ Exact' /\ Snapshot'
    BY <1>1, <1>4, <2>1, MessageInv
  <2>3. IngestTypes'
    BY <1>1, <1>2, <1>3, <2>2 DEF IngestTypes
  <2> QED
    BY <1>3, <1>5, <2>2, <2>3 DEF IInv
<1> QED
  BY <1>6, <1>7

LEMMA NotDecryptedInv ==
  ASSUME IInv, NEW x \in Hearings, NotDecrypted(x)
  PROVE  IInv'
<1>1. /\ phase' = [phase EXCEPT ![x] = "done"]
      /\ known' = [known EXCEPT ![x] = FALSE]
      /\ UNCHANGED <<now, packetOf, heardAt, lastHeard, stored, messages, ever, said, status,
                     rolled, revision, dirty, rawDeletedBefore, pass, roll, cleanup, faults>>
  BY DEF NotDecrypted, heardVars, rawVars, rollVars
<1>2. /\ Fresh'
      /\ phase' \in [Hearings -> {"new", "heard", "stored", "done"}]
      /\ known' \in [Hearings -> BOOLEAN]
  BY <1>1, DoneFresh
<1>3. IngestTypes' /\ RollTypes' /\ CleanupTypes'
  BY <1>1, <1>2 DEF IInv, IngestTypes, RollTypes, CleanupTypes
<1>4. RawRows' /\ Registered' /\ HeldBack'
  BY <1>1 DEF IInv, RawRows, Registered, HeldBack, Intact, OldHours
<1>5. Exact' /\ Snapshot'
  BY <1>1 DEF IInv, Exact, Snapshot, Texts, HeardIn, Intact
<1> QED
  BY <1>2, <1>3, <1>4, <1>5 DEF IInv

LEMMA BackfillDecryptsInv ==
  ASSUME IInv, NEW p \in Packets, BackfillDecrypts(p)
  PROVE  IInv'
<1>1. /\ lastHeard[p] # Never
      /\ InsertChannelMessage(p, TRUE)
      /\ UNCHANGED <<now, heardVars, lastHeard, stored, ever, rollVars, rawDeletedBefore,
                     pass, cleanup, faults>>
      /\ UNCHANGED <<phase, known, packetOf, heardAt>>
  BY DEF BackfillDecrypts, ingestVars, heardVars
<1>2. /\ said' \subseteq ever /\ messages' \subseteq Packets
      /\ RollTypes' /\ RawRows' /\ Registered' /\ Exact' /\ Snapshot'
  BY <1>1, MessageInv
<1>3. IngestTypes' /\ CleanupTypes' /\ Fresh' /\ HeldBack'
  BY <1>1, <1>2 DEF IInv, IngestTypes, CleanupTypes, Fresh, HeldBack, Intact, OldHours
<1> QED
  BY <1>2, <1>3 DEF IInv

LEMMA TickInv ==
  ASSUME IInv, Tick
  PROVE  IInv'
<1>1. /\ now < MaxTime /\ now' = now + 1
      /\ \A x \in Hearings : phase[x] \in {"new", "done"}
      /\ UNCHANGED <<phase, known, packetOf, heardAt, lastHeard, stored, messages, ever, said,
                     status, rolled, revision, dirty, rawDeletedBefore, pass, roll, cleanup,
                     faults>>
  BY DEF Tick, ingestVars, heardVars, rawVars, rollVars
<1>2. IngestTypes /\ CleanupTypes /\ now \in Nat /\ MaxTime \in Nat
  BY RollupAssumption DEF IInv, IngestTypes, Times
<1>3. now' \in Times
  BY <1>1, <1>2 DEF Times
<1>4. IngestTypes' /\ RollTypes' /\ CleanupTypes'
  BY <1>1, <1>3 DEF IInv, IngestTypes, RollTypes, CleanupTypes
<1>5. Fresh'
  BY <1>1 DEF IInv, Fresh
<1>6. RawRows'
  <2>1. \A p \in Packets : lastHeard[p] = Never \/ lastHeard[p] \in 0..now'
    <3>1. \A p \in Packets : lastHeard[p] = Never \/ lastHeard[p] \in 0..now
      BY DEF IInv, RawRows
    <3>2. 0..now \subseteq 0..now'
      BY <1>1, <1>2
    <3> QED
      BY <3>1, <3>2
  <2> QED
    BY <1>1, <2>1 DEF IInv, RawRows
<1>7. Registered'
  <2>1. \A h \in Hours : h + Delay <= now => h + Delay <= now'
    <3>1. \A h \in Hours : h + Delay \in Int
      BY RollupAssumption DEF Hours
    <3> QED
      BY <1>1, <1>2, <3>1
  <2> QED
    BY <1>1, <2>1 DEF IInv, Registered
<1>8. Exact' /\ Snapshot'
  BY <1>1 DEF IInv, Exact, Snapshot, Texts, HeardIn, Intact
<1>9. HeldBack'
  <2>1. cleanup.at \in Nat /\ cleanup.cutoff \in Int
    BY <1>2 DEF CleanupTypes, Cleanups, Times
  <2>2. cleanup.at <= now /\ (cleanup.step = "packets" => cleanup.cutoff < now)
    BY DEF IInv, HeldBack
  <2>3. cleanup.at <= now' /\ (cleanup.step = "packets" => cleanup.cutoff < now')
    BY <1>1, <1>2, <2>1, <2>2
  <2> QED
    BY <1>1, <2>3 DEF IInv, HeldBack, Intact, OldHours
<1> QED
  BY <1>4, <1>5, <1>6, <1>7, <1>8, <1>9 DEF IInv

-----------------------------------------------------------------------------
(* The pass                                                                *)

(* What a pass may do to a cleanup under way: take rows from it that its   *)
(* statement saw.                                                          *)
Narrows ==
  /\ cleanup' \in Cleanups
  /\ cleanup'.step = cleanup.step /\ cleanup'.at = cleanup.at
  /\ cleanup'.cutoff = cleanup.cutoff /\ cleanup'.held = cleanup.held
  /\ cleanup'.families \subseteq cleanup.families /\ cleanup'.queued \subseteq cleanup.queued

LEMMA Narrowing ==
  ASSUME IInv, NEW families \in SUBSET cleanup.families, NEW queued \in SUBSET cleanup.queued,
         cleanup' = [cleanup EXCEPT !.families = families, !.queued = queued]
  PROVE  Narrows
<1>1. cleanup \in Cleanups
  BY DEF IInv, CleanupTypes
<1>2. families \in SUBSET Hours /\ queued \in SUBSET Hours
  BY <1>1 DEF Cleanups
<1>3. cleanup' \in Cleanups
  BY <1>1, <1>2 DEF Cleanups
<1>4. /\ cleanup'.step = cleanup.step /\ cleanup'.at = cleanup.at
      /\ cleanup'.cutoff = cleanup.cutoff /\ cleanup'.held = cleanup.held
      /\ cleanup'.families = families /\ cleanup'.queued = queued
  BY <1>1 DEF Cleanups
<1> QED
  BY <1>3, <1>4 DEF Narrows

(* What the steps of a pass leave alone, and what that is enough for.      *)
LEMMA NarrowingSteps ==
  ASSUME IInv, UNCHANGED <<now, ingestVars, rawVars, rawDeletedBefore>>, Narrows,
         faults' \in 0..MaxFaults
  PROVE  /\ IngestTypes' /\ CleanupTypes' /\ Fresh' /\ RawRows' /\ HeldBack'
         /\ UNCHANGED <<now, packetOf, heardAt, ever, said, rawDeletedBefore>>
         /\ \A h : /\ HeardIn(h, ever)' = HeardIn(h, ever)
                   /\ Texts(h)' = Texts(h)
                   /\ Intact(h)' <=> Intact(h)
<1>1. UNCHANGED <<now, phase, known, packetOf, heardAt, lastHeard, stored, messages, ever, said,
                  rawDeletedBefore>>
  BY DEF ingestVars, heardVars, rawVars
<1>2. IngestTypes' /\ CleanupTypes'
  BY <1>1 DEF IInv, IngestTypes, CleanupTypes, Narrows
<1>3. Fresh' /\ RawRows' /\ HeldBack'
  <2>1. Fresh' /\ RawRows'
    BY <1>1 DEF IInv, Fresh, RawRows
  <2>2. OldHours' = OldHours
    BY DEF OldHours, Narrows
  <2>3. HeldBack'
    BY <1>1, <2>2 DEF IInv, HeldBack, Intact, Narrows
  <2> QED
    BY <2>1, <2>3
<1>4. \A h : /\ HeardIn(h, ever)' = HeardIn(h, ever)
             /\ Texts(h)' = Texts(h)
             /\ Intact(h)' <=> Intact(h)
  BY <1>1 DEF HeardIn, Texts, Intact
<1> QED
  BY <1>1, <1>2, <1>3, <1>4

LEMMA PassSteps ==
  ASSUME IInv, UNCHANGED <<now, ingestVars, rawVars, rawDeletedBefore, cleanup>>,
         faults' \in 0..MaxFaults
  PROVE  /\ IngestTypes' /\ CleanupTypes' /\ Fresh' /\ RawRows' /\ HeldBack'
         /\ UNCHANGED <<now, packetOf, heardAt, ever, said, rawDeletedBefore>>
         /\ \A h : /\ HeardIn(h, ever)' = HeardIn(h, ever)
                   /\ Texts(h)' = Texts(h)
                   /\ Intact(h)' <=> Intact(h)
<1>1. Narrows
  BY DEF IInv, CleanupTypes, Narrows
<1> QED
  BY <1>1, NarrowingSteps

(* An hour is marked partial only if it is registered.                     *)
LEMMA MarkPartialHolds ==
  ASSUME IInv, NEW hours \in SUBSET Hours, MarkPartial(hours),
         \A h \in hours : status[h] # "none",
         UNCHANGED <<now, packetOf, heardAt, ever, said, rawDeletedBefore, dirty>>
  PROVE  /\ status' \in [Hours -> {"none", "missing", "complete", "partial"}]
         /\ rolled' \in [Hours -> Contents] /\ revision' \in Nat
         /\ Registered' /\ Exact'
<1>1. /\ status' = [h \in Hours |-> IF h \in hours THEN "partial" ELSE status[h]]
      /\ revision' = IF hours # {} THEN revision + 1 ELSE revision
      /\ rolled' = rolled
  BY DEF MarkPartial
<1>2. RollTypes
  BY DEF IInv
<1>3. /\ status' \in [Hours -> {"none", "missing", "complete", "partial"}]
      /\ rolled' \in [Hours -> Contents] /\ revision' \in Nat
  BY <1>1, <1>2 DEF RollTypes
<1>4. Registered'
  BY <1>1 DEF IInv, Registered
<1>5. Exact'
  BY <1>1 DEF IInv, Exact, HeardIn, Texts, Intact
<1> QED
  BY <1>3, <1>4, <1>5

LEMMA RegisterHoursInv ==
  ASSUME IInv, RegisterHours
  PROVE  IInv'
<1>1. /\ pass' = [NoPass EXCEPT !.step = "registered"] /\ roll = NoRoll
      /\ UNCHANGED <<now, ingestVars, rawVars, rolled, revision, dirty, rawDeletedBefore,
                     roll, cleanup, faults>>
  BY DEF RegisterHours, AtStep
<1>2. /\ IngestTypes' /\ CleanupTypes' /\ Fresh' /\ RawRows' /\ HeldBack'
      /\ UNCHANGED <<now, packetOf, heardAt, ever, said, rawDeletedBefore>>
      /\ \A h : /\ HeardIn(h, ever)' = HeardIn(h, ever)
                /\ Texts(h)' = Texts(h)
                /\ Intact(h)' <=> Intact(h)
  BY <1>1, PassSteps DEF IInv, CleanupTypes
<1>3. RollTypes
  BY DEF IInv
<1>4. /\ status' \in [Hours -> {"none", "missing", "complete", "partial"}]
      /\ \A h \in Hours : \/ status'[h] = status[h]
                          \/ status[h] = "none" /\ status'[h] = "missing" /\ h + Delay <= now
  <2>1. CASE stored = {}
    BY <1>3, <2>1 DEF RegisterHours, RollTypes
  <2>2. CASE stored # {}
    <3> DEFINE first == HourOf(Max({Min({heardAt[x] : x \in stored}), RegisterSince}))
    <3>1. status' = [h \in Hours |->
                       IF status[h] = "none" /\ first <= h /\ h + Delay <= now
                       THEN "missing" ELSE status[h]]
      BY <2>2 DEF RegisterHours
    <3> HIDE DEF first
    <3> QED
      BY <1>3, <3>1 DEF RollTypes
  <2> QED
    BY <2>1, <2>2
<1>5. RollTypes'
  <2>1. pass' \in Passes
    BY <1>1 DEF Passes, NoPass
  <2> QED
    BY <1>1, <1>3, <1>4, <2>1 DEF RollTypes
<1>6. Registered'
  BY <1>1, <1>2, <1>4 DEF IInv, Registered
<1>7. Exact'
  BY <1>1, <1>2, <1>4 DEF IInv, Exact
<1>8. Snapshot'
  BY <1>1 DEF Snapshot
<1> QED
  BY <1>2, <1>5, <1>6, <1>7, <1>8 DEF IInv

LEMMA MarkPartialHoursInv ==
  ASSUME IInv, MarkPartialHours
  PROVE  IInv'
<1> DEFINE hours == {h \in Hours : status[h] = "missing" /\ ~Intact(h)}
<1>1. /\ pass' = [pass EXCEPT !.step = "marked"] /\ roll = NoRoll
      /\ MarkPartial(hours)
      /\ UNCHANGED <<now, ingestVars, rawVars, dirty, rawDeletedBefore, roll, cleanup, faults>>
  BY DEF MarkPartialHours, AtStep
<1>2. /\ IngestTypes' /\ CleanupTypes' /\ Fresh' /\ RawRows' /\ HeldBack'
      /\ UNCHANGED <<now, packetOf, heardAt, ever, said, rawDeletedBefore>>
  BY <1>1, PassSteps DEF IInv, CleanupTypes
<1>3. hours \in SUBSET Hours /\ \A h \in hours : status[h] # "none"
  OBVIOUS
<1> HIDE DEF hours
<1>4. /\ status' \in [Hours -> {"none", "missing", "complete", "partial"}]
      /\ rolled' \in [Hours -> Contents] /\ revision' \in Nat
      /\ Registered' /\ Exact'
  BY <1>1, <1>2, <1>3, MarkPartialHolds
<1>5. RollTypes'
  <2>1. pass' \in Passes
    BY <1>1 DEF IInv, RollTypes, Passes
  <2> QED
    BY <1>1, <1>4, <2>1 DEF IInv, RollTypes
<1>6. Snapshot'
  BY <1>1 DEF Snapshot
<1> QED
  BY <1>2, <1>4, <1>5, <1>6 DEF IInv

LEMMA MissingHoursInv ==
  ASSUME IInv, MissingHours
  PROVE  IInv'
<1>1. /\ pass' = [pass EXCEPT !.step = "rolling",
                              !.queue = {h \in Hours : status[h] = "missing"}]
      /\ roll = NoRoll
      /\ UNCHANGED <<now, ingestVars, rawVars, status, rolled, revision, dirty,
                     rawDeletedBefore, roll, cleanup, faults>>
  BY DEF MissingHours, AtStep, rollVars
<1>2. /\ IngestTypes' /\ CleanupTypes' /\ Fresh' /\ RawRows' /\ HeldBack'
      /\ UNCHANGED <<now, packetOf, heardAt, ever, said, rawDeletedBefore>>
      /\ \A h : /\ HeardIn(h, ever)' = HeardIn(h, ever)
                /\ Texts(h)' = Texts(h)
                /\ Intact(h)' <=> Intact(h)
  BY <1>1, PassSteps DEF IInv, CleanupTypes
<1>3. RollTypes'
  <2>1. pass' \in Passes
    BY <1>1 DEF IInv, RollTypes, Passes
  <2> QED
    BY <1>1, <2>1 DEF IInv, RollTypes
<1>4. Registered' /\ Exact'
  BY <1>1, <1>2 DEF IInv, Registered, Exact
<1>5. Snapshot'
  BY <1>1 DEF Snapshot
<1> QED
  BY <1>2, <1>3, <1>4, <1>5 DEF IInv

(* What is dropped from the queue can no longer be re-rolled.              *)
LEMMA DirtyHoursInv ==
  ASSUME IInv, DirtyHours
  PROVE  IInv'
<1> DEFINE fresh == {h \in dirty' : status[h] = "complete"} \ pass.tried
<1>1. /\ dirty' = {h \in dirty : status[h] # "partial" /\ Intact(h)}
      /\ pass' = IF fresh = {} THEN NoPass
                 ELSE [pass EXCEPT !.queue = fresh, !.tried = @ \cup fresh]
      /\ roll = NoRoll
      /\ cleanup' = [cleanup EXCEPT !.queued = @ \cap dirty']
      /\ UNCHANGED <<now, ingestVars, rawVars, status, rolled, revision, rawDeletedBefore,
                     roll, faults>>
  BY DEF DirtyHours, AtStep, rollVars
<1>2. /\ IngestTypes' /\ CleanupTypes' /\ Fresh' /\ RawRows' /\ HeldBack'
      /\ UNCHANGED <<now, packetOf, heardAt, ever, said, rawDeletedBefore>>
      /\ \A h : /\ HeardIn(h, ever)' = HeardIn(h, ever)
                /\ Texts(h)' = Texts(h)
                /\ Intact(h)' <=> Intact(h)
  <2>1. cleanup' = [cleanup EXCEPT !.families = cleanup.families,
                                   !.queued = cleanup.queued \cap dirty']
    BY <1>1 DEF IInv, CleanupTypes, Cleanups
  <2>2. Narrows
    BY <2>1, Narrowing
  <2> QED
    BY <1>1, <2>2, NarrowingSteps DEF IInv, CleanupTypes
<1>3. RollTypes'
  <2>1. fresh \subseteq Hours /\ dirty' \subseteq Hours
    BY <1>1 DEF IInv, RollTypes
  <2> HIDE DEF fresh
  <2>2. pass' \in Passes
    BY <1>1, <2>1 DEF IInv, RollTypes, Passes, NoPass
  <2> QED
    BY <1>1, <2>1, <2>2 DEF IInv, RollTypes
<1>4. Registered'
  BY <1>1, <1>2 DEF IInv, Registered
<1>5. Exact'
  <2>1. \A h \in Hours : status[h] = "complete" /\ h \notin dirty' /\ Intact(h) => h \notin dirty
    BY <1>1
  <2> QED
    BY <1>1, <1>2, <2>1 DEF IInv, Exact
<1>6. Snapshot'
  BY <1>1 DEF Snapshot
<1> QED
  BY <1>2, <1>3, <1>4, <1>5, <1>6 DEF IInv

(* An hour that kept its raw rows has every hearing, and of each of them   *)
(* the message if it ever had one.                                         *)
LEMMA IntactContent ==
  ASSUME IInv, NEW h \in Hours, Intact(h)
  PROVE  /\ Content(h, stored, messages) \in Contents
         /\ Content(h, stored, messages).heard = HeardIn(h, ever)
         /\ Content(h, stored, messages).texts = Texts(h)
<1>1. IngestTypes
  BY DEF IInv
<1>2. HeardIn(h, stored) = HeardIn(h, ever)
  <2>1. ASSUME NEW x \in ever \ stored PROVE HourOf(heardAt[x]) # h
    <3>1. heardAt[x] \in Times /\ heardAt[x] <= rawDeletedBefore + Clamp
      BY <2>1 DEF IInv, RawRows
    <3>2. HourOf(heardAt[x]) <= heardAt[x] /\ HourOf(heardAt[x]) \in Hours
      BY <3>1, HourFacts
    <3>3. h > rawDeletedBefore + Clamp
      BY DEF Intact
    <3>4. heardAt[x] \in Int /\ rawDeletedBefore + Clamp \in Int /\ h \in Int
      BY <3>1, RollupAssumption DEF IInv, CleanupTypes, Times, Hours
    <3>5. HourOf(heardAt[x]) \in Int
      BY <3>2 DEF Hours
    <3> QED
      BY <3>1, <3>2, <3>3, <3>4, <3>5
  <2> QED
    BY <1>1, <2>1 DEF HeardIn, IngestTypes
<1>3. {packetOf[x] : x \in HeardIn(h, stored)} \cap messages = Texts(h)
  <2>1. ASSUME NEW x \in HeardIn(h, stored), packetOf[x] \in messages
        PROVE  x \in HeardIn(h, said)
    BY <2>1 DEF HeardIn, IInv, RawRows
  <2>2. ASSUME NEW x \in HeardIn(h, said)
        PROVE  x \in HeardIn(h, stored) /\ packetOf[x] \in messages
    <3>1. x \in HeardIn(h, ever)
      BY <1>1, <2>2 DEF HeardIn, IngestTypes
    <3>2. x \in stored /\ x \in said /\ x \in HeardIn(h, stored)
      BY <1>2, <2>2, <3>1 DEF HeardIn
    <3> QED
      BY <3>2 DEF IInv, RawRows
  <2> QED
    BY <2>1, <2>2 DEF Texts
<1>4. HeardIn(h, stored) \subseteq Hearings /\ Texts(h) \subseteq Packets
  BY <1>1, <1>3 DEF HeardIn, IngestTypes
<1> QED
  BY <1>2, <1>3, <1>4 DEF Content, Contents

LEMMA RollBeginInv ==
  ASSUME IInv, RollBegin
  PROVE  IInv'
<1> DEFINE h == Min(pass.queue)
<1>1. /\ roll = NoRoll /\ pass.queue # {}
      /\ UNCHANGED <<now, ingestVars, rawVars, dirty, rawDeletedBefore, cleanup, faults>>
  BY DEF RollBegin, AtStep
<1>2. /\ IngestTypes' /\ CleanupTypes' /\ Fresh' /\ RawRows' /\ HeldBack'
      /\ UNCHANGED <<now, packetOf, heardAt, ever, said, rawDeletedBefore>>
      /\ \A k : /\ HeardIn(k, ever)' = HeardIn(k, ever)
                /\ Texts(k)' = Texts(k)
                /\ Intact(k)' <=> Intact(k)
  BY <1>1, PassSteps DEF IInv, CleanupTypes
<1>3. h \in Hours
  <2>1. pass.queue \in SUBSET Hours
    BY DEF IInv, RollTypes, Passes
  <2> QED
    BY <1>1, <2>1, LeastHour
<1>4. CASE status[h] # "none" /\ Intact(h) /\ status[h] # "partial"
  <2>1. /\ roll' = [hour |-> h, content |-> Content(h, stored, messages),
                    queued |-> h \in dirty, conflict |-> FALSE]
        /\ UNCHANGED <<pass, status, rolled, revision>>
    BY <1>4 DEF RollBegin, rollVars
  <2>2. /\ Content(h, stored, messages) \in Contents
        /\ Content(h, stored, messages).heard = HeardIn(h, ever)
        /\ Content(h, stored, messages).texts = Texts(h)
    BY <1>3, <1>4, IntactContent
  <2>3. status[h] \in {"missing", "complete"}
    BY <1>3, <1>4 DEF IInv, RollTypes
  <2> HIDE DEF h
  <2>4. RollTypes'
    <3>1. roll' \in Rolls
      BY <1>3, <2>1, <2>2 DEF Rolls
    <3> QED
      BY <1>1, <2>1, <3>1 DEF IInv, RollTypes
  <2>5. Registered' /\ Exact'
    BY <1>1, <1>2, <2>1 DEF IInv, Registered, Exact
  <2>6. Snapshot'
    <3>1. PICK k \in Hours : k = h
      BY <1>3
    <3>2. /\ roll'.hour = k
          /\ roll'.content.heard = HeardIn(k, ever)'
          /\ roll'.content.texts = Texts(k)'
      BY <1>2, <2>1, <2>2, <3>1
    <3>3. pass'.queue # {} /\ k = Min(pass'.queue) /\ status'[k] \in {"missing", "complete"}
      BY <1>1, <2>1, <2>3, <3>1 DEF h
    <3> QED
      BY <3>2, <3>3 DEF Snapshot, Texts, HeardIn
  <2> QED
    BY <1>2, <2>4, <2>5, <2>6 DEF IInv
<1>5. CASE ~ (status[h] # "none" /\ Intact(h) /\ status[h] # "partial")
  <2> DEFINE hours == {h} \cap {k \in Hours : status[k] = "missing"}
  <2>1. /\ pass' = [pass EXCEPT !.queue = @ \ {h}]
        /\ MarkPartial(hours)
        /\ roll' = roll
    BY <1>5 DEF RollBegin
  <2>2. hours \in SUBSET Hours /\ \A k \in hours : status[k] # "none"
    OBVIOUS
  <2> HIDE DEF hours, h
  <2>3. /\ status' \in [Hours -> {"none", "missing", "complete", "partial"}]
        /\ rolled' \in [Hours -> Contents] /\ revision' \in Nat
        /\ Registered' /\ Exact'
    BY <1>1, <1>2, <2>1, <2>2, MarkPartialHolds
  <2>4. RollTypes'
    <3>1. pass' \in Passes
      BY <2>1 DEF IInv, RollTypes, Passes
    <3> QED
      BY <1>1, <2>1, <2>3, <3>1 DEF IInv, RollTypes
  <2>5. Snapshot'
    BY <1>1, <2>1 DEF Snapshot
  <2> QED
    BY <1>2, <2>3, <2>4, <2>5 DEF IInv
<1> QED
  BY <1>4, <1>5

LEMMA EndRollHolds ==
  ASSUME IInv, roll # NoRoll, EndRoll
  PROVE  pass' \in Passes /\ roll' \in Rolls \cup {NoRoll} /\ Snapshot'
<1>1. pass' \in Passes
  BY DEF EndRoll, IInv, RollTypes, Passes
<1>2. roll' = NoRoll
  BY DEF EndRoll
<1> QED
  BY <1>1, <1>2 DEF Snapshot

LEMMA RollCommitInv ==
  ASSUME IInv, RollCommit
  PROVE  IInv'
<1>1. /\ roll # NoRoll /\ ~ roll.conflict /\ EndRoll /\ FinishRollupHour
      /\ cleanup' = [cleanup EXCEPT !.families = @ \ {roll.hour}, !.queued = @ \cap dirty']
      /\ UNCHANGED <<now, ingestVars, rawVars, rawDeletedBefore, faults>>
  BY DEF RollCommit
<1>2. /\ IngestTypes' /\ CleanupTypes' /\ Fresh' /\ RawRows' /\ HeldBack'
      /\ UNCHANGED <<now, packetOf, heardAt, ever, said, rawDeletedBefore>>
      /\ \A k : /\ HeardIn(k, ever)' = HeardIn(k, ever)
                /\ Texts(k)' = Texts(k)
                /\ Intact(k)' <=> Intact(k)
  <2>1. Narrows
    BY <1>1, Narrowing
  <2> QED
    BY <1>1, <2>1, NarrowingSteps DEF IInv, CleanupTypes
<1>3. pass' \in Passes /\ roll' \in Rolls \cup {NoRoll} /\ Snapshot'
  BY <1>1, EndRollHolds
<1>4. PICK h \in Hours : h = roll.hour
  BY <1>1 DEF IInv, RollTypes, Rolls
<1>5. /\ status' = [status EXCEPT ![h] = "complete"]
      /\ rolled' = [rolled EXCEPT ![h] = roll.content]
      /\ revision' = IF status[h] # "complete" \/ rolled[h] # roll.content
                     THEN revision + 1 ELSE revision
      /\ dirty' = IF roll.queued THEN dirty \ {h} ELSE dirty
  BY <1>1, <1>4 DEF FinishRollupHour
<1>6. RollTypes /\ roll.content \in Contents
  BY <1>1 DEF IInv, RollTypes, Rolls
<1>7. RollTypes'
  BY <1>3, <1>5, <1>6 DEF RollTypes
<1>8. /\ status'[h] = "complete" /\ rolled'[h] = roll.content
      /\ \A k \in Hours : k # h => status'[k] = status[k] /\ rolled'[k] = rolled[k]
  BY <1>5, <1>6 DEF RollTypes
<1>9. /\ status[h] \in {"missing", "complete"}
      /\ roll.content.heard = HeardIn(h, ever)
      /\ /\ Intact(h)
         /\ h \notin dirty \/ roll.queued
         => roll.content.texts = Texts(h)
  BY <1>1, <1>4 DEF IInv, Snapshot
<1>10. Registered'
  <2>1. h + Delay <= now
    BY <1>9 DEF IInv, Registered
  <2> QED
    BY <1>2, <1>8, <2>1 DEF IInv, Registered
<1>11. Exact'
  <2>1. SUFFICES ASSUME NEW k \in Hours, status'[k] = "complete"
                 PROVE  /\ rolled'[k].heard = HeardIn(k, ever)
                        /\ k \notin dirty' /\ Intact(k) => rolled'[k].texts = Texts(k)
    BY <1>2 DEF Exact
  <2>2. CASE k = h
    <3>1. h \notin dirty' => h \notin dirty \/ roll.queued
      BY <1>5
    <3> QED
      BY <1>8, <1>9, <2>2, <3>1
  <2>3. CASE k # h
    <3>1. k \notin dirty' => k \notin dirty
      BY <1>5, <2>3
    <3> QED
      BY <1>8, <2>1, <2>3, <3>1 DEF IInv, Exact
  <2> QED
    BY <2>2, <2>3
<1> QED
  BY <1>2, <1>3, <1>7, <1>10, <1>11 DEF IInv

(* A roll that ends without a commit changes nothing readers see.          *)
LEMMA RollGivenUp ==
  ASSUME IInv, roll # NoRoll, EndRoll, faults' \in 0..MaxFaults,
         UNCHANGED <<now, ingestVars, rawVars, rollVars, dirty, rawDeletedBefore, cleanup>>
  PROVE  IInv'
<1>1. /\ IngestTypes' /\ CleanupTypes' /\ Fresh' /\ RawRows' /\ HeldBack'
      /\ UNCHANGED <<now, packetOf, heardAt, ever, said, rawDeletedBefore>>
      /\ \A k : /\ HeardIn(k, ever)' = HeardIn(k, ever)
                /\ Texts(k)' = Texts(k)
                /\ Intact(k)' <=> Intact(k)
  BY PassSteps
<1>2. pass' \in Passes /\ roll' \in Rolls \cup {NoRoll} /\ Snapshot'
  BY EndRollHolds
<1>3. UNCHANGED <<status, rolled, revision, dirty>>
  BY DEF rollVars
<1>4. RollTypes'
  BY <1>2, <1>3 DEF IInv, RollTypes
<1>5. Registered' /\ Exact'
  BY <1>1, <1>3 DEF IInv, Registered, Exact
<1> QED
  BY <1>1, <1>2, <1>4, <1>5 DEF IInv

LEMMA RollConflictsInv ==
  ASSUME IInv, RollConflicts
  PROVE  IInv'
<1>1. faults' \in 0..MaxFaults
  BY DEF RollConflicts, IInv, CleanupTypes
<1> QED
  BY <1>1, RollGivenUp DEF RollConflicts

LEMMA RollFailsInv ==
  ASSUME IInv, RollFails
  PROVE  IInv'
<1>1. faults' \in 0..MaxFaults
  BY RollupAssumption DEF RollFails, IInv, CleanupTypes
<1> QED
  BY <1>1, RollGivenUp DEF RollFails

-----------------------------------------------------------------------------
(* The cleanup                                                             *)

LEMMA RawCutoffInv ==
  ASSUME IInv, RawCutoff
  PROVE  IInv'
<1> DEFINE retention == now - PacketRetention
           missing == {h \in Hours : status[h] = "missing"}
           behind == IF missing = {} THEN retention ELSE Min(missing) - Margin
           least == Min({behind, retention})
           cutoff == Max({least, retention - Cap})
           held == IF behind < cutoff THEN {} ELSE {h \in missing : Intact(h)}
<1>1. /\ cleanup' = [step |-> "packets", at |-> now, cutoff |-> cutoff, held |-> held,
                     families |-> {}, queued |-> {}]
      /\ UNCHANGED <<now, phase, known, packetOf, heardAt, lastHeard, stored, messages, ever,
                     said, status, rolled, revision, dirty, rawDeletedBefore, pass, roll, faults>>
  BY DEF RawCutoff, NoCleanup, ingestVars, heardVars, rawVars, rollVars
<1>2. /\ now \in Nat /\ PacketRetention \in Nat \ {0} /\ Cap \in Nat /\ Margin \in Nat
      /\ Clamp \in Nat /\ Margin >= Clamp
  BY RollupAssumption DEF IInv, IngestTypes, Times
<1>3. missing # {} => Min(missing) \in Hours /\ \A h \in missing : Min(missing) <= h
  BY LeastHour
<1>4. retention \in Int /\ behind \in Int /\ retention < now
  <2>1. missing # {} => Min(missing) \in Int
    BY <1>3 DEF Hours
  <2> QED
    BY <1>2, <2>1
<1>5. /\ least \in Int /\ least <= retention
      /\ cutoff \in Int /\ cutoff <= retention
  <2> HIDE DEF behind
  <2>1. least \in {behind, retention} /\ least <= retention
    BY <1>4, OfTwo
  <2>2. cutoff \in {least, retention - Cap}
    <3> HIDE DEF least
    <3>1. least \in Int /\ retention - Cap \in Int
      BY <1>2, <1>4, <2>1
    <3> QED
      BY <3>1, OfTwo
  <2> HIDE DEF least, cutoff
  <2> QED
    BY <1>2, <1>4, <2>1, <2>2
<1>6. \A h \in held : h \in Hours /\ Intact(h) /\ cutoff + Clamp <= h
  <2> HIDE DEF cutoff
  <2>1. SUFFICES ASSUME NEW h \in held PROVE h \in Hours /\ Intact(h) /\ cutoff + Clamp <= h
    OBVIOUS
  <2>2. ~ (behind < cutoff) /\ h \in missing /\ Intact(h)
    OBVIOUS
  <2>3. behind = Min(missing) - Margin /\ Min(missing) <= h /\ Min(missing) \in Int /\ h \in Int
    BY <1>3, <2>2 DEF Hours
  <2> HIDE DEF behind, missing, held
  <2> QED
    BY <1>2, <1>4, <1>5, <2>2, <2>3 DEF missing
<1> HIDE DEF cutoff, held
<1>7. HeldBack'
  <2>1. /\ cleanup'.at <= now'
        /\ cleanup'.step = "packets" => cleanup'.cutoff < now'
    BY <1>1, <1>2, <1>4, <1>5
  <2>2. \A h \in cleanup'.held : Intact(h)' /\ cleanup'.cutoff + Clamp <= h
    BY <1>1, <1>6 DEF Intact
  <2> QED
    BY <1>1, <2>1, <2>2 DEF HeldBack
<1>8. CleanupTypes'
  <2>1. held \in SUBSET Hours
    BY <1>6
  <2>2. now \in Times
    BY DEF IInv, IngestTypes
  <2> QED
    BY <1>1, <1>5, <2>1, <2>2 DEF IInv, CleanupTypes, Cleanups
<1>9. IngestTypes' /\ RollTypes' /\ Fresh' /\ RawRows' /\ Registered'
  BY <1>1 DEF IInv, IngestTypes, RollTypes, Fresh, RawRows, Registered
<1>10. Exact' /\ Snapshot'
  BY <1>1 DEF IInv, Exact, Snapshot, Texts, HeardIn, Intact
<1> QED
  BY <1>7, <1>8, <1>9, <1>10 DEF IInv

(* A batch: what it deletes is behind rawDeletedBefore, and that is before *)
(* the cutoff, so no held hour loses a row.                                *)
LEMMA DeleteOldPacketsInv ==
  ASSUME IInv, DeleteOldPackets
  PROVE  IInv'
<1> DEFINE victims == {p \in Packets : lastHeard[p] # Never /\ lastHeard[p] < cleanup.cutoff}
           times == {lastHeard[p] : p \in victims}
           oldest == Min(times)
           batch == {p \in victims : lastHeard[p] = oldest}
<1>1. /\ cleanup.step = "packets"
      /\ UNCHANGED <<now, phase, known, packetOf, heardAt, status, rolled, revision, dirty,
                     pass, roll, faults>>
  BY DEF DeleteOldPackets, ingestVars, heardVars, rollVars
<1>2. IngestTypes /\ CleanupTypes
  BY DEF IInv
<1>3. CASE victims = {}
  <2>1. /\ cleanup' = [cleanup EXCEPT !.step = "rollups"]
        /\ UNCHANGED <<lastHeard, stored, messages, ever, said, rawDeletedBefore>>
    BY <1>3 DEF DeleteOldPackets, rawVars
  <2>2. CleanupTypes'
    BY <1>1, <1>2, <2>1 DEF CleanupTypes, Cleanups
  <2>3. HeldBack'
    <3>1. /\ cleanup'.at = cleanup.at /\ cleanup'.cutoff = cleanup.cutoff
          /\ cleanup'.held = cleanup.held /\ cleanup'.step = "rollups"
      BY <1>2, <2>1 DEF CleanupTypes, Cleanups
    <3> QED
      BY <1>1, <2>1, <3>1 DEF IInv, HeldBack, Intact, OldHours
  <2>4. IngestTypes' /\ RollTypes' /\ Fresh' /\ RawRows' /\ Registered'
    BY <1>1, <2>1 DEF IInv, IngestTypes, RollTypes, Fresh, RawRows, Registered
  <2>5. Exact' /\ Snapshot'
    BY <1>1, <2>1 DEF IInv, Exact, Snapshot, Texts, HeardIn, Intact
  <2> QED
    BY <2>2, <2>3, <2>4, <2>5 DEF IInv
<1>4. CASE victims # {}
  <2>1. /\ lastHeard' = [p \in Packets |-> IF p \in batch THEN Never ELSE lastHeard[p]]
        /\ stored' = {x \in stored : packetOf[x] \notin batch}
        /\ messages' = messages \ batch
        /\ rawDeletedBefore' = Max({rawDeletedBefore, oldest})
        /\ UNCHANGED <<cleanup, ever, said>>
    BY <1>4 DEF DeleteOldPackets
  <2>2. now \in Nat /\ Clamp \in Nat /\ rawDeletedBefore \in Int /\ cleanup.cutoff \in Int
        /\ cleanup.cutoff < now
    BY <1>1, <1>2, RollupAssumption DEF IngestTypes, CleanupTypes, Cleanups, Times,
       IInv, HeldBack
  <2>3. oldest \in 0..now /\ oldest < cleanup.cutoff
    <3>1. times \in SUBSET (0..now) /\ times # {} /\ \A t \in times : t < cleanup.cutoff
      BY <1>4 DEF IInv, RawRows
    <3>2. oldest \in times
      <4> HIDE DEF times
      <4> QED
        BY <2>2, <3>1, LeastExists
    <3> QED
      BY <3>1, <3>2
  <2>4. /\ \A p \in batch : p \in Packets /\ lastHeard[p] = oldest
        /\ batch \subseteq Packets
    OBVIOUS
  <2> HIDE DEF batch, oldest, victims
  <2>5. /\ rawDeletedBefore' \in Int /\ rawDeletedBefore' >= rawDeletedBefore
        /\ rawDeletedBefore' >= oldest
        /\ rawDeletedBefore' \in {rawDeletedBefore, oldest}
    <3>1. oldest \in Int
      BY <2>3
    <3> QED
      BY <2>1, <2>2, <3>1, OfTwo
  <2>6. \A p \in Packets \ batch : lastHeard'[p] = lastHeard[p]
    BY <2>1
  <2>7. \A h \in Hours : Intact(h)' => Intact(h)
    <3>1. \A h \in Hours : h \in Int
      BY DEF Hours
    <3> QED
      BY <2>2, <2>5, <3>1 DEF Intact
  <2>8. IngestTypes'
    <3>1. lastHeard' \in [Packets -> Int]
      BY <1>2, <2>1 DEF IngestTypes, Never
    <3> QED
      BY <1>1, <1>2, <2>1, <3>1 DEF IngestTypes
  <2>9. RollTypes' /\ CleanupTypes' /\ Registered'
    BY <1>1, <1>2, <2>1, <2>5 DEF IInv, RollTypes, CleanupTypes, Registered
  <2>10. Fresh'
    <3>1. SUFFICES ASSUME NEW x \in Hearings
          PROVE
           /\ phase[x] \in {"new", "heard"} => x \notin ever
           /\ phase[x] \in {"heard", "stored"} =>
                /\ packetOf[x] \in Packets
                /\ heardAt[x] \in Times
                /\ now - Clamp <= heardAt[x] /\ heardAt[x] <= now + Clamp
                /\ lastHeard'[packetOf[x]] = now
                /\ ~ known[x] =>
                     \A y \in stored' : packetOf[y] = packetOf[x] => now - Clamp <= heardAt[y]
      BY <1>1, <2>1 DEF Fresh
    <3>2. phase[x] \in {"heard", "stored"} => lastHeard'[packetOf[x]] = now
      <4>1. SUFFICES ASSUME phase[x] \in {"heard", "stored"}
                     PROVE  lastHeard'[packetOf[x]] = now
        OBVIOUS
      <4>2. packetOf[x] \in Packets /\ lastHeard[packetOf[x]] = now
        BY <4>1 DEF IInv, Fresh
      <4>3. packetOf[x] \notin batch
        BY <2>2, <2>3, <2>4, <4>2
      <4> QED
        BY <2>6, <4>2, <4>3
    <3>3. stored' \subseteq stored
      BY <2>1
    <3> QED
      BY <3>2, <3>3 DEF IInv, Fresh
  <2>11. RawRows'
    <3>1. \A p \in Packets : lastHeard'[p] = Never \/ lastHeard'[p] \in 0..now
      BY <2>1 DEF IInv, RawRows
    <3>2. \A p \in messages' : lastHeard'[p] # Never
      BY <1>2, <2>1, <2>6 DEF IInv, RawRows, IngestTypes
    <3>3. ASSUME NEW x \in stored'
          PROVE  /\ lastHeard'[packetOf[x]] # Never
                 /\ heardAt[x] <= lastHeard'[packetOf[x]] + Clamp
                 /\ x \in said <=> packetOf[x] \in messages'
      <4>1. x \in stored /\ x \in ever /\ packetOf[x] \notin batch
        BY <1>2, <2>1 DEF IngestTypes
      <4>2. packetOf[x] \in Packets
        BY <4>1 DEF IInv, RawRows
      <4>3. lastHeard'[packetOf[x]] = lastHeard[packetOf[x]]
        BY <2>6, <4>1, <4>2
      <4>4. packetOf[x] \in messages' <=> packetOf[x] \in messages
        BY <2>1, <4>1
      <4> QED
        BY <4>1, <4>3, <4>4 DEF IInv, RawRows
    <3>4. ASSUME NEW x \in ever \ stored'
          PROVE  heardAt[x] <= rawDeletedBefore' + Clamp
      <4>1. heardAt[x] \in Int
        BY <1>2 DEF IngestTypes
      <4>2. CASE x \in stored
        <5>1. packetOf[x] \in batch
          BY <2>1, <3>4, <4>2
        <5>2. heardAt[x] <= oldest + Clamp
          BY <2>4, <4>2, <5>1 DEF IInv, RawRows
        <5>3. oldest \in Int
          BY <2>3
        <5> QED
          BY <2>2, <2>5, <4>1, <5>2, <5>3
      <4>3. CASE x \notin stored
        <5>1. heardAt[x] <= rawDeletedBefore + Clamp
          BY <3>4, <4>3 DEF IInv, RawRows
        <5> QED
          BY <2>2, <2>5, <4>1, <5>1
      <4> QED
        BY <4>2, <4>3
    <3> QED
      BY <1>1, <2>1, <3>1, <3>2, <3>3, <3>4 DEF IInv, RawRows
  <2>12. \A h : HeardIn(h, ever)' = HeardIn(h, ever) /\ Texts(h)' = Texts(h)
    BY <1>1, <2>1 DEF HeardIn, Texts
  <2>13. Exact'
    BY <1>1, <2>7, <2>12 DEF IInv, Exact
  <2>14. Snapshot'
    <3>1. SUFFICES ASSUME roll # NoRoll PROVE Snapshot'
      BY <1>1 DEF Snapshot
    <3>2. PICK h \in Hours : h = roll.hour /\ h = roll'.hour
      BY <1>1, <3>1 DEF IInv, RollTypes, Rolls
    <3>3. /\ roll'.content.heard = HeardIn(h, ever)'
          /\ Intact(h)' /\ ~ roll'.conflict /\ (h \notin dirty' \/ roll'.queued)
               => roll'.content.texts = Texts(h)'
      BY <1>1, <2>7, <2>12, <3>1, <3>2 DEF IInv, Snapshot
    <3>4. pass'.queue # {} /\ h = Min(pass'.queue) /\ status'[h] \in {"missing", "complete"}
      BY <1>1, <3>1, <3>2 DEF IInv, Snapshot
    <3> QED
      BY <3>2, <3>3, <3>4 DEF Snapshot, Texts, HeardIn, Intact
  <2>15. HeldBack'
    <3>1. ASSUME NEW h \in cleanup.held PROVE Intact(h)'
      <4>1. h \in Int /\ h > rawDeletedBefore + Clamp /\ cleanup.cutoff + Clamp <= h
        BY <1>2 DEF IInv, HeldBack, Intact, CleanupTypes, Cleanups, Hours
      <4>2. oldest \in Int
        BY <2>3
      <4>3. h > oldest + Clamp
        BY <2>2, <2>3, <4>1, <4>2
      <4> QED
        BY <2>5, <4>1, <4>3 DEF Intact
    <3> QED
      BY <1>1, <2>1, <3>1 DEF IInv, HeldBack, OldHours
  <2> QED
    BY <2>8, <2>9, <2>10, <2>11, <2>13, <2>14, <2>15 DEF IInv
<1> QED
  BY <1>3, <1>4

(* The statement has seen only rows of hours past retention.               *)
LEMMA SeeOldRollupsInv ==
  ASSUME IInv, SeeOldRollups
  PROVE  IInv'
<1> DEFINE families == {h \in OldHours : rolled[h] # Unrolled}
           queued == OldHours \cap dirty
<1>1. /\ cleanup' = [cleanup EXCEPT !.step = "deleting", !.families = families,
                                    !.queued = queued]
      /\ UNCHANGED <<now, phase, known, packetOf, heardAt, lastHeard, stored, messages, ever,
                     said, status, rolled, revision, dirty, rawDeletedBefore, pass, roll, faults>>
  BY DEF SeeOldRollups, ingestVars, heardVars, rawVars, rollVars
<1>2. cleanup \in Cleanups /\ OldHours \subseteq Hours
  BY DEF IInv, CleanupTypes, OldHours
<1>3. families \subseteq OldHours /\ queued \subseteq OldHours
  OBVIOUS
<1> HIDE DEF families, queued
<1>4. /\ cleanup' \in Cleanups /\ cleanup'.step = "deleting" /\ cleanup'.at = cleanup.at
      /\ cleanup'.held = cleanup.held /\ cleanup'.cutoff = cleanup.cutoff
      /\ cleanup'.families = families /\ cleanup'.queued = queued
  BY <1>1, <1>2, <1>3 DEF Cleanups
<1>5. CleanupTypes'
  BY <1>1, <1>4 DEF IInv, CleanupTypes
<1>6. HeldBack'
  <2>1. OldHours' = OldHours
    BY <1>4 DEF OldHours
  <2>2. \A h \in cleanup'.held : Intact(h)' /\ cleanup'.cutoff + Clamp <= h
    BY <1>1, <1>4 DEF IInv, HeldBack, Intact, OldHours
  <2> QED
    BY <1>1, <1>3, <1>4, <2>1, <2>2 DEF IInv, HeldBack
<1>7. IngestTypes' /\ RollTypes' /\ Fresh' /\ RawRows' /\ Registered'
  BY <1>1 DEF IInv, IngestTypes, RollTypes, Fresh, RawRows, Registered
<1>8. Exact' /\ Snapshot'
  BY <1>1 DEF IInv, Exact, Snapshot, Texts, HeardIn, Intact
<1> QED
  BY <1>5, <1>6, <1>7, <1>8 DEF IInv

LEMMA DeleteOldRollupsInv ==
  ASSUME IInv, DeleteOldRollups
  PROVE  IInv'
<1>1. /\ roll.hour \notin OldHours
      /\ status' = [h \in Hours |-> IF h \in OldHours THEN "none" ELSE status[h]]
      /\ rolled' = [h \in Hours |-> IF h \in cleanup.families THEN Unrolled ELSE rolled[h]]
      /\ dirty' = dirty \ cleanup.queued
      /\ revision' \in {revision, revision + 1}
      /\ cleanup' = NoCleanup
      /\ UNCHANGED <<now, phase, known, packetOf, heardAt, lastHeard, stored, messages, ever,
                     said, rawDeletedBefore, pass, roll, faults>>
  BY DEF DeleteOldRollups, ingestVars, heardVars, rawVars
<1>2. cleanup.families \subseteq OldHours /\ cleanup.queued \subseteq OldHours
  BY DEF IInv, HeldBack
<1>3. IngestTypes' /\ Fresh' /\ RawRows'
  BY <1>1 DEF IInv, IngestTypes, Fresh, RawRows
<1>4. RollTypes'
  <2>1. Unrolled \in Contents
    BY DEF Unrolled, Contents
  <2> QED
    BY <1>1, <2>1 DEF IInv, RollTypes
<1>5. CleanupTypes'
  <2>1. NoCleanup \in Cleanups
    BY RollupAssumption DEF NoCleanup, Cleanups, Times
  <2> QED
    BY <1>1, <2>1 DEF IInv, CleanupTypes
<1>6. HeldBack'
  <2>1. now \in Nat
    BY DEF IInv, IngestTypes, Times
  <2> QED
    BY <1>1, <2>1 DEF HeldBack, NoCleanup
<1>7. Registered'
  BY <1>1 DEF IInv, Registered
<1>8. \A h : /\ HeardIn(h, ever)' = HeardIn(h, ever) /\ Texts(h)' = Texts(h)
             /\ Intact(h)' <=> Intact(h)
  BY <1>1 DEF HeardIn, Texts, Intact
<1>9. Exact'
  <2>1. SUFFICES ASSUME NEW h \in Hours, status'[h] = "complete"
                 PROVE  /\ rolled'[h].heard = HeardIn(h, ever)
                        /\ h \notin dirty' /\ Intact(h) => rolled'[h].texts = Texts(h)
    BY <1>8 DEF Exact
  <2>2. h \notin OldHours /\ status[h] = "complete" /\ rolled'[h] = rolled[h]
    BY <1>1, <1>2, <2>1
  <2>3. h \notin dirty' => h \notin dirty
    BY <1>1, <1>2, <2>2
  <2> QED
    BY <2>2, <2>3 DEF IInv, Exact
<1>10. Snapshot'
  <2>1. SUFFICES ASSUME roll # NoRoll PROVE Snapshot'
    BY <1>1 DEF Snapshot
  <2>2. PICK h \in Hours : h = roll.hour /\ h = roll'.hour
    BY <1>1, <2>1 DEF IInv, RollTypes, Rolls
  <2>3. h \notin OldHours /\ status'[h] = status[h] /\ (h \in dirty' <=> h \in dirty)
    BY <1>1, <1>2, <2>2
  <2>4. /\ roll'.content.heard = HeardIn(h, ever)'
        /\ Intact(h)' /\ ~ roll'.conflict /\ (h \notin dirty' \/ roll'.queued)
             => roll'.content.texts = Texts(h)'
    BY <1>1, <1>8, <2>1, <2>2, <2>3 DEF IInv, Snapshot
  <2>5. pass'.queue # {} /\ h = Min(pass'.queue) /\ status'[h] \in {"missing", "complete"}
    BY <1>1, <2>1, <2>2, <2>3 DEF IInv, Snapshot
  <2> QED
    BY <2>2, <2>4, <2>5 DEF Snapshot, Texts, HeardIn, Intact
<1> QED
  BY <1>3, <1>4, <1>5, <1>6, <1>7, <1>9, <1>10 DEF IInv

LEMMA RestartInv ==
  ASSUME IInv, Restart
  PROVE  IInv'
<1>1. /\ faults < MaxFaults /\ faults' = faults + 1
      /\ phase' = [x \in Hearings |-> IF phase[x] = "new" THEN "new" ELSE "done"]
      /\ known' = [x \in Hearings |-> FALSE]
      /\ pass' = NoPass /\ roll' = NoRoll /\ cleanup' = NoCleanup
      /\ UNCHANGED <<now, packetOf, heardAt, lastHeard, stored, messages, ever, said,
                     status, rolled, revision, dirty, rawDeletedBefore>>
  BY DEF Restart, heardVars, rawVars, rollVars
<1>2. IngestTypes'
  BY <1>1 DEF IInv, IngestTypes
<1>3. RollTypes'
  <2>1. NoPass \in Passes
    BY DEF NoPass, Passes
  <2> QED
    BY <1>1, <2>1 DEF IInv, RollTypes
<1>4. CleanupTypes'
  <2>1. NoCleanup \in Cleanups
    BY RollupAssumption DEF NoCleanup, Cleanups, Times
  <2>2. faults' \in 0..MaxFaults
    BY <1>1, RollupAssumption DEF IInv, CleanupTypes
  <2> QED
    BY <1>1, <2>1, <2>2 DEF IInv, CleanupTypes
<1>5. Fresh'
  <2>1. \A x \in Hearings : phase'[x] \in {"new", "done"}
                            /\ (phase'[x] = "new" => x \notin ever)
    BY <1>1 DEF IInv, Fresh
  <2> QED
    BY <1>1, <2>1 DEF Fresh
<1>6. RawRows' /\ Registered'
  BY <1>1 DEF IInv, RawRows, Registered
<1>7. Exact' /\ Snapshot'
  BY <1>1 DEF IInv, Exact, Snapshot, Texts, HeardIn, Intact
<1>8. HeldBack'
  <2>1. now \in Nat
    BY DEF IInv, IngestTypes, Times
  <2> QED
    BY <1>1, <2>1 DEF HeldBack, NoCleanup
<1> QED
  BY <1>2, <1>3, <1>4, <1>5, <1>6, <1>7, <1>8 DEF IInv

-----------------------------------------------------------------------------
(* Theorems                                                                *)

(* The strengthened invariant is inductive.                                *)
THEOREM SpecInv == Spec => []IInv
<1>1. Init => IInv
  BY InitInv
<1>2. IInv /\ [Next]_vars => IInv'
  <2> SUFFICES ASSUME IInv, [Next]_vars PROVE IInv'
    OBVIOUS
  <2>1. CASE \E x \in Hearings, p \in Packets, t \in 0..MaxTime : Hear(x, p, t)
    BY <2>1, HearInv DEF Times
  <2>2. CASE \E x \in Hearings : InsertObservation(x)
    BY <2>2, InsertObservationInv
  <2>3. CASE \E x \in Hearings : StoreGroupText(x)
    BY <2>3, StoreGroupTextInv
  <2>4. CASE \E x \in Hearings : NotDecrypted(x)
    BY <2>4, NotDecryptedInv
  <2>5. CASE \E p \in Packets : BackfillDecrypts(p)
    BY <2>5, BackfillDecryptsInv
  <2>6. CASE Tick
    BY <2>6, TickInv
  <2>7. CASE Pass
    BY <2>7, RegisterHoursInv, MarkPartialHoursInv, MissingHoursInv, DirtyHoursInv,
       RollBeginInv, RollCommitInv, RollConflictsInv DEF Pass
  <2>8. CASE RollFails
    BY <2>8, RollFailsInv
  <2>9. CASE Cleanup
    BY <2>9, RawCutoffInv, DeleteOldPacketsInv, SeeOldRollupsInv, DeleteOldRollupsInv DEF Cleanup
  <2>10. CASE Restart
    BY <2>10, RestartInv
  <2>11. CASE UNCHANGED vars
    <3>1. UNCHANGED <<now, phase, known, packetOf, heardAt, lastHeard, stored, messages, ever,
                      said, status, rolled, revision, dirty, rawDeletedBefore, pass, roll,
                      cleanup, faults>>
      BY <2>11 DEF vars, ingestVars, heardVars, rawVars, rollVars
    <3>2. IngestTypes' /\ RollTypes' /\ CleanupTypes'
      BY <3>1 DEF IInv, IngestTypes, RollTypes, CleanupTypes
    <3>3. Fresh' /\ RawRows' /\ Registered' /\ HeldBack'
      BY <3>1 DEF IInv, Fresh, RawRows, Registered, HeldBack, Intact, OldHours
    <3>4. Exact' /\ Snapshot'
      BY <3>1 DEF IInv, Exact, Snapshot, Texts, HeardIn, Intact
    <3> QED
      BY <3>2, <3>3, <3>4 DEF IInv
  <2> QED
    BY <2>1, <2>2, <2>3, <2>4, <2>5, <2>6, <2>7, <2>8, <2>9, <2>10, <2>11 DEF Next,
       Ingest
<1> QED
  BY <1>1, <1>2, PTL DEF Spec

(* A complete hour holds every hearing and, unless it is queued or past    *)
(* re-rolling, every message (RollHour, FinishRollupHour and the dirty     *)
(* hours of InsertChannelMessage), and the raw rows agree.                 *)
THEOREM CompleteHours == Spec => []CompleteIsExact
<1>1. IInv => CompleteIsExact
  <2> SUFFICES ASSUME IInv PROVE CompleteIsExact
    OBVIOUS
  <2>1. TypeOK
    <3>1. now \in 0..MaxTime /\ stored \subseteq ever
          /\ phase \in [Hearings -> {"new", "heard", "stored", "done"}]
          /\ known \in [Hearings -> BOOLEAN]
          /\ packetOf \in [Hearings -> Packets \cup {NoPacket}]
      BY DEF IInv, IngestTypes, Times
    <3>2. \A x \in stored : lastHeard[packetOf[x]] # Never
      BY DEF IInv, RawRows
    <3>3. \A p \in messages : lastHeard[p] # Never
      BY DEF IInv, RawRows
    <3>4. {x \in stored : packetOf[x] \in messages} \subseteq said
      BY DEF IInv, RawRows
    <3>5. /\ status \in [Hours -> {"none", "missing", "complete", "partial"}]
          /\ dirty \subseteq Hours /\ revision \in Nat
      BY DEF IInv, RollTypes
    <3>6. roll # NoRoll => roll.hour = Min(pass.queue)
                           /\ status[roll.hour] \in {"missing", "complete"}
      BY DEF IInv, Snapshot
    <3>7. /\ pass.step \in {"idle", "registered", "marked", "rolling"}
          /\ cleanup.step \in {"idle", "packets", "rollups", "deleting"}
          /\ faults \in 0..MaxFaults
      BY DEF IInv, RollTypes, CleanupTypes, Passes, Cleanups
    <3> QED
      BY <3>1, <3>2, <3>3, <3>4, <3>5, <3>6, <3>7 DEF TypeOK
  <2> QED
    BY <2>1 DEF CompleteIsExact, IInv, Exact, Texts
<1> QED
  BY <1>1, SpecInv, PTL

(* The hours that rawCutoff held back for keep their raw rows until they   *)
(* are rolled.                                                             *)
THEOREM HeldHours == Spec => []HeldHoursKeepRaw
<1>1. IInv => HeldHoursKeepRaw
  BY DEF IInv, HeldBack, HeldHoursKeepRaw
<1> QED
  BY <1>1, SpecInv, PTL

(* Registering an hour is nothing readers see.                             *)
LEMMA SameView ==
  (\A h \in Hours :
     /\ rolled'[h] = rolled[h]
     /\ status'[h] = status[h] \/ (status[h] = "none" /\ status'[h] = "missing"))
  => View' = View
<1> SUFFICES ASSUME \A h \in Hours :
                      /\ rolled'[h] = rolled[h]
                      /\ \/ status'[h] = status[h]
                         \/ status[h] = "none" /\ status'[h] = "missing"
             PROVE  View' = View
  OBVIOUS
<1>1. \A h \in Hours :
        [complete |-> status'[h] = "complete", partial |-> status'[h] = "partial",
         content |-> rolled'[h]]
        = [complete |-> status[h] = "complete", partial |-> status[h] = "partial",
           content |-> rolled[h]]
  <2>1. SUFFICES ASSUME NEW h \in Hours
        PROVE  /\ (status'[h] = "complete") = (status[h] = "complete")
               /\ (status'[h] = "partial") = (status[h] = "partial")
               /\ rolled'[h] = rolled[h]
    OBVIOUS
  <2> QED
    OBVIOUS
<1> QED
  BY <1>1 DEF View

(* A step that readers may see.                                            *)
Revised ==
  /\ revision' >= revision
  /\ \A h \in Hours : View'[h] # View[h] =>
       revision' > revision \/ (status[h] = "none" /\ rolled'[h] = Unrolled)

LEMMA MarkPartialRevised ==
  ASSUME IInv, NEW hours, MarkPartial(hours)
  PROVE  Revised
<1>0. SUFFICES revision' >= revision /\ (View' # View => revision' > revision)
  BY DEF Revised, View
<1>1. revision \in Nat /\ rolled' = rolled
  BY DEF IInv, RollTypes, MarkPartial
<1>2. CASE hours = {}
  <2>1. revision' = revision /\ \A h \in Hours : status'[h] = status[h]
    BY <1>2 DEF MarkPartial
  <2>2. View' = View
    BY <1>1, <2>1, SameView
  <2> QED
    BY <1>1, <2>1, <2>2
<1>3. CASE hours # {}
  BY <1>1, <1>3 DEF MarkPartial
<1> QED
  BY <1>2, <1>3

(* What readers see of an hour does not change without the revision that   *)
(* cached statistics are keyed by, except that rows which outlived their   *)
(* hour go, and the revision never goes back (FinishRollupHour,            *)
(* MarkRollupHoursPartial, DeleteOldRollups).                              *)
THEOREM RevisionTracks == Spec => RevisionTracksView
<1>1. IInv /\ [Next]_vars => Revised
  <2> SUFFICES ASSUME IInv, [Next]_vars PROVE Revised
    OBVIOUS
  <2>1. revision \in Nat
    BY DEF IInv, RollTypes
  <2>2. UNCHANGED rollVars => Revised
    <3>1. UNCHANGED rollVars => View' = View
      BY DEF rollVars, View
    <3> QED
      BY <2>1, <3>1 DEF rollVars, Revised
  <2>3. CASE Ingest
    <3>1. UNCHANGED rollVars
      BY <2>3 DEF Ingest, Hear, InsertObservation, StoreGroupText, NotDecrypted,
         BackfillDecrypts
    <3> QED
      BY <2>2, <3>1
  <2>4. CASE Tick \/ MissingHours \/ DirtyHours \/ RollConflicts \/ RollFails
    <3>1. UNCHANGED rollVars
      BY <2>4 DEF Tick, MissingHours, DirtyHours, RollConflicts, RollFails
    <3> QED
      BY <2>2, <3>1
  <2>5. CASE RawCutoff \/ DeleteOldPackets \/ SeeOldRollups \/ Restart
    <3>1. UNCHANGED rollVars
      BY <2>5 DEF RawCutoff, DeleteOldPackets, SeeOldRollups, Restart
    <3> QED
      BY <2>2, <3>1
  <2>6. CASE RegisterHours
    <3>1. /\ revision' = revision
          /\ \A h \in Hours : /\ rolled'[h] = rolled[h]
                              /\ \/ status'[h] = status[h]
                                 \/ status[h] = "none" /\ status'[h] = "missing"
      <4>1. CASE stored = {}
        BY <2>6, <4>1 DEF RegisterHours
      <4>2. CASE stored # {}
        <5> DEFINE first == HourOf(Max({Min({heardAt[x] : x \in stored}), RegisterSince}))
        <5>1. /\ status' = [h \in Hours |->
                              IF status[h] = "none" /\ first <= h /\ h + Delay <= now
                              THEN "missing" ELSE status[h]]
              /\ UNCHANGED <<rolled, revision>>
          BY <2>6, <4>2 DEF RegisterHours
        <5> HIDE DEF first
        <5> QED
          BY <5>1
      <4> QED
        BY <4>1, <4>2
    <3>2. View' = View
      BY <3>1, SameView
    <3> QED
      BY <2>1, <3>1, <3>2 DEF Revised
  <2>7. CASE MarkPartialHours
    BY <2>7, MarkPartialRevised DEF MarkPartialHours
  <2>8. CASE RollBegin
    <3>1. UNCHANGED rollVars \/ \E hours : MarkPartial(hours)
      BY <2>8 DEF RollBegin
    <3> QED
      BY <2>2, <3>1, MarkPartialRevised
  <2>9. CASE RollCommit
    <3>1. PICK h \in Hours : h = roll.hour
      BY <2>9 DEF RollCommit, IInv, RollTypes, Rolls
    <3>2. /\ status' = [status EXCEPT ![h] = "complete"]
          /\ rolled' = [rolled EXCEPT ![h] = roll.content]
          /\ revision' = IF status[h] # "complete" \/ rolled[h] # roll.content
                         THEN revision + 1 ELSE revision
      BY <2>9, <3>1 DEF RollCommit, FinishRollupHour
    <3>3. CASE status[h] # "complete" \/ rolled[h] # roll.content
      BY <2>1, <3>2, <3>3 DEF Revised
    <3>4. CASE ~ (status[h] # "complete" \/ rolled[h] # roll.content)
      <4>1. /\ revision' = revision
            /\ \A k \in Hours : rolled'[k] = rolled[k] /\ status'[k] = status[k]
        BY <3>2, <3>4 DEF IInv, RollTypes
      <4>2. View' = View
        BY <4>1, SameView
      <4> QED
        BY <2>1, <4>1, <4>2 DEF Revised
    <3> QED
      BY <3>3, <3>4
  <2>10. CASE DeleteOldRollups
    <3> DEFINE gone == \E h \in OldHours : status[h] # "none"
    <3>1. /\ status' = [h \in Hours |-> IF h \in OldHours THEN "none" ELSE status[h]]
          /\ rolled' = [h \in Hours |->
                          IF h \in cleanup.families THEN Unrolled ELSE rolled[h]]
          /\ revision' = IF gone THEN revision + 1 ELSE revision
      BY <2>10 DEF DeleteOldRollups
    <3>2. CASE gone
      <4> HIDE DEF gone
      <4> QED
        BY <2>1, <3>1, <3>2 DEF Revised
    <3>3. CASE ~ gone
      <4>1. revision' = revision
        <5> HIDE DEF gone
        <5> QED
          BY <3>1, <3>3
      <4>2. cleanup.families \subseteq OldHours
        BY DEF IInv, HeldBack
      <4>3. \A h \in Hours \ cleanup.families : rolled'[h] = rolled[h] /\ status'[h] = status[h]
        BY <3>1, <3>3
      <4>4. \A h \in Hours \ cleanup.families : View'[h] = View[h]
        BY <4>3 DEF View
      <4>5. \A h \in cleanup.families : status[h] = "none"
        BY <3>3, <4>2
      <4>6. \A h \in Hours : h \in cleanup.families => rolled'[h] = Unrolled
        BY <3>1
      <4> QED
        BY <2>1, <4>1, <4>4, <4>5, <4>6 DEF Revised
    <3> QED
      BY <3>2, <3>3
  <2>11. CASE UNCHANGED vars
    BY <2>2, <2>11 DEF vars
  <2> QED
    BY <2>3, <2>4, <2>5, <2>6, <2>7, <2>8, <2>9, <2>10, <2>11 DEF Next, Pass, Cleanup
<1> QED
  BY <1>1, SpecInv, PTL DEF Spec, RevisionTracksView, Revised
=============================================================================
