------------------------------- MODULE Rollup -------------------------------
(***************************************************************************)
(* The hourly analytics rollups: what ingest and the decrypt backfill      *)
(* store, the pass that registers closed hours and rolls them (db/rollup,  *)
(* internal/background/rollup) and the cleanup that deletes the raw rows   *)
(* the rolls read (internal/background/tasks).                             *)
(*                                                                         *)
(* Every statement is one step, except RollHour: it is a repeatable-read   *)
(* transaction, so it is a step that takes the snapshot (its first         *)
(* statement) and one that commits.  What the families hold of an hour is  *)
(* its hearings and the packets whose message they carry.  A pass has no   *)
(* budgets here: each list is the whole list.                              *)
(***************************************************************************)
EXTENDS Integers, FiniteSets, FiniteSetsExt

CONSTANTS
  HourLen,          (* ticks of an hour; times are in ticks                *)
  Clamp,            (* a hearing's time is this close to the server's      *)
  Delay,            (* rollupDelay: an hour can be rolled this long after  *)
                    (* it began                                            *)
  Margin,           (* rawHoldbackMargin                                   *)
  Cap,              (* rawHoldbackCap                                      *)
  PacketRetention,
  RollupRetention,
  MaxHearings,      (* bounds: hearings, different packets, the last tick, *)
  MaxPackets,
  MaxTime,
  MaxFaults         (* bound: failed rolls and restarts                    *)

(* A hearing is stored, message included, within the tick it is handled    *)
(* in, so the delay leaves an hour's last hearing time to be stored.       *)
ASSUME RollupAssumption ==
  /\ {HourLen, Delay, Margin, PacketRetention, RollupRetention} \subseteq Nat \ {0}
  /\ {Clamp, Cap, MaxHearings, MaxPackets, MaxTime, MaxFaults} \subseteq Nat
  /\ Delay >= HourLen + Clamp
  /\ Margin >= Clamp

Never == -100
(* Hearings and packets are numbered as they are heard first.             *)
Hearings == 1..MaxHearings
Packets == 1..MaxPackets
NoPacket == 0
Hours == {t \in 0..MaxTime : t % HourLen = 0}
HourOf(t) == t - (t % HourLen)

VARIABLES
  now,
  \* Ingest.
  phase,      (* of a hearing                                              *)
  known,      (* packetKnown: its packet was stored before it, until done  *)
  packetOf,
  heardAt,
  \* Raw tables.
  lastHeard,  (* of a stored packet, Never for none                        *)
  stored,     (* hearings that have an observation                         *)
  messages,   (* packets that have a message                               *)
  \* analytics_rollup_hours, the families, analytics_dirty_hours,
  \* raw_deleted_before, revision plus coverage.
  status, rolled, dirty, rawDeletedBefore, revision,
  \* The jobs.
  pass, roll, cleanup,
  \* History and bounds.
  ever,       (* hearings ever stored                                      *)
  said,       (* hearings that ever had their packet's message              *)
  faults

heardVars == <<packetOf, heardAt>>
ingestVars == <<phase, known, heardVars>>
rawVars == <<lastHeard, stored, messages, ever, said>>
rollVars == <<status, rolled, revision>>
vars == <<now, ingestVars, rawVars, rollVars, dirty, rawDeletedBefore, pass, roll, cleanup,
          faults>>

-----------------------------------------------------------------------------
HeardIn(h, S) == {x \in S : HourOf(heardAt[x]) = h}
Content(h, heard, texts) ==
  [heard |-> HeardIn(h, heard), texts |-> {packetOf[x] : x \in HeardIn(h, heard)} \cap texts]
Unrolled == [heard |-> {}, texts |-> {}]
HoursOf(p) == {HourOf(heardAt[x]) : x \in {y \in stored : packetOf[y] = p}}
Intact(h) == h > rawDeletedBefore + Clamp

(* What readers of an hour's statistics see.                               *)
View == [h \in Hours |-> [complete |-> status[h] = "complete", partial |-> status[h] = "partial",
                          content |-> rolled[h]]]

-----------------------------------------------------------------------------
(* Ingest: handlePacket, and the decrypt backfill.                         *)

(* The observer's time where it is plausible; the packet is stored first.  *)
Hear(x, p, t) ==
  /\ phase[x] = "new"
  /\ \A y \in 1..(x - 1) : phase[y] # "new"
  /\ \A q \in 1..(p - 1) : \E y \in Hearings : packetOf[y] = q
  /\ t - now \in -Clamp..Clamp
  /\ phase' = [phase EXCEPT ![x] = "heard"]
  /\ packetOf' = [packetOf EXCEPT ![x] = p]
  /\ heardAt' = [heardAt EXCEPT ![x] = t]
  /\ known' = [known EXCEPT ![x] = lastHeard[p] # Never]
  /\ lastHeard' = [lastHeard EXCEPT ![p] = now]
  /\ UNCHANGED <<now, stored, messages, ever, said, rollVars, dirty, rawDeletedBefore, pass,
                 roll, cleanup, faults>>

InsertObservation(x) ==
  /\ phase[x] = "heard"
  /\ phase' = [phase EXCEPT ![x] = "stored"]
  /\ stored' = stored \cup {x}
  /\ ever' = ever \cup {x}
  /\ said' = IF packetOf[x] \in messages THEN said \cup {x} ELSE said
  /\ UNCHANGED <<now, known, heardVars, lastHeard, messages, rollVars, dirty,
                 rawDeletedBefore, pass, roll, cleanup, faults>>

(* A historical message queues the hours its packet was heard in.  A roll  *)
(* under way that saw the queued row finds it updated when it commits.     *)
InsertChannelMessage(p, historical) ==
  /\ messages' = messages \cup {p}
  /\ said' = said \cup {x \in stored : packetOf[x] = p}
  /\ LET hours == IF historical THEN HoursOf(p) ELSE {}
     IN /\ dirty' = dirty \cup hours
        /\ roll' = [roll EXCEPT !.conflict = @ \/ (roll.queued /\ roll.hour \in hours)]

StoreGroupText(x) ==
  /\ phase[x] = "stored"
  /\ phase' = [phase EXCEPT ![x] = "done"]
  /\ IF packetOf[x] \in messages
     THEN UNCHANGED <<messages, said, dirty, roll>>
     ELSE InsertChannelMessage(packetOf[x], known[x])
  /\ known' = [known EXCEPT ![x] = FALSE]
  /\ UNCHANGED <<now, heardVars, lastHeard, stored, ever, rollVars, rawDeletedBefore, pass,
                 cleanup, faults>>

NotDecrypted(x) ==
  /\ phase[x] = "stored"
  /\ phase' = [phase EXCEPT ![x] = "done"]
  /\ known' = [known EXCEPT ![x] = FALSE]
  /\ UNCHANGED <<now, heardVars, rawVars, rollVars, dirty, rawDeletedBefore, pass, roll,
                 cleanup, faults>>

BackfillDecrypts(p) ==
  /\ lastHeard[p] # Never
  /\ p \notin messages
  /\ InsertChannelMessage(p, TRUE)
  /\ UNCHANGED <<now, ingestVars, lastHeard, stored, ever, rollVars, rawDeletedBefore, pass,
                 cleanup, faults>>

Tick ==
  /\ now < MaxTime
  /\ \A x \in Hearings : phase[x] \in {"new", "done"}
  /\ now' = now + 1
  /\ UNCHANGED <<ingestVars, rawVars, rollVars, dirty, rawDeletedBefore, pass, roll, cleanup,
                 faults>>

-----------------------------------------------------------------------------
(* The pass.  Its lock makes it one at a time.                             *)

NoPass == [step |-> "idle", queue |-> {}, tried |-> {}]
NoRoll == [hour |-> Never, content |-> Unrolled, queued |-> FALSE, conflict |-> FALSE]

AtStep(step) == pass.step = step /\ roll = NoRoll

(* registerSince, and the hours since the earliest observation.            *)
RegisterSince ==
  LET since == Max({now - PacketRetention, now - RollupRetention})
  IN since + ((-since) % HourLen)

RegisterHours ==
  /\ AtStep("idle")
  /\ pass' = [NoPass EXCEPT !.step = "registered"]
  /\ status' = IF stored = {} THEN status
               ELSE LET first == HourOf(Max({Min({heardAt[x] : x \in stored}), RegisterSince}))
                    IN [h \in Hours |->
                          IF status[h] = "none" /\ first <= h /\ h + Delay <= now
                          THEN "missing" ELSE status[h]]
  /\ UNCHANGED <<now, ingestVars, rawVars, rolled, revision, dirty, rawDeletedBefore, roll,
                 cleanup, faults>>

MarkPartial(hours) ==
  /\ status' = [h \in Hours |-> IF h \in hours THEN "partial" ELSE status[h]]
  /\ revision' = IF hours # {} THEN revision + 1 ELSE revision
  /\ UNCHANGED rolled

MarkPartialHours ==
  /\ AtStep("registered")
  /\ pass' = [pass EXCEPT !.step = "marked"]
  /\ MarkPartial({h \in Hours : status[h] = "missing" /\ ~Intact(h)})
  /\ UNCHANGED <<now, ingestVars, rawVars, dirty, rawDeletedBefore, roll, cleanup,
                 faults>>

MissingHours ==
  /\ AtStep("marked")
  /\ pass' = [pass EXCEPT !.step = "rolling",
                          !.queue = {h \in Hours : status[h] = "missing"}]
  /\ UNCHANGED <<now, ingestVars, rawVars, rollVars, dirty, rawDeletedBefore, roll, cleanup,
                 faults>>

(* Deviation: hours that can no longer be re-rolled stay queued.           *)
DirtyHoursKeeps ==
  /\ AtStep("rolling")
  /\ pass.queue = {}
  /\ LET fresh == {h \in dirty : status[h] = "complete" /\ Intact(h)} \ pass.tried
     IN pass' = IF fresh = {} THEN NoPass
                ELSE [pass EXCEPT !.queue = fresh, !.tried = @ \cup fresh]
  /\ UNCHANGED <<now, ingestVars, rawVars, rollVars, dirty, rawDeletedBefore, roll, cleanup,
                 faults>>

(* Drops what can no longer be re-rolled and lists what can, without the   *)
(* hours this pass has tried.                                              *)
DirtyHours ==
  /\ AtStep("rolling")
  /\ pass.queue = {}
  /\ dirty' = {h \in dirty : status[h] # "partial" /\ Intact(h)}
  /\ cleanup' = [cleanup EXCEPT !.queued = @ \cap dirty']
  /\ LET fresh == {h \in dirty' : status[h] = "complete"} \ pass.tried
     IN pass' = IF fresh = {} THEN NoPass
                ELSE [pass EXCEPT !.queue = fresh, !.tried = @ \cup fresh]
  /\ UNCHANGED <<now, ingestVars, rawVars, rollVars, rawDeletedBefore, roll, faults>>

(* LockRollupHour and the snapshot the families are built from.            *)
RollBegin ==
  /\ AtStep("rolling")
  /\ pass.queue # {}
  /\ LET h == Min(pass.queue)
     IN IF status[h] # "none" /\ Intact(h) /\ status[h] # "partial"
        THEN /\ roll' = [hour |-> h, content |-> Content(h, stored, messages),
                         queued |-> h \in dirty, conflict |-> FALSE]
             /\ UNCHANGED <<pass, rollVars>>
        ELSE /\ pass' = [pass EXCEPT !.queue = @ \ {h}]
             /\ MarkPartial({h} \cap {k \in Hours : status[k] = "missing"})
             /\ UNCHANGED roll
  /\ UNCHANGED <<now, ingestVars, rawVars, dirty, rawDeletedBefore, cleanup, faults>>

EndRoll ==
  /\ roll' = NoRoll
  /\ pass' = [pass EXCEPT !.queue = @ \ {roll.hour}]

(* Deviation: the queued row goes whatever the snapshot had.               *)
FinishRollupHourClears ==
  LET h == roll.hour
  IN /\ status' = [status EXCEPT ![h] = "complete"]
     /\ rolled' = [rolled EXCEPT ![h] = roll.content]
     /\ revision' = IF status[h] # "complete" \/ rolled[h] # roll.content
                    THEN revision + 1 ELSE revision
     /\ dirty' = dirty \ {h}

(* Deviation: the revision moves only when an hour is first rolled.        *)
FinishRollupHourOnce ==
  LET h == roll.hour
  IN /\ status' = [status EXCEPT ![h] = "complete"]
     /\ rolled' = [rolled EXCEPT ![h] = roll.content]
     /\ revision' = IF status[h] # "complete" THEN revision + 1 ELSE revision
     /\ dirty' = IF roll.queued THEN dirty \ {h} ELSE dirty

(* FinishRollupHour and the commit.  The queued row goes only if the       *)
(* snapshot had it.                                                        *)
FinishRollupHour ==
  LET h == roll.hour
  IN /\ status' = [status EXCEPT ![h] = "complete"]
     /\ rolled' = [rolled EXCEPT ![h] = roll.content]
     /\ revision' = IF status[h] # "complete" \/ rolled[h] # roll.content
                    THEN revision + 1 ELSE revision
     /\ dirty' = IF roll.queued THEN dirty \ {h} ELSE dirty

(* A cleanup whose statement waits for the hour does not see the new rows. *)
RollCommit ==
  /\ roll # NoRoll
  /\ ~roll.conflict
  /\ FinishRollupHour
  /\ EndRoll
  /\ cleanup' = [cleanup EXCEPT !.families = @ \ {roll.hour}, !.queued = @ \cap dirty']
  /\ UNCHANGED <<now, ingestVars, rawVars, rawDeletedBefore, faults>>

(* Serialization failure: RollSkipped.                                     *)
RollConflicts ==
  /\ roll # NoRoll
  /\ roll.conflict
  /\ EndRoll
  /\ UNCHANGED <<now, ingestVars, rawVars, rollVars, dirty, rawDeletedBefore, cleanup,
                 faults>>

RollFails ==
  /\ roll # NoRoll
  /\ faults < MaxFaults
  /\ faults' = faults + 1
  /\ EndRoll
  /\ UNCHANGED <<now, ingestVars, rawVars, rollVars, dirty, rawDeletedBefore, cleanup>>

-----------------------------------------------------------------------------
(* The cleanup task.                                                       *)

NoCleanup ==
  [step |-> "idle", at |-> 0, cutoff |-> 0, held |-> {}, families |-> {}, queued |-> {}]

(* Deviation: the cutoff is not held back.                                 *)
RawCutoffUnheld ==
  /\ cleanup = NoCleanup
  /\ LET missing == {h \in Hours : status[h] = "missing"}
         behind == IF missing = {} THEN now - PacketRetention ELSE Min(missing) - Margin
     IN cleanup' = [NoCleanup EXCEPT
                    !.step = "packets", !.at = now, !.cutoff = now - PacketRetention,
                    !.held = IF behind < now - PacketRetention - Cap THEN {}
                             ELSE {h \in missing : Intact(h)}]
  /\ UNCHANGED <<now, ingestVars, rawVars, rollVars, dirty, rawDeletedBefore, pass, roll,
                 faults>>

(* rawCutoff: behind the oldest missing hour, at most Cap longer than      *)
(* retention.  What it holds back for is history.                          *)
RawCutoff ==
  /\ cleanup = NoCleanup
  /\ LET retention == now - PacketRetention
         missing == {h \in Hours : status[h] = "missing"}
         behind == IF missing = {} THEN retention ELSE Min(missing) - Margin
         cutoff == Max({Min({behind, retention}), retention - Cap})
     IN cleanup' = [NoCleanup EXCEPT
                    !.step = "packets", !.at = now, !.cutoff = cutoff,
                    !.held = IF behind < cutoff THEN {} ELSE {h \in missing : Intact(h)}]
  /\ UNCHANGED <<now, ingestVars, rawVars, rollVars, dirty, rawDeletedBefore, pass, roll,
                 faults>>

(* A batch; a packet heard again is no longer old.                         *)
DeleteOldPackets ==
  /\ cleanup.step = "packets"
  /\ LET victims == {p \in Packets : lastHeard[p] # Never /\ lastHeard[p] < cleanup.cutoff}
         oldest == Min({lastHeard[p] : p \in victims})
         batch == {p \in victims : lastHeard[p] = oldest}
     IN IF victims = {}
        THEN /\ cleanup' = [cleanup EXCEPT !.step = "rollups"]
             /\ UNCHANGED <<rawVars, rawDeletedBefore>>
        ELSE /\ lastHeard' = [p \in Packets |-> IF p \in batch THEN Never ELSE lastHeard[p]]
             /\ stored' = {x \in stored : packetOf[x] \notin batch}
             /\ messages' = messages \ batch
             /\ rawDeletedBefore' = Max({rawDeletedBefore, oldest})
             /\ UNCHANGED <<cleanup, ever, said>>
  /\ UNCHANGED <<now, ingestVars, rollVars, dirty, pass, roll, faults>>

(* The rows of hours past retention that the statement sees when it begins: *)
(* it deletes no others.                                                   *)
OldHours == {h \in Hours : h < cleanup.at - RollupRetention}
SeeOldRollups ==
  /\ cleanup.step = "rollups"
  /\ cleanup' = [cleanup EXCEPT !.step = "deleting",
                                !.families = {h \in OldHours : rolled[h] # Unrolled},
                                !.queued = OldHours \cap dirty]
  /\ UNCHANGED <<now, ingestVars, rawVars, rollVars, dirty, rawDeletedBefore, pass, roll,
                 faults>>

(* The hours go first, and one that a roll has locked is waited for: it    *)
(* goes too, but what the roll wrote of it stays for the next cleanup.     *)
DeleteOldRollups ==
  /\ cleanup.step = "deleting"
  /\ roll.hour \notin OldHours
  /\ status' = [h \in Hours |-> IF h \in OldHours THEN "none" ELSE status[h]]
  /\ rolled' = [h \in Hours |-> IF h \in cleanup.families THEN Unrolled ELSE rolled[h]]
  /\ dirty' = dirty \ cleanup.queued
  /\ revision' = IF \E h \in OldHours : status[h] # "none" THEN revision + 1 ELSE revision
  /\ cleanup' = NoCleanup
  /\ UNCHANGED <<now, ingestVars, rawVars, rawDeletedBefore, pass, roll, faults>>

(* The process ends and another starts; a transaction under way is rolled   *)
(* back, the next pass catches up.                                         *)
Restart ==
  /\ faults < MaxFaults
  /\ faults' = faults + 1
  /\ phase' = [x \in Hearings |-> IF phase[x] = "new" THEN "new" ELSE "done"]
  /\ known' = [x \in Hearings |-> FALSE]
  /\ pass' = NoPass
  /\ roll' = NoRoll
  /\ cleanup' = NoCleanup
  /\ UNCHANGED <<now, heardVars, rawVars, rollVars, dirty, rawDeletedBefore>>

-----------------------------------------------------------------------------
Init ==
  /\ now = 0
  /\ phase = [x \in Hearings |-> "new"]
  /\ known = [x \in Hearings |-> FALSE]
  /\ packetOf = [x \in Hearings |-> NoPacket]
  /\ heardAt = [x \in Hearings |-> Never]
  /\ lastHeard = [p \in Packets |-> Never]
  /\ stored = {} /\ messages = {} /\ ever = {} /\ said = {}
  /\ status = [h \in Hours |-> "none"]
  /\ rolled = [h \in Hours |-> Unrolled]
  /\ dirty = {}
  /\ rawDeletedBefore = Never
  /\ revision = 0
  /\ pass = NoPass /\ roll = NoRoll /\ cleanup = NoCleanup
  /\ faults = 0

Ingest ==
  \/ \E x \in Hearings, p \in Packets, t \in 0..MaxTime : Hear(x, p, t)
  \/ \E x \in Hearings : InsertObservation(x) \/ StoreGroupText(x) \/ NotDecrypted(x)
  \/ \E p \in Packets : BackfillDecrypts(p)
Pass ==
  \/ RegisterHours \/ MarkPartialHours \/ MissingHours \/ DirtyHours
  \/ RollBegin \/ RollCommit \/ RollConflicts
Cleanup == RawCutoff \/ DeleteOldPackets \/ SeeOldRollups \/ DeleteOldRollups

Next == Ingest \/ Tick \/ Pass \/ RollFails \/ Cleanup \/ Restart

Spec == Init /\ [][Next]_vars

(* Time passes, and the passes are run every five minutes.                 *)
LiveSpec == Spec /\ WF_vars(Pass)

-----------------------------------------------------------------------------
(* The types, and what each implies.                                       *)
TypeOK ==
  /\ now \in 0..MaxTime
  /\ phase \in [Hearings -> {"new", "heard", "stored", "done"}]
  /\ known \in [Hearings -> BOOLEAN]
  /\ packetOf \in [Hearings -> Packets \cup {NoPacket}]
  /\ stored \subseteq ever
  /\ \A x \in stored : lastHeard[packetOf[x]] # Never
  /\ \A p \in messages : lastHeard[p] # Never
  /\ {x \in stored : packetOf[x] \in messages} \subseteq said
  /\ status \in [Hours -> {"none", "missing", "complete", "partial"}]
  /\ dirty \subseteq Hours
  /\ roll # NoRoll => roll.hour = Min(pass.queue) /\ status[roll.hour] \in {"missing", "complete"}
  /\ pass.step \in {"idle", "registered", "marked", "rolling"}
  /\ cleanup.step \in {"idle", "packets", "rollups", "deleting"}
  /\ revision \in Nat
  /\ faults \in 0..MaxFaults

(* A complete hour holds every hearing ever stored in it, and unless it is *)
(* queued or past re-rolling every message those packets ever had: no      *)
(* hearing lands in a rolled hour, no hour that lost raw rows is rolled,   *)
(* and no message misses both the roll's snapshot and the queue            *)
(* (RollHour, FinishRollupHour, InsertChannelMessage's dirty hours).  The  *)
(* raw rows agree with each other (TypeOK).                                *)
CompleteIsExact ==
  /\ TypeOK
  /\ \A h \in Hours : status[h] = "complete" =>
       /\ rolled[h].heard = HeardIn(h, ever)
       /\ h \notin dirty /\ Intact(h)
            => rolled[h].texts = {packetOf[x] : x \in HeardIn(h, said)}

(* A missing hour that the cleanup's cutoff was held back for keeps its    *)
(* raw rows until it is rolled, whatever is registered, heard again or     *)
(* rolled while the batches run (rawCutoff, DeleteOldPackets).             *)
HeldHoursKeepRaw ==
  \A h \in cleanup.held : status[h] = "missing" => Intact(h)

(* What readers see of an hour never changes without the revision, and the *)
(* revision only grows: a roll that changed an hour's content, an hour     *)
(* marked in either place, retention; cached statistics are keyed by it    *)
(* (AnalyticsRevision, cachedRollup).  What goes unnoticed, although       *)
(* AnalyticsRevision has no exception, is the end of rows that outlived    *)
(* their hour, those of a roll that retention waited for.                  *)
RevisionTracksView ==
  [][/\ revision' >= revision
     /\ \A h \in Hours : View'[h] # View[h] =>
          revision' > revision \/ (status[h] = "none" /\ rolled'[h] = Unrolled)]_vars

(* Every registered hour is rolled or given up, and every queued hour      *)
(* whose roll is done is rolled again or dropped.                          *)
RollsSettle ==
  <>[](\A h \in Hours : status[h] # "missing" /\ (h \in dirty => status[h] = "none"))
=============================================================================
