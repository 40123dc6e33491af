----------------------------- MODULE ReadModel -----------------------------
(***************************************************************************)
(* The read model of message sites, channel_message_iatas: the writers     *)
(* that keep it (db/channels.go, internal/ingest), the jobs that repair it *)
(* (db/cmi.go, internal/background/readmodel_cmi.go) and the trust that    *)
(* decides whether pages are served from it (db/readmodel.go).             *)
(*                                                                         *)
(* A hearing stands for its site.  The table should have the pair of a     *)
(* hearing and its packet's message once both are stored.  The statement   *)
(* that stores a message adds the hearings its snapshot sees, and every    *)
(* hearing adds itself, once before and once after it tried to store the   *)
(* message.  Where that fails the writer reports it (Invalidate), and a    *)
(* reconcile fills in what ids above the watermarks of the run before last *)
(* are missing.                                                            *)
(*                                                                         *)
(* A statement that takes an id from a sequence and commits later is two   *)
(* steps: other statements' snapshots may come between.  Any other         *)
(* statement is one.                                                       *)
(***************************************************************************)
EXTENDS Integers, FiniteSets, FiniteSetsExt

CONSTANTS
  Hearings,        (* hearings of group-text packets, each of its own site *)
  Decrypters,      (* visits of the decrypt backfill to a packet           *)
  Packets,
  packetOf,        (* the packet of a hearing or visit                     *)
  Legacy,          (* hearings stored with their message before the table  *)
                   (* existed                                              *)
  Batch,           (* message ids one batch of the backfill covers         *)
  DropAfterDirty,  (* CmiTrustPolicy                                       *)
  RestoreAfterClean,
  VerifyMessages,  (* newest message ids the exact check covers            *)
  MaxFaults        (* bound: failed statements and crashes                 *)

Writers == Hearings \cup Decrypters

ASSUME ReadModelAssumption ==
  /\ IsFiniteSet(Writers) /\ IsFiniteSet(Packets)
  /\ Hearings \cap Decrypters = {}
  /\ packetOf \in [Writers -> Packets]
  /\ Legacy \subseteq Hearings
  /\ {Batch, VerifyMessages, DropAfterDirty, RestoreAfterClean} \subseteq Nat \ {0}
  /\ MaxFaults \in Nat

VARIABLES
  \* The database.
  observed,   (* hearings whose observation is committed                   *)
  obsId,      (* ids drawn for observations, 0 for none                    *)
  message,    (* per packet: the id of its message, 0 for none             *)
  sites,      (* the table: hearings whose pair it has                     *)
  state,      (* background_state['cmi']                                   *)
  \* The writers.
  phase,      (* where a writer is                                         *)
  draft,      (* the message id its insert in flight has drawn             *)
  seen,       (* the hearings that insert's snapshot sees                  *)
  recorded,   (* hearings whose first Add found the message: siteRecorded  *)
  orphans,    (* writers of a process that is gone, statement in flight    *)
  keyed,      (* whether the channel's key is known                        *)
  \* Trust.
  earned, dropped, dirty, clean,
  behind,     (* gen > repairedGen                                         *)
  moved,      (* gen is not what the session under way read                *)
  \* The jobs.
  job,        (* the session under way, or the last                        *)
  booted,
  \* History and bounds.
  reported,   (* pairs missing when their packet's writer reported them,   *)
              (* or when boot or a rebuild began to repair                 *)
  aged,       (* writers whose statement was in flight when the newest ids *)
              (* of its kind were read last                                *)
  overtaken,  (* those of a packet one of whose statements was in flight   *)
              (* at two such reads, or inserted a message before the first *)
              (* that first use found                                      *)
  hurt,       (* packets one of whose statements failed                    *)
  faults

dataVars == <<observed, obsId, message, sites>>
writerVars == <<phase, draft, seen, recorded, orphans, keyed>>
policyVars == <<earned, dropped, dirty, clean>>
trustVars == <<policyVars, behind, moved>>
jobVars == <<state, job, booted>>
history == <<reported, aged, overtaken, hurt, faults>>
vars == <<dataVars, state, writerVars, trustVars, job, booted, history>>

-----------------------------------------------------------------------------
(* What the table should have, and ids.                                    *)

HearingsOf(p) == {h \in observed : packetOf[h] = p}
Stored(h) == h \in observed /\ message[packetOf[h]] # 0
Missing == {h \in Hearings \ sites : Stored(h)}
UnderWay(w) == phase[w] \notin {"new", "done"}
Observing == {h \in Hearings : phase[h] = "observing"}
Creating == {w \in Writers : phase[w] \in {"inserting", "falling"}}
Newest(S) == Max(S \cup {0})
MaxObservationID == Newest({obsId[h] : h \in observed})
MaxChannelMessageID == Newest({message[p] : p \in Packets})
NextChannelMessageID(after) ==
  LET above == {message[p] : p \in Packets} \ 0..after
  IN IF above = {} THEN 0 ELSE Min(above)
NextObservation == Newest({obsId[h] : h \in Hearings}) + 1
NextMessage == Newest({message[p] : p \in Packets} \cup {draft[w] : w \in Writers}) + 1

Trusted == earned /\ ~dropped /\ ~behind

(* Invalidate, by a writer of packet p.                                    *)
Invalidate(p) ==
  /\ behind' = TRUE
  /\ moved' = TRUE
  /\ reported' = reported \cup {h \in Missing : packetOf[h] = p}

Fault(ps) ==
  /\ faults < MaxFaults
  /\ faults' = faults + 1
  /\ hurt' = hurt \cup ps

-----------------------------------------------------------------------------
(* A hearing: handlePacket, then StoreGroupText.                           *)

Moves(w, to) == phase' = [phase EXCEPT ![w] = to]

(* A statement ends.  Nothing follows it where its process is gone.        *)
Ends(w, to) ==
  /\ Moves(w, IF w \in orphans THEN "done" ELSE to)
  /\ orphans' = orphans \ {w}
  /\ draft' = [draft EXCEPT ![w] = 0]
  /\ seen' = [seen EXCEPT ![w] = {}]
  /\ aged' = aged \ {w}

Observe(h) ==
  /\ phase[h] = "new"
  /\ Moves(h, "observing")
  /\ obsId' = [obsId EXCEPT ![h] = NextObservation]
  /\ UNCHANGED <<observed, message, sites, draft, seen, recorded, orphans, keyed,
                 trustVars, jobVars, history>>

ObserveCommit(h) ==
  /\ phase[h] = "observing"
  /\ Ends(h, "observed")
  /\ observed' = observed \cup {h}
  /\ UNCHANGED <<obsId, message, sites, recorded, keyed, trustVars, jobVars, reported,
                 overtaken, hurt, faults>>

(* Its own site, for a message that is stored already.                     *)
AddFirst(h) ==
  /\ phase[h] = "observed"
  /\ Moves(h, "adding")
  /\ IF Stored(h)
     THEN /\ sites' = sites \cup {h}
          /\ recorded' = recorded \cup {h}
     ELSE UNCHANGED <<sites, recorded>>
  /\ UNCHANGED <<observed, obsId, message, draft, seen, orphans, keyed, trustVars,
                 jobVars, history>>

AddFirstFails(h) ==
  /\ phase[h] = "observed"
  /\ Moves(h, "adding")
  /\ Invalidate(packetOf[h])
  /\ Fault({packetOf[h]})
  /\ UNCHANGED <<dataVars, draft, seen, recorded, orphans, keyed, policyVars,
                 jobVars, aged, overtaken>>

(* Deviation: a hearing adds its site only before the attempt.             *)
AfterAttemptOnce(w) == "done"

(* Where a writer goes that did not create the message.                    *)
AfterAttempt(w) == IF w \in Hearings \ recorded THEN "adding again" ELSE "done"

NoKey(h) ==
  /\ phase[h] = "adding"
  /\ ~keyed
  /\ Moves(h, AfterAttempt(h))
  /\ UNCHANGED <<dataVars, draft, seen, recorded, orphans, keyed, trustVars, jobVars,
                 history>>

(* A statement before the insert fails; nothing is reported.               *)
UpsertChannelFails(w) ==
  /\ keyed
  /\ \/ phase[w] = "adding"
     \/ w \in Decrypters /\ phase[w] = "new"
  /\ Moves(w, AfterAttempt(w))
  /\ Fault({packetOf[w]})
  /\ UNCHANGED <<dataVars, draft, seen, recorded, orphans, keyed, trustVars, jobVars,
                 reported, aged, overtaken>>

(* The backfill lists packets, whose rows are stored before their first    *)
(* hearing: a visit needs none.                                            *)
InsertBegin(w) ==
  /\ keyed
  /\ \/ phase[w] = "adding"
     \/ w \in Decrypters /\ phase[w] = "new"
  /\ Moves(w, "inserting")
  /\ draft' = [draft EXCEPT ![w] = NextMessage]
  /\ seen' = [seen EXCEPT ![w] = HearingsOf(packetOf[w])]
  /\ UNCHANGED <<dataVars, recorded, orphans, keyed, trustVars, jobVars, history>>

(* packet_hash is unique: the first insert to commit stores the message,   *)
(* with the sites its snapshot saw.                                        *)
InsertCommit(w) ==
  /\ phase[w] = "inserting"
  /\ IF message[packetOf[w]] = 0
     THEN /\ message' = [message EXCEPT ![packetOf[w]] = draft[w]]
          /\ sites' = sites \cup seen[w]
          /\ Ends(w, "done")
     ELSE /\ Ends(w, AfterAttempt(w))
          /\ UNCHANGED <<message, sites>>
  /\ UNCHANGED <<observed, obsId, recorded, keyed, trustVars, jobVars, reported,
                 overtaken, hurt, faults>>

(* A visit may also fail because its time is up, and goes no further.      *)
InsertFails(w) ==
  /\ phase[w] = "inserting"
  /\ w \notin orphans
  /\ Ends(w, "refused") \/ (w \in Decrypters /\ Ends(w, "done"))
  /\ Invalidate(packetOf[w])
  /\ Fault({packetOf[w]})
  /\ UNCHANGED <<dataVars, recorded, keyed, policyVars, jobVars, overtaken>>

(* The same insert without the sites.                                      *)
FallbackBegin(w) ==
  /\ phase[w] = "refused"
  /\ Moves(w, "falling")
  /\ draft' = [draft EXCEPT ![w] = NextMessage]
  /\ UNCHANGED <<dataVars, seen, recorded, orphans, keyed, trustVars, jobVars, history>>

FallbackCommit(w) ==
  /\ phase[w] = "falling"
  /\ IF message[packetOf[w]] = 0
     THEN /\ message' = [message EXCEPT ![packetOf[w]] = draft[w]]
          /\ Ends(w, "unseeded")
     ELSE /\ Ends(w, "not stored")
          /\ UNCHANGED message
  /\ UNCHANGED <<observed, obsId, sites, recorded, keyed, trustVars, jobVars, reported,
                 overtaken, hurt, faults>>

FallbackFails(w) ==
  /\ phase[w] = "falling"
  /\ w \notin orphans
  /\ Ends(w, "not stored")
  /\ Fault({packetOf[w]})
  /\ UNCHANGED <<dataVars, recorded, keyed, trustVars, jobVars, reported, overtaken>>

(* The second report, once the fallback has returned.                      *)
ReportFallback(w) ==
  /\ phase[w] \in {"unseeded", "not stored"}
  /\ Moves(w, IF phase[w] = "unseeded" THEN "done" ELSE AfterAttempt(w))
  /\ Invalidate(packetOf[w])
  /\ UNCHANGED <<dataVars, draft, seen, recorded, orphans, keyed, policyVars,
                 jobVars, aged, overtaken, hurt, faults>>

(* Deviation: the site is added without looking for the message.           *)
AddAgainUnchecked(h) ==
  /\ phase[h] = "adding again"
  /\ Moves(h, "done")
  /\ sites' = sites \cup {h}
  /\ UNCHANGED <<observed, obsId, message, draft, seen, recorded, orphans, keyed,
                 trustVars, jobVars, history>>

AddAgain(h) ==
  /\ phase[h] = "adding again"
  /\ Moves(h, "done")
  /\ sites' = IF Stored(h) THEN sites \cup {h} ELSE sites
  /\ UNCHANGED <<observed, obsId, message, draft, seen, recorded, orphans, keyed,
                 trustVars, jobVars, history>>

AddAgainFails(h) ==
  /\ phase[h] = "adding again"
  /\ Moves(h, "done")
  /\ Invalidate(packetOf[h])
  /\ Fault({packetOf[h]})
  /\ UNCHANGED <<dataVars, draft, seen, recorded, orphans, keyed, policyVars,
                 jobVars, aged, overtaken>>

ImportKey ==
  /\ ~keyed
  /\ keyed' = TRUE
  /\ UNCHANGED <<dataVars, phase, draft, seen, recorded, orphans, trustVars, jobVars,
                 history>>

Hearing(h) ==
  \/ Observe(h) \/ ObserveCommit(h) \/ AddFirst(h) \/ AddFirstFails(h) \/ NoKey(h)
  \/ AddAgain(h) \/ AddAgainFails(h)
Attempt(w) ==
  \/ UpsertChannelFails(w) \/ InsertBegin(w) \/ InsertCommit(w) \/ InsertFails(w)
  \/ FallbackBegin(w) \/ FallbackCommit(w) \/ FallbackFails(w) \/ ReportFallback(w)

-----------------------------------------------------------------------------
(* The jobs: Boot and the periodic Task.  A session holds an advisory      *)
(* lock, so there is one at a time, and its copy of the state is what it   *)
(* loaded or saved last.                                                   *)

Fresh == [found |-> FALSE, maxID |-> 0, filledTo |-> 0, complete |-> FALSE, obsPrev |-> 0,
          obsHi |-> 0, msgPrev |-> 0, msgHi |-> 0, verified |-> FALSE]
NoJob == [mode |-> "none", step |-> "closed", obsHi |-> 0, msgHi |-> 0,
          repairs |-> FALSE, verifying |-> FALSE]

InJob(step) == job.step = step
Proceed(step) == job' = [job EXCEPT !.step = step]
Close == job' = NoJob

Begin(mode) ==
  /\ job = NoJob
  /\ job' = [NoJob EXCEPT !.mode = mode, !.step = "init"]
  /\ moved' = FALSE

(* Boot waits for the transactions of earlier processes.                   *)
BootBegin ==
  /\ ~booted
  /\ orphans = {}
  /\ Begin("boot")
  /\ reported' = reported \cup Missing
  /\ UNCHANGED <<dataVars, state, writerVars, policyVars, behind, booted, aged, overtaken,
                 hurt, faults>>

TaskBegin ==
  /\ booted
  /\ Begin("task")
  /\ UNCHANGED <<dataVars, state, writerVars, policyVars, behind, booted, history>>

(* A task that finds the table incomplete or unverified drops trust in all *)
(* of it, and repairs from here on.                                        *)
DropUnverified(st) ==
  IF job.mode = "task" /\ ~(st.complete /\ st.verified)
  THEN behind' = TRUE /\ moved' = FALSE /\ reported' = reported \cup Missing
  ELSE UNCHANGED <<behind, moved, reported>>

Load ==
  /\ InJob("init")
  /\ state.found
  /\ Proceed("begun")
  /\ DropUnverified(state)
  /\ UNCHANGED <<dataVars, state, writerVars, policyVars, booted, aged, overtaken, hurt, faults>>

(* What a read of the newest ids overtakes: a statement in flight now and  *)
(* at the read before, and with it its packet.                             *)
ReadPast(kind, passed) ==
  LET now == IF kind = "messages" THEN Creating ELSE Observing
      others == IF kind = "messages" THEN Observing ELSE Creating
      late == {packetOf[w] : w \in (aged \cap now) \cup passed}
  IN /\ overtaken' = overtaken \cup {w \in Writers : packetOf[w] \in late}
     /\ aged' = (aged \cap others) \cup now
     /\ UNCHANGED <<hurt, faults>>
Read(kind) == ReadPast(kind, {})

FirstUseMessages ==
  /\ InJob("init")
  /\ ~state.found
  /\ Read("messages")
  /\ job' = [job EXCEPT !.step = "first use", !.msgHi = MaxChannelMessageID]
  /\ UNCHANGED <<dataVars, state, writerVars, trustVars, booted, reported>>

(* The backfill is to begin with the first message there is: one that is   *)
(* still being inserted before it is passed over.                          *)
FirstUse ==
  /\ InJob("first use")
  /\ ReadPast("observations",
              {w \in Creating : draft[w] <= Min({job.msgHi, NextChannelMessageID(0) - 1})})
  /\ state' = [found |-> TRUE, verified |-> FALSE, complete |-> job.msgHi = 0,
               maxID |-> job.msgHi, filledTo |-> Max({NextChannelMessageID(0) - 1, 0}),
               obsPrev |-> MaxObservationID, obsHi |-> MaxObservationID,
               msgPrev |-> job.msgHi, msgHi |-> job.msgHi]
  /\ Proceed("begun")
  /\ DropUnverified(state')
  /\ UNCHANGED <<dataVars, writerVars, policyVars, booted>>

ReadObservations ==
  /\ InJob("begun")
  /\ Read("observations")
  /\ job' = [job EXCEPT !.step = "reading", !.obsHi = MaxObservationID, !.repairs = FALSE]
  /\ UNCHANGED <<dataVars, state, writerVars, trustVars, booted, reported>>

ReadMessages ==
  /\ InJob("reading")
  /\ Read("messages")
  /\ job' = [job EXCEPT !.step = "filling observations", !.msgHi = MaxChannelMessageID]
  /\ UNCHANGED <<dataVars, state, writerVars, trustVars, booted, reported>>

(* The slices of a range are one statement here.                           *)
Fill(pairs, step) ==
  /\ sites' = sites \cup pairs
  /\ job' = [job EXCEPT !.step = step, !.repairs = @ \/ pairs # {}]
  /\ UNCHANGED <<observed, obsId, message, writerVars, trustVars, booted, history>>

(* Deviation: what is missing is looked for among the new messages only.   *)
FillByObservationsSkipped ==
  /\ InJob("filling observations")
  /\ Fill({}, "filling messages")
  /\ UNCHANGED state

FillByObservations ==
  /\ InJob("filling observations")
  /\ Fill({h \in Missing : state.obsPrev < obsId[h] /\ obsId[h] <= job.obsHi},
          "filling messages")
  /\ UNCHANGED state

MissingBetween(after, through) ==
  {h \in Missing : after < message[packetOf[h]] /\ message[packetOf[h]] <= through}

FillByMessages ==
  /\ InJob("filling messages")
  /\ Fill(MissingBetween(state.msgPrev, job.msgHi), "saving")
  /\ UNCHANGED state

ObserveRun ==
  IF ~earned THEN UNCHANGED policyVars
  ELSE /\ UNCHANGED earned
       /\ IF job.repairs
          THEN /\ dirty' = Min({dirty + 1, DropAfterDirty})
               /\ clean' = 0
               /\ dropped' = (dropped \/ dirty' >= DropAfterDirty)
          ELSE /\ dirty' = 0
               /\ clean' = Min({clean + 1, RestoreAfterClean})
               /\ dropped' = (dropped /\ clean' < RestoreAfterClean)

Save ==
  /\ InJob("saving")
  /\ state' = [state EXCEPT !.obsPrev = state.obsHi, !.obsHi = Max({job.obsHi, state.obsHi}),
                            !.msgPrev = state.msgHi, !.msgHi = Max({job.msgHi, state.msgHi})]
  /\ Proceed(IF job.verifying THEN "checking"
             ELSE IF state.complete THEN "repaired" ELSE "backfilling")
  /\ IF job.mode = "task" /\ ~job.verifying THEN ObserveRun ELSE UNCHANGED policyVars
  /\ UNCHANGED <<dataVars, writerVars, behind, moved, booted, history>>

(* Deviation: that the backfill is complete is not saved.                  *)
BackfillForgets ==
  /\ InJob("backfilling")
  /\ LET next == NextChannelMessageID(state.filledTo)
         hi == Min({next - 1 + Batch, state.maxID})
     IN IF next = 0 \/ next > state.maxID
        THEN /\ IF job.mode = "boot" THEN Proceed("repaired") ELSE Close
             /\ UNCHANGED <<dataVars, state, writerVars, trustVars, booted, history>>
        ELSE /\ state' = [state EXCEPT !.filledTo = hi]
             /\ \/ Fill(MissingBetween(next - 1, hi), "backfilling")
                \/ job.mode = "task" /\ Fill(MissingBetween(next - 1, hi), "stopping")

(* The task's backfill stops when its budget is spent, and the run ends    *)
(* without restoring trust, even where it completed.                       *)
Backfill ==
  /\ InJob("backfilling")
  /\ LET next == NextChannelMessageID(state.filledTo)
         hi == Min({next - 1 + Batch, state.maxID})
     IN IF next = 0 \/ next > state.maxID
        THEN /\ state' = [state EXCEPT !.complete = TRUE]
             /\ IF job.mode = "boot" THEN Proceed("repaired") ELSE Close
             /\ UNCHANGED <<dataVars, writerVars, trustVars, booted, history>>
        ELSE /\ state' = [state EXCEPT !.filledTo = hi]
             /\ \/ Fill(MissingBetween(next - 1, hi), "backfilling")
                \/ job.mode = "task" /\ Fill(MissingBetween(next - 1, hi), "stopping")

Stop ==
  /\ InJob("stopping")
  /\ Close
  /\ UNCHANGED <<dataVars, state, writerVars, trustVars, booted, history>>

(* Earn, where this session has, and Repaired(gen).                        *)
Trust(earns) ==
  /\ earned' = (earned \/ earns)
  /\ behind' = (behind /\ moved)
  /\ Close

Repaired ==
  /\ InJob("repaired")
  /\ booted' = TRUE
  /\ IF state.verified
     THEN Trust(job.mode = "boot")
     ELSE /\ job' = [job EXCEPT !.step = "begun", !.verifying = TRUE]
          /\ UNCHANGED <<earned, behind>>
  /\ UNCHANGED <<dataVars, state, writerVars, dropped, dirty, clean, moved, history>>

(* Verify's snapshot: the exact check over the newest messages, and pages  *)
(* compared, of which any may lack a missing pair.                         *)
Unchecked ==
  {h \in MissingBetween(state.msgHi - VerifyMessages, state.msgHi) : obsId[h] <= state.obsHi}

CheckPasses ==
  /\ InJob("checking")
  /\ Unchecked = {}
  /\ state' = [state EXCEPT !.verified = TRUE]
  /\ Trust(TRUE)
  /\ UNCHANGED <<dataVars, writerVars, dropped, dirty, clean, moved, booted, history>>

CheckDiffers ==
  /\ InJob("checking")
  /\ Missing # {}
  /\ Close
  /\ UNCHANGED <<dataVars, state, writerVars, trustVars, booted, history>>

(* A statement of the session fails; the next session starts over.         *)
JobFails ==
  /\ job # NoJob
  /\ Close
  /\ Fault({})
  /\ UNCHANGED <<dataVars, state, writerVars, trustVars, booted, reported, aged, overtaken>>

(* The process ends and another starts.  A statement already sent may      *)
(* still commit.                                                           *)
Crash ==
  /\ Fault(Packets)
  /\ phase' = [w \in Writers |->
                 IF UnderWay(w) /\ w \notin Observing \cup Creating THEN "done" ELSE phase[w]]
  /\ orphans' = Observing \cup Creating
  /\ earned' = FALSE
  /\ dropped' = FALSE
  /\ dirty' = 0
  /\ clean' = 0
  /\ behind' = FALSE
  /\ moved' = FALSE
  /\ booted' = FALSE
  /\ Close
  /\ UNCHANGED <<dataVars, state, draft, seen, recorded, keyed, reported, aged, overtaken>>

(* An operator empties the table and its state, between two sessions.      *)
Rebuild ==
  /\ job = NoJob
  /\ state.found
  /\ Fault(Packets)
  /\ sites' = {}
  /\ state' = Fresh
  /\ reported' = reported \cap Missing
  /\ UNCHANGED <<observed, obsId, message, writerVars, trustVars, job, booted, aged, overtaken>>

Session ==
  \/ BootBegin \/ TaskBegin \/ Load \/ FirstUseMessages \/ FirstUse \/ ReadObservations
  \/ ReadMessages \/ FillByObservations \/ FillByMessages \/ Save \/ Backfill \/ Stop
  \/ Repaired \/ CheckPasses \/ CheckDiffers

-----------------------------------------------------------------------------
OrphanAborts(w) ==
  /\ w \in orphans
  /\ Ends(w, "done")
  /\ UNCHANGED <<dataVars, recorded, keyed, trustVars, jobVars, reported, overtaken, hurt,
                 faults>>

Handle(w) == (w \in Hearings /\ Hearing(w)) \/ Attempt(w) \/ OrphanAborts(w)

LegacyID(f, used, S) ==
  /\ \A x \in S : (f[x] # 0) = (x \in used)
  /\ \A x, y \in used : x # y => f[x] # f[y]

Init ==
  /\ observed = Legacy
  /\ obsId \in [Hearings -> 0..Cardinality(Legacy)]
  /\ LegacyID(obsId, Legacy, Hearings)
  /\ message \in [Packets -> 0..Cardinality(Legacy)]
  /\ LegacyID(message, {packetOf[h] : h \in Legacy}, Packets)
  /\ sites = {}
  /\ state = Fresh
  /\ phase = [w \in Writers |-> IF w \in Legacy THEN "done" ELSE "new"]
  /\ draft = [w \in Writers |-> 0]
  /\ seen = [w \in Writers |-> {}]
  /\ recorded = {}
  /\ orphans = {}
  /\ keyed \in BOOLEAN
  /\ earned = FALSE /\ dropped = FALSE /\ dirty = 0 /\ clean = 0
  /\ behind = FALSE /\ moved = FALSE
  /\ job = NoJob
  /\ booted = FALSE
  /\ reported = {} /\ aged = {} /\ overtaken = {} /\ hurt = {} /\ faults = 0

Next ==
  \/ \E w \in Writers : Handle(w)
  \/ ImportKey
  \/ Session
  \/ JobFails
  \/ Crash
  \/ Rebuild

Spec == Init /\ [][Next]_vars

(* A handler that has begun ends, and the jobs run every interval.         *)
Fairness ==
  /\ \A w \in Writers : WF_vars(UnderWay(w) /\ Handle(w))
  /\ WF_vars(Session)

LiveSpec == Spec /\ Fairness

-----------------------------------------------------------------------------
Phases == {"new", "observing", "observed", "adding", "inserting", "refused", "falling",
           "unseeded", "not stored", "adding again", "done"}
Steps == {"closed", "init", "first use", "begun", "reading", "filling observations",
          "filling messages", "saving", "backfilling", "stopping", "repaired", "checking"}

(* The types, and what each implies: a site is of a committed hearing with *)
(* a message, the older watermark is never ahead, nor is the backfill of   *)
(* its end.                                                                *)
TypeOK ==
  /\ observed \subseteq Hearings
  /\ obsId \in [Hearings -> Nat]
  /\ message \in [Packets -> Nat]
  /\ sites \subseteq {h \in Hearings : Stored(h)}
  /\ phase \in [Writers -> Phases]
  /\ draft \in [Writers -> Nat]
  /\ seen \in [Writers -> SUBSET Hearings]
  /\ recorded \subseteq Hearings
  /\ orphans \subseteq Observing \cup Creating
  /\ {keyed, earned, dropped, behind, moved, booted} \subseteq BOOLEAN
  /\ dirty \in 0..DropAfterDirty /\ clean \in 0..RestoreAfterClean
  /\ job.mode \in {"none", "boot", "task"} /\ job.step \in Steps
  /\ state.obsPrev <= state.obsHi /\ state.msgPrev <= state.msgHi
  /\ ~state.complete => state.filledTo <= state.maxID
  /\ reported \cup aged \cup overtaken \subseteq Writers
  /\ hurt \subseteq Packets
  /\ faults \in 0..MaxFaults

(* A hearing whose handler is done, of a packet none of whose statements   *)
(* failed, is in the table if its message is stored, however the snapshots *)
(* of its lanes, the decrypt backfill and the jobs fell: the two Adds      *)
(* around the insert attempt miss nothing (StoreGroupText's siteRecorded). *)
RecordedUnlessFailed ==
  \A h \in Hearings \ Legacy :
    phase[h] = "done" /\ Stored(h) /\ packetOf[h] \notin hurt => h \in sites

Overtaken(h) == \E w \in overtaken : packetOf[w] = packetOf[h]

(* While pages are served from the table, every pair a writer reported     *)
(* missing, or that an earlier process or the time before the table left   *)
(* missing, has been repaired (Invalidate, Repaired, Boot), unless the ids *)
(* were read twice during one of its packet's statements, or first use did *)
(* not see its message coming.                                             *)
ReportedMissesHidden ==
  Trusted => \A h \in reported \cap Missing : Overtaken(h)

(* After the last failure the table gets every pair but those of overtaken *)
(* statements' packets, and pages are served from it again unless the      *)
(* first verification may still find one of those missing: the streaks,    *)
(* the watermarks and the backfill never lock trust out (Earn, ObserveRun, *)
(* Repaired, cmiSession.Reconcile).                                        *)
TrustReturns ==
  <>[](/\ \A h \in Missing : Overtaken(h)
       /\ Trusted \/ (~state.verified /\ Missing # {}))
=============================================================================
