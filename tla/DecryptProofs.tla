--------------------------- MODULE DecryptProofs ---------------------------
(***************************************************************************)
(* Theorems of DecryptBackfill, for any channels, packets, keys and        *)
(* bounds: type correctness, no lost wake-up, and that every step of the   *)
(* detailed module is a step of BackfillService.                           *)
(***************************************************************************)
EXTENDS DecryptBackfill, TLAPS

(* Who is about to mark a packet has stored its message, or found it.      *)
Storing ==
  /\ \A p \in Packets : stage[p] = "inserted" => p \in messages
  /\ marking \subseteq messages

IInv == TypeOK /\ Storing

(* The initial states are well typed.                                      *)
LEMMA TypeInit == Init => IInv
<1> SUFFICES ASSUME Init PROVE IInv
  OBVIOUS
<1> USE DecryptAssumption DEF Init
<1>1. Storing
  BY DEF Storing
<1>2. stage \in [Packets -> {"new", "stored", "inserted", "done"}]
  OBVIOUS
<1>3. (request # {}) = (run \in {"listing", "trying"})
  OBVIOUS
<1>4. imports \in Nat /\ faults \in Nat /\ restarts \in 0..faults
  OBVIOUS
<1> QED
  BY <1>1, <1>2, <1>3, <1>4 DEF IInv, TypeOK

(* Every step keeps TypeOK: a packet is marked decrypted only after its    *)
(* message is stored, by its lane or by the run.                           *)
LEMMA TypeStep == IInv /\ [Next]_vars => IInv'
<1> SUFFICES ASSUME IInv, [Next]_vars PROVE IInv'
  OBVIOUS
<1> USE DecryptAssumption DEF IInv, Storing, TypeOK, tables, laneVars, pending, askers, runVars, history
<1>1. ASSUME NEW p \in Packets, UpsertPacket(p) PROVE IInv'
  BY <1>1 DEF UpsertPacket
<1>2. ASSUME NEW p \in Packets, LiveDecrypt(p) PROVE IInv'
  BY <1>2 DEF LiveDecrypt, InsertMessage, Decrypts
<1>3. ASSUME NEW p \in Packets, LiveMark(p) PROVE IInv'
  BY <1>3 DEF LiveMark
<1>4. ASSUME NEW p \in Packets, LiveFails(p) PROVE IInv'
  BY <1>4 DEF LiveFails, Fault
<1>5. ASSUME NEW p \in Packets, TryFails(p) PROVE IInv'
  BY <1>5 DEF TryFails, Fault
<1>6. ASSUME NEW entries \in SUBSET Channels, SetImported(entries) PROVE IInv'
  BY <1>6 DEF SetImported
<1>7. CASE Boot
  BY <1>7 DEF Boot, RequestAll, BootPokes, Poke
<1>8. CASE Importer
  BY <1>8 DEF Importer, RequestHashes, ImporterPokes, Poke
<1>9. CASE Wake
  <2>1. (request' # {}) = (run' \in {"listing", "trying"})
    BY <1>9 DEF Wake
  <2> QED
    BY <1>9, <2>1 DEF Wake
<1>10. CASE Take
  <2>1. request' \subseteq Channels \cup {All} /\ list' = {} /\ marking' = {}
    BY <1>10 DEF Take, Asked
  <2>2. (request' # {}) = (run' \in {"listing", "trying"})
    BY <1>10 DEF Take
  <2> QED
    BY <1>10, <2>1, <2>2 DEF Take
<1>11. CASE List
  BY <1>11 DEF List
<1>12. ASSUME NEW p \in Packets, Try(p) PROVE IInv'
  BY <1>12 DEF Try, InsertMessage, Decrypts
<1>13. CASE Mark
  BY <1>13 DEF Mark
<1>14. CASE RunEnds
  BY <1>14 DEF RunEnds, Finish
<1>15. CASE RunFails
  BY <1>15 DEF RunFails, Finish, Fault
<1>16. CASE Restart
  <2>1. stage' \in [Packets -> {"new", "stored", "inserted", "done"}]
    BY <1>16 DEF Restart
  <2>2. (request' # {}) = (run' \in {"listing", "trying"})
    BY <1>16 DEF Restart
  <2>3. Storing'
    BY <1>16 DEF Restart
  <2>4. request' \subseteq Channels \cup {All} /\ list' \cup marking' = {}
    BY <1>16 DEF Restart
  <2>5. hashes' \subseteq Channels /\ added' \subseteq Channels
    BY <1>16 DEF Restart
  <2>6. faults' \in Nat /\ restarts' \in 0..faults'
    BY <1>16 DEF Restart
  <2> HIDE DEF Storing
  <2> QED
    BY <1>16, <2>1, <2>2, <2>3, <2>4, <2>5, <2>6 DEF Restart
<1>17. CASE UNCHANGED vars
  BY <1>17 DEF vars
<1> QED
  BY <1>1, <1>2, <1>3, <1>4, <1>5, <1>6, <1>7, <1>8, <1>9, <1>10, <1>11, <1>12, <1>13, <1>14,
     <1>15, <1>16, <1>17
     DEF Next, Lane, Runner

(* TypeOK holds in every reachable state.                                  *)
THEOREM TypeInvariant == Spec => []TypeOK
<1>1. IInv => TypeOK
  BY DEF IInv
<1> QED
  BY <1>1, TypeInit, TypeStep, PTL DEF Spec
-----------------------------------------------------------------------------
(* Run's sleep.  Only RequestAll and RequestHashes add to the request, and *)
(* each leaves its caller about to send the signal; only Take, which finds *)
(* no request, and a new process put Run to sleep; only Run takes a signal *)
(* out.                                                                    *)
LEMMA WakeupStep == TypeOK /\ WakeupComing /\ [Next]_vars => WakeupComing'
<1> SUFFICES ASSUME TypeOK, WakeupComing, [Next]_vars PROVE WakeupComing'
  OBVIOUS
<1> USE DEF WakeupComing, Asked, tables, laneVars, pending, askers, runVars, history
<1>1. ASSUME NEW p \in Packets,
             UpsertPacket(p) \/ LiveDecrypt(p) \/ LiveMark(p) \/ LiveFails(p)
      PROVE  WakeupComing'
  BY <1>1 DEF UpsertPacket, LiveDecrypt, LiveMark, LiveFails
<1>2. ASSUME NEW p \in Packets, TryFails(p) \/ Try(p) PROVE WakeupComing'
  BY <1>2 DEF TryFails, Try
<1>3. ASSUME NEW entries \in SUBSET Channels, SetImported(entries) PROVE WakeupComing'
  BY <1>3 DEF SetImported
<1>4. CASE Boot
  BY <1>4 DEF Boot, RequestAll, BootPokes, Poke
<1>5. CASE Importer
  BY <1>5 DEF Importer, RequestHashes, ImporterPokes, Poke
<1>6. CASE Wake \/ List \/ Mark
  BY <1>6 DEF Wake, List, Mark
<1>7. CASE Take
  BY <1>7 DEF Take
<1>8. CASE RunEnds \/ RunFails
  BY <1>8 DEF RunEnds, RunFails, Finish
<1>9. CASE Restart
  BY <1>9 DEF Restart
<1>10. CASE UNCHANGED vars
  BY <1>10 DEF vars
<1> QED
  BY <1>1, <1>2, <1>3, <1>4, <1>5, <1>6, <1>7, <1>8, <1>9, <1>10 DEF Next, Lane, Runner

(* While Run sleeps with a request pending, its signal is in the channel   *)
(* or about to be sent (poke, take, Run).                                  *)
THEOREM NoLostWakeup == Spec => []WakeupComing
<1>1. Init => WakeupComing
  BY DEF Init, WakeupComing, Asked
<1> QED
  BY <1>1, TypeInvariant, WakeupStep, PTL DEF Spec

-----------------------------------------------------------------------------
(* Take begins a run of all that is asked for, and no run is under way     *)
(* then; the end and the failure of a run end it; a request is asked for   *)
(* when it is set, before its signal; only a restart counts as the end of  *)
(* the process.                                                            *)
LEMMA ServiceStep == TypeOK /\ [Next]_vars => [Service!Next]_(Service!service)
<1> SUFFICES ASSUME TypeOK, [Next]_vars PROVE [Service!Next]_(Service!service)
  OBVIOUS
<1> DEFINE Same == Asked' = Asked /\ request' = request /\ restarts' = restarts
<1>0. Same => UNCHANGED Service!service
  BY DEF Service!service
<1> USE DEF tables, laneVars, pending, askers, runVars, history
<1>1. ASSUME NEW p \in Packets,
             UpsertPacket(p) \/ LiveDecrypt(p) \/ LiveMark(p) \/ LiveFails(p)
      PROVE  Same
  BY <1>1 DEF UpsertPacket, LiveDecrypt, LiveMark, LiveFails, Fault, Asked
<1>2. ASSUME NEW p \in Packets, TryFails(p) \/ Try(p) PROVE Same
  BY <1>2 DEF TryFails, Try, Fault, Asked
<1>3. ASSUME NEW entries \in SUBSET Channels, SetImported(entries) PROVE Same
  BY <1>3 DEF SetImported, Asked
<1>4. CASE RequestAll
  <2>1. Service!Ask({All})
    BY <1>4 DEF RequestAll, Asked, Service!Ask
  <2> QED
    BY <2>1 DEF Service!Next
<1>5. CASE RequestHashes
  <2>1. Service!Ask(added)
    BY <1>5 DEF RequestHashes, Asked, Service!Ask
  <2>2. added \in SUBSET (Channels \cup {All})
    BY DEF TypeOK
  <2> QED
    BY <2>1, <2>2 DEF Service!Next
<1>6. CASE BootPokes \/ ImporterPokes \/ Wake \/ List \/ Mark
  <2>1. Same
    BY <1>6 DEF BootPokes, ImporterPokes, Wake, List, Mark, Asked
  <2> QED
    BY <2>1, <1>0
<1>7. CASE Take
  <2>1. request = {} /\ request' = Asked /\ Asked' = {} /\ restarts' = restarts
    BY <1>7 DEF Take, TypeOK, Asked
  <2>2. CASE Asked = {}
    BY <2>1, <2>2, <1>0
  <2>3. CASE Asked # {}
    BY <2>1, <2>3 DEF Service!Next, Service!Begin
  <2> QED
    BY <2>2, <2>3
<1>8. CASE RunEnds \/ RunFails
  <2>1. request # {} /\ request' = {} /\ Asked' = Asked /\ restarts' = restarts
    BY <1>8 DEF RunEnds, RunFails, Finish, Fault, TypeOK, Asked
  <2> QED
    BY <2>1 DEF Service!Next, Service!End
<1>9. CASE Restart
  <2>1. restarts' = restarts + 1 /\ Asked' = {} /\ request' = {}
    BY <1>9 DEF Restart, Asked
  <2> QED
    BY <2>1 DEF Service!Next, Service!Reset
<1>10. CASE UNCHANGED vars
  <2>1. Same
    BY <1>10 DEF vars, Asked
  <2> QED
    BY <2>1, <1>0
<1> QED
  BY <1>0, <1>1, <1>2, <1>3, <1>4, <1>5, <1>6, <1>7, <1>8, <1>9, <1>10
     DEF Next, Lane, Runner, Boot, Importer

(* No other step counts an end of the process.                             *)
LEMMA EndsAreRestarts == [Next]_vars => [Restart]_restarts
<1> SUFFICES ASSUME [Next]_vars, ~Restart PROVE restarts' = restarts
  OBVIOUS
<1> USE DEF Fault, history
<1>1. ASSUME NEW p \in Packets,
             UpsertPacket(p) \/ LiveDecrypt(p) \/ LiveMark(p) \/ LiveFails(p)
      PROVE  restarts' = restarts
  BY <1>1 DEF UpsertPacket, LiveDecrypt, LiveMark, LiveFails
<1>2. ASSUME NEW p \in Packets, TryFails(p) \/ Try(p) PROVE restarts' = restarts
  BY <1>2 DEF TryFails, Try
<1>3. ASSUME NEW entries \in SUBSET Channels, SetImported(entries)
      PROVE  restarts' = restarts
  BY <1>3 DEF SetImported
<1>4. CASE Boot \/ Importer
  BY <1>4 DEF Boot, RequestAll, BootPokes, Importer, RequestHashes, ImporterPokes
<1>5. CASE Wake \/ Take \/ List \/ Mark \/ RunEnds \/ RunFails
  BY <1>5 DEF Wake, Take, List, Mark, RunEnds, RunFails
<1>6. CASE UNCHANGED vars
  BY <1>6 DEF vars
<1> QED
  BY <1>1, <1>2, <1>3, <1>4, <1>5, <1>6 DEF Next, Lane, Runner

(* DecryptBackfill implements the safety part of BackfillService: a run    *)
(* serves all that was asked for when it began, and a request is dropped   *)
(* in no step but one that counts the end of the process, which Restart    *)
(* alone does (RequestAll, RequestHashes, take, run).                      *)
THEOREM ServesSafely ==
  Spec => /\ Service!Init /\ [][Service!Next]_(Service!service)
          /\ [][Restart]_restarts
<1>1. Init => Service!Init
  BY DEF Init, Service!Init, Asked
<1> QED
  BY <1>1, TypeInvariant, ServiceStep, EndsAreRestarts, PTL DEF Spec
=============================================================================
