-------------------------- MODULE DecryptBackfill --------------------------
(***************************************************************************)
(* The decrypt backfill (internal/ingest/backfill.go): one goroutine that  *)
(* retries stored group text against the keystore, for all channels after  *)
(* boot and for the channels of imported keys.  Requests are kept under a  *)
(* mutex and announced on a channel with room for one signal.  Next to it  *)
(* are those it must agree with: live packets, which are stored first and  *)
(* looked up in the keystore later, and the importer, which swaps the keys *)
(* in and then asks.                                                       *)
(***************************************************************************)
EXTENDS Integers, FiniteSets

CONSTANTS
  Channels,     (* channel hashes                                          *)
  Packets,      (* group text packets                                      *)
  channelOf,
  Configured,   (* channels with a configured key                          *)
  All,          (* the request for every channel                           *)
  MaxImports,   (* bound: imports                                          *)
  MaxFaults     (* bound: failures and restarts                            *)

ASSUME DecryptAssumption ==
  /\ channelOf \in [Packets -> Channels]
  /\ Configured \subseteq Channels
  /\ All \notin Channels
  /\ {MaxImports, MaxFaults} \subseteq Nat

VARIABLES
  imported,    (* channels whose key the importer has set                  *)
  stage,       (* of a packet's live lane                                  *)
  messages,    (* packets that have a message                              *)
  decrypted,   (* packets marked decrypted                                 *)
  all, hashes, (* the pending request                                      *)
  wake,        (* whether the channel holds its signal                     *)
  boot,        (* where main is with RequestAll                            *)
  importer,    (* where the importer is with RequestHashes                 *)
  added,       (* the channels it asks for                                 *)
  run,         (* where Run is                                             *)
  request,     (* what take returned                                       *)
  list,        (* packets listed and not yet tried                         *)
  marking,     (* those of the list whose message is stored                *)
  failed,      (* a packet or a run failed since boot                      *)
  imports, faults,
  restarts     (* process ends so far: only Restart counts one             *)

tables == <<messages, decrypted>>
laneVars == <<stage, tables>>
pending == <<all, hashes>>
askers == <<boot, importer, added, imported, imports>>
runVars == <<run, request, list, marking>>
history == <<failed, faults, restarts>>
vars == <<laneVars, pending, wake, askers, runVars, history>>

Known == Configured \cup imported

-----------------------------------------------------------------------------
(* A live packet: UpsertPacket, then DecryptGroupText with the keys of     *)
(* that moment: the message is inserted unless it exists, and the one who  *)
(* inserted it marks the packet.                                           *)
UpsertPacket(p) ==
  /\ stage[p] = "new"
  /\ stage' = [stage EXCEPT ![p] = "stored"]
  /\ UNCHANGED <<tables, pending, wake, askers, runVars, history>>

Decrypts(p) == channelOf[p] \in Known

InsertMessage(p) == messages' = IF Decrypts(p) THEN messages \cup {p} ELSE messages

(* Deviation: the packet is marked before its message is stored.           *)
LiveDecryptMarksFirst(p) ==
  /\ stage[p] = "stored"
  /\ decrypted' = IF Decrypts(p) THEN decrypted \cup {p} ELSE decrypted
  /\ stage' = [stage EXCEPT ![p] = "done"]
  /\ UNCHANGED <<messages, pending, wake, askers, runVars, history>>

LiveDecrypt(p) ==
  /\ stage[p] = "stored"
  /\ InsertMessage(p)
  /\ stage' = [stage EXCEPT ![p] = IF messages' # messages THEN "inserted" ELSE "done"]
  /\ UNCHANGED <<decrypted, pending, wake, askers, runVars, history>>

LiveMark(p) ==
  /\ stage[p] = "inserted"
  /\ stage' = [stage EXCEPT ![p] = "done"]
  /\ decrypted' = decrypted \cup {p}
  /\ UNCHANGED <<messages, pending, wake, askers, runVars, history>>

-----------------------------------------------------------------------------
(* The askers: set under the mutex, then poke.                             *)

Poke == wake' = TRUE

RequestAll ==
  /\ boot = "asking"
  /\ all' = TRUE
  /\ boot' = "poking"
  /\ UNCHANGED <<laneVars, hashes, wake, importer, added, imported, imports, runVars, history>>

BootPokes ==
  /\ boot = "poking"
  /\ Poke
  /\ boot' = "done"
  /\ UNCHANGED <<laneVars, pending, importer, added, imported, imports, runVars, history>>

(* SetImported: the keys are swapped at once; those not known before are   *)
(* asked for.                                                              *)
SetImported(entries) ==
  /\ importer = "idle"
  /\ imports < MaxImports
  /\ imports' = imports + 1
  /\ imported' = entries
  /\ added' = entries \ (Configured \cup imported)
  /\ importer' = IF added' = {} THEN "idle" ELSE "asking"
  /\ UNCHANGED <<laneVars, pending, wake, boot, runVars, history>>

RequestHashes ==
  /\ importer = "asking"
  /\ hashes' = hashes \cup added
  /\ importer' = "poking"
  /\ UNCHANGED <<laneVars, all, wake, boot, added, imported, imports, runVars, history>>

ImporterPokes ==
  /\ importer = "poking"
  /\ Poke
  /\ importer' = "idle"
  /\ added' = {}
  /\ UNCHANGED <<laneVars, pending, boot, imported, imports, runVars, history>>

-----------------------------------------------------------------------------
(* Run.                                                                    *)

Asked == (IF all THEN {All} ELSE {}) \cup hashes

Wake ==
  /\ run = "waiting"
  /\ wake
  /\ wake' = FALSE
  /\ run' = "taking"
  /\ UNCHANGED <<laneVars, pending, askers, request, list, marking, history>>

Take ==
  /\ run = "taking"
  /\ run' = IF Asked = {} THEN "waiting" ELSE "listing"
  /\ request' = Asked
  /\ all' = FALSE
  /\ hashes' = {}
  /\ UNCHANGED <<laneVars, wake, askers, list, marking, history>>

List ==
  /\ run = "listing"
  /\ list' = {p \in Packets \ decrypted :
                stage[p] # "new" /\ (All \in request \/ channelOf[p] \in request)}
  /\ run' = "trying"
  /\ UNCHANGED <<laneVars, pending, wake, askers, request, marking, history>>

(* Deviation: only a packet whose message this run stored is marked.       *)
TryMarksOwn(p) ==
  /\ run = "trying"
  /\ p \in list
  /\ marking = {}
  /\ InsertMessage(p)
  /\ marking' = messages' \ messages
  /\ list' = list \ {p}
  /\ UNCHANGED <<stage, decrypted, pending, wake, askers, run, request, history>>

(* backfill: the packet of a message that is stored already is marked too. *)
Try(p) ==
  /\ run = "trying"
  /\ p \in list
  /\ marking = {}
  /\ InsertMessage(p)
  /\ marking' = IF Decrypts(p) THEN {p} ELSE {}
  /\ list' = list \ {p}
  /\ UNCHANGED <<stage, decrypted, pending, wake, askers, run, request, history>>

Mark ==
  /\ run = "trying"
  /\ marking # {}
  /\ decrypted' = decrypted \cup marking
  /\ marking' = {}
  /\ UNCHANGED <<stage, messages, pending, wake, askers, run, request, list, history>>

Finish ==
  /\ marking = {}
  /\ run' = "taking"
  /\ request' = {}
  /\ list' = {}
  /\ UNCHANGED marking

(* Deviation: the signals that came during the run are drained after it.   *)
RunEndsDrains ==
  /\ run = "trying"
  /\ list = {} /\ marking = {}
  /\ run' = "waiting" /\ request' = {}
  /\ wake' = FALSE
  /\ UNCHANGED <<laneVars, pending, askers, list, marking, history>>

(* Deviation: what is pending is cleared after the run, not before it.     *)
RunEndsForgets ==
  /\ run = "trying"
  /\ list = {}
  /\ Finish
  /\ all' = FALSE /\ hashes' = {}
  /\ UNCHANGED <<laneVars, wake, askers, history>>

RunEnds ==
  /\ run = "trying"
  /\ list = {}
  /\ Finish
  /\ UNCHANGED <<laneVars, pending, wake, askers, history>>

Fault ==
  /\ faults < MaxFaults
  /\ faults' = faults + 1
  /\ UNCHANGED restarts

(* The list cannot be read, or the run's time is up between two packets;   *)
(* what it does not reach waits for the next boot.                         *)
RunFails ==
  /\ run \in {"listing", "trying"}
  /\ Fault
  /\ failed' = TRUE
  /\ Finish
  /\ UNCHANGED <<laneVars, pending, wake, askers>>

(* A packet's statements fail, live or in a run.                           *)
LiveFails(p) ==
  /\ stage[p] \in {"stored", "inserted"}
  /\ Fault
  /\ failed' = TRUE
  /\ stage' = [stage EXCEPT ![p] = "done"]
  /\ UNCHANGED <<tables, pending, wake, askers, runVars>>

TryFails(p) ==
  /\ run = "trying"
  /\ p \in (IF marking = {} THEN list ELSE marking)
  /\ Fault
  /\ failed' = TRUE
  /\ list' = list \ {p}
  /\ marking' = {}
  /\ UNCHANGED <<laneVars, pending, wake, askers, run, request>>

(* The process ends and another boots; imported keys are restored before.  *)
Restart ==
  /\ faults < MaxFaults
  /\ faults' = faults + 1
  /\ restarts' = restarts + 1
  /\ stage' = [p \in Packets |-> IF stage[p] = "new" THEN "new" ELSE "done"]
  /\ all' = FALSE /\ hashes' = {} /\ wake' = FALSE
  /\ boot' = "asking"
  /\ importer' = "idle" /\ added' = {}
  /\ run' = "waiting" /\ request' = {} /\ list' = {} /\ marking' = {}
  /\ failed' = FALSE
  /\ UNCHANGED <<tables, imported, imports>>

-----------------------------------------------------------------------------
Init ==
  /\ imported \in SUBSET Channels
  /\ stage = [p \in Packets |-> "new"]
  /\ messages = {} /\ decrypted = {}
  /\ all = FALSE /\ hashes = {} /\ wake = FALSE
  /\ boot = "asking"
  /\ importer = "idle" /\ added = {}
  /\ run = "waiting" /\ request = {} /\ list = {} /\ marking = {}
  /\ failed = FALSE
  /\ imports = 0 /\ faults = 0 /\ restarts = 0

Lane(p) == LiveDecrypt(p) \/ LiveMark(p)
Boot == RequestAll \/ BootPokes
Importer == RequestHashes \/ ImporterPokes
Runner == Wake \/ Take \/ List \/ (\E p \in Packets : Try(p)) \/ Mark \/ RunEnds

Next ==
  \/ \E p \in Packets : UpsertPacket(p) \/ Lane(p) \/ LiveFails(p) \/ TryFails(p)
  \/ \E entries \in SUBSET Channels : SetImported(entries)
  \/ Boot \/ Importer \/ Runner \/ RunFails \/ Restart

Spec == Init /\ [][Next]_vars

(* Goroutines that can go on do; nobody has to hear or import anything.    *)
LiveSpec ==
  /\ Spec
  /\ WF_vars(Boot) /\ WF_vars(Importer) /\ WF_vars(Runner)
  /\ \A p \in Packets : WF_vars(Lane(p))

-----------------------------------------------------------------------------
(* The types, and what each implies.                                       *)
TypeOK ==
  /\ imported \subseteq Channels /\ added \subseteq Channels /\ hashes \subseteq Channels
  /\ stage \in [Packets -> {"new", "stored", "inserted", "done"}]
  /\ messages \subseteq Packets /\ decrypted \subseteq messages
  /\ all \in BOOLEAN /\ wake \in BOOLEAN /\ failed \in BOOLEAN
  /\ boot \in {"asking", "poking", "done"}
  /\ importer \in {"idle", "asking", "poking"}
  /\ run \in {"waiting", "taking", "listing", "trying"}
  /\ request \subseteq Channels \cup {All}
  /\ (request # {}) = (run \in {"listing", "trying"})
  /\ list \cup marking \subseteq Packets
  /\ list \cup marking # {} => run = "trying"
  /\ imports \in Nat /\ faults \in Nat /\ restarts \in 0..faults

(* While Run sleeps with a request pending, the signal that will wake it   *)
(* is in the channel or its asker is about to send it: a signal dropped by *)
(* a full channel and a request taken with an earlier one lose nothing     *)
(* (poke, take, Run).                                                      *)
WakeupComing ==
  run = "waiting" /\ Asked # {} => wake \/ boot = "poking" \/ importer = "poking"

(* Those who ask get what BackfillService promises: all that is pending is *)
(* taken into one run, and nothing but a restart forgets a request         *)
(* (RequestAll, RequestHashes, take, Run).                                 *)
Service == INSTANCE BackfillService
             WITH Requests <- Channels \cup {All}, asked <- Asked, serving <- request,
                  ends <- restarts
ServesRequests == Service!Spec

(* A stored packet whose channel has a key is decrypted, unless the key    *)
(* goes or something failed since boot: between the import that asks after *)
(* it swapped the keys, the lane that looks the key up after it stored the *)
(* packet and the list that is read once, no packet is missed.             *)
KnownKeysDecrypt ==
  \A p \in Packets :
    stage[p] = "done" /\ channelOf[p] \in Known
      ~> p \in decrypted \/ channelOf[p] \notin Known \/ failed
=============================================================================
