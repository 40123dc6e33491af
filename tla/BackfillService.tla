-------------------------- MODULE BackfillService --------------------------
(***************************************************************************)
(* What the decrypt backfill promises those who ask it for a run: a        *)
(* request is served by a run that begins after it was made, a run serves  *)
(* all that is asked for by then, there is one run at a time, and every    *)
(* request is served and every run ends, unless the process does.  Who     *)
(* uses this module counts the process's ends, and may not count anything  *)
(* else as one.                                                            *)
(***************************************************************************)
EXTENDS Naturals

CONSTANT Requests

VARIABLES
  asked,    (* requests that no run has begun to serve                     *)
  serving,  (* requests of the run under way                               *)
  ends      (* how often the process has ended                             *)

service == <<asked, serving, ends>>

Init == asked = {} /\ serving = {} /\ ends = 0

Ask(requests) == asked' = asked \cup requests /\ UNCHANGED <<serving, ends>>
Begin == serving = {} /\ asked # {} /\ serving' = asked /\ asked' = {} /\ UNCHANGED ends
End == serving # {} /\ serving' = {} /\ UNCHANGED <<asked, ends>>

(* The process ends; a request is kept in memory only.                     *)
Reset == ends' = ends + 1 /\ asked' = {} /\ serving' = {}

Next == (\E S \in SUBSET Requests : Ask(S)) \/ Begin \/ End \/ Reset

Spec == Init /\ [][Next]_service /\ WF_service(Begin) /\ WF_service(End)
=============================================================================
