------------------------- MODULE MCDecryptBackfill -------------------------
(* Instances of DecryptBackfill for TLC. *)
EXTENDS DecryptBackfill, TLC

CONSTANTS c1, c2, p1, p2

TwoChannels == p1 :> c1 @@ p2 :> c2
=============================================================================
