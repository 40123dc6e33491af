---------------------------- MODULE MCReadModel ----------------------------
(* Instances of ReadModel for TLC. *)
EXTENDS ReadModel, TLC

CONSTANTS h1, h2, h3, d1, p1, p2

Lanes == h1 :> p1 @@ h2 :> p1 @@ h3 :> p2
Backfilled == h1 :> p1 @@ d1 :> p1 @@ h3 :> p2
EqualLanes == Permutations({h1, h2})
=============================================================================
