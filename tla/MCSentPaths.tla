---------------------------- MODULE MCSentPaths ----------------------------
(* Small instances of SentPaths.                                           *)
EXTENDS SentPaths, TLC

WorkerSymmetry == Permutations(Workers)
Symmetry == WorkerSymmetry \cup Permutations(Pairs) \cup Permutations(Paths)
=============================================================================
