----------------------------- MODULE MCPresence -----------------------------
(* Small instances of Presence.                                            *)
EXTENDS Presence, TLC

WorkerSymmetry == Permutations(Workers)
=============================================================================
