---------------------------- MODULE MCAdmission ----------------------------
(* Small instances of Admission.                                           *)
EXTENDS Admission, TLC

RequestSymmetry == Permutations(Requests \ (Shared \cup Tolerant))
=============================================================================
