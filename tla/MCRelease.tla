----------------------------- MODULE MCRelease -----------------------------
(* Instances of Release for TLC. *)
EXTENDS Release, TLC

ReleaseIds == 1..2
Symmetry == Permutations(Run) \cup Permutations(Sha)
============================================================================
