--------------------------- MODULE MCAtomicWrite ---------------------------
(* Instances of AtomicWrite for TLC. *)
EXTENDS AtomicWrite, TLC

\* Every failure but that of close, whose handling NoTempLeft does not survive.
MostFaults == {"stat", "open", "chmod", "write", "fsync", "replace"}
CloseFaults == {"close"}
AllFaults == MostFaults \cup CloseFaults \cup {"unlink"}

Symmetry == Permutations(Writer) \cup Permutations(TempName)
============================================================================
