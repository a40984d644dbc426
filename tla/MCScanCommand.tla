--------------------------- MODULE MCScanCommand ---------------------------
(* Instances of ScanCommand for TLC. *)
EXTENDS ScanCommand, TLC

CONSTANTS c1, t1, i1, w1, w2

Folded == t1 :> i1
NoNames == {}
Values == {}

OneCapability == {[id |-> c1, tool |-> t1, kind |-> "broad", values |-> {}]}

Denies == [Default EXCEPT !.deny = {c1}]
Reviews == [Default EXCEPT !.review = {c1}]
Suppressing(rule, last) == {[rule |-> rule, cap |-> None, tool |-> None, expires |-> last]}
Excepted(last) == [Denies EXCEPT !.suppressions = Suppressing("capability.denied", last)]
SomeContents == {Denies, Excepted(0), [Reviews EXCEPT !.suppressions = Suppressing("risk.threshold", 1)]}

SomeOptions == {[snapshot |-> FALSE, failOn |-> "HIGH", toPath |-> TRUE],
                [snapshot |-> FALSE, failOn |-> "MEDIUM", toPath |-> FALSE],
                [snapshot |-> TRUE, failOn |-> "never", toPath |-> TRUE]}

Symmetry == Permutations(Command)
============================================================================
