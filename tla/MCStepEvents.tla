---------------------------- MODULE MCStepEvents ----------------------------
(* Instances of StepEvents for TLC. *)
EXTENDS StepEvents, TLC

TwoSteps == {1, 2}

OneThenTwo == [s \in Steps |-> s]
LowFirst == [s \in Steps |-> 3 - s]
AllAvailable == [s \in Steps |-> 0]

Symmetry == Permutations(Sessions)
=============================================================================
