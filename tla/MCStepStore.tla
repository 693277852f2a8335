---------------------------- MODULE MCStepStore ----------------------------
(* Instances of StepStore for TLC. *)
EXTENDS StepStore, TLC

CONSTANTS Attempts

OneStep == {1}

EqualAttempts == [s \in Steps |-> Attempts]
RisingPriority == [s \in Steps |-> s]
AllAvailable == [s \in Steps |-> 0]

Symmetry == Permutations(Sessions) \cup Permutations(Workers)
=============================================================================
