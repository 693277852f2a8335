-------------------------- MODULE MCWorkerRuntime --------------------------
(* Instances of WorkerRuntime for TLC. *)
EXTENDS WorkerRuntime, TLC

CONSTANT Attempts

EqualAttempts == [s \in Steps |-> Attempts]
NoWait == [s \in Steps |-> 0]
=============================================================================
