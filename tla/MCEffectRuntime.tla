-------------------------- MODULE MCEffectRuntime --------------------------
(* Instances of EffectRuntime for TLC. *)
EXTENDS EffectRuntime, TLC

CONSTANT Attempts

EqualAttempts == [s \in Steps |-> Attempts]
NoWait == [s \in Steps |-> 0]

Of(type, valid, failures) == [type |-> type, valid |-> valid, failures |-> failures]

\* An effect, a task that succeeds at its second attempt, and an invalid task.
\* A hash without failures does what the second attempt does.
SomeTasks ==
  {Of("idempotent_effect", TRUE, 0), Of("fail_then_hash", TRUE, 1),
   Of("hash_after_delay", FALSE, 0)}

Symmetry == Permutations(Workers)
=============================================================================
