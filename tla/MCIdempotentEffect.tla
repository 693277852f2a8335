------------------------ MODULE MCIdempotentEffect ------------------------
(* Instances of IdempotentEffect for TLC. *)
EXTENDS IdempotentEffect, TLC

CONSTANTS c1, c2, c3, c4, k1, r1, r2

\* Three executions of one step, and a call that misuses their key.
Misused == (c4 :> r2) @@ [c \in Calls |-> r1]

OneKey == [c \in Calls |-> k1]
=============================================================================
