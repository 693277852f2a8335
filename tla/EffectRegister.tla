--------------------------- MODULE EffectRegister ---------------------------
(***************************************************************************)
(* What applyIdempotentEffect of db/idempotent-effect.ts promises: a key   *)
(* is a register that the first call to take effect sets for ever, and     *)
(* whoever is answered is told what it holds.  A call whose caller is gone *)
(* may still take effect.                                                  *)
(***************************************************************************)
CONSTANTS
  Calls, Keys, None,
  KeyOf,       \* the idempotency key of each call
  RequestOf    \* its effect type and request

VARIABLES
  effects,     \* what each register holds
  answer       \* what each caller has been told

NoRow == [request |-> None, result |-> None]

Pending == [outcome |-> "pending", result |-> None]

RegisterInit ==
  /\ effects = [k \in Keys |-> NoRow]
  /\ answer = [c \in Calls |-> Pending]

\* Each call mints a result of its own; the call stands for it.
MyRow(c) == [request |-> RequestOf[c], result |-> c]

\* The call is the first of its key.
Apply(c) ==
  /\ effects[KeyOf[c]] = NoRow
  /\ effects' = [effects EXCEPT ![KeyOf[c]] = MyRow(c)]
  /\ UNCHANGED answer

\* What a row says to a call: it is its own, another's for the same request,
\* or one for something else.
Told(c, row) ==
  CASE row = MyRow(c) -> [outcome |-> "applied", result |-> c]
    [] row # MyRow(c) /\ row.request = RequestOf[c] -> [outcome |-> "reused", result |-> row.result]
    [] OTHER -> [outcome |-> "conflict", result |-> None]

Answer(c) ==
  /\ answer[c] = Pending
  /\ effects[KeyOf[c]] # NoRow
  /\ answer' = [answer EXCEPT ![c] = Told(c, effects[KeyOf[c]])]
  /\ UNCHANGED effects

\* The caller never learns what became of its call.
Lose(c) ==
  /\ answer[c] = Pending
  /\ answer' = [answer EXCEPT ![c] = [outcome |-> "error", result |-> None]]
  /\ UNCHANGED effects

RegisterNext == \E c \in Calls : Apply(c) \/ Answer(c) \/ Lose(c)

RegisterSpec == RegisterInit /\ [][RegisterNext]_<<effects, answer>>
=============================================================================
