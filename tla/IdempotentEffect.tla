-------------------------- MODULE IdempotentEffect --------------------------
(***************************************************************************)
(* applyIdempotentEffect of db/idempotent-effect.ts: executions of a step, *)
(* some repeated after a crash, some stale, apply one keyed effect.        *)
(*                                                                         *)
(* A call is two autocommit statements, INSERT ... ON CONFLICT DO NOTHING  *)
(* and, if that returned no row, a SELECT of the row that was in the way.  *)
(* Each call mints an identifier; the call stands for it here.  A caller   *)
(* that is killed or loses its connection leaves its statement behind,     *)
(* which may still commit.                                                 *)
(***************************************************************************)
EXTENDS Naturals

CONSTANTS
  Calls,       \* the calls of applyIdempotentEffect, each made once
  Keys, Requests, None,
  KeyOf,       \* the idempotency key of each call
  RequestOf    \* its effect type and request

ASSUME CallsAssumption ==
  /\ KeyOf \in [Calls -> Keys]
  /\ RequestOf \in [Calls -> Requests]
  /\ None \notin Calls

VARIABLES
  effects,   \* the committed rows of idempotent_effects
  stmt,      \* where the statements of each call are
  snapshot,  \* what the current statement of each call sees
  answer     \* what each caller has been told

vars == <<effects, stmt, snapshot, answer>>

NoRow == [request |-> None, result |-> None]

Row == [request : Requests, result : Calls]

Table == [Keys -> Row \cup {NoRow}]

\* inserting: the INSERT runs, or waits for another call's uncommitted row
\* inserted:  its row is in the table, uncommitted
\* applied:   committed, the reply under way
\* conflict:  the INSERT returned no row
\* reading:   the SELECT runs
Statements == {"idle", "inserting", "inserted", "applied", "conflict", "reading", "over"}

Outcomes == {"pending", "applied", "reused", "conflict", "missing", "error"}

Pending == [outcome |-> "pending", result |-> None]

TypeOK ==
  /\ effects \in Table
  /\ stmt \in [Calls -> Statements]
  /\ snapshot \in [Calls -> Table]
  /\ answer \in [Calls -> [outcome : Outcomes, result : Calls \cup {None}]]

Init ==
  /\ effects = [k \in Keys |-> NoRow]
  /\ stmt = [c \in Calls |-> "idle"]
  /\ snapshot = [c \in Calls |-> effects]
  /\ answer = [c \in Calls |-> Pending]

MyRow(c) == [request |-> RequestOf[c], result |-> c]

Exists(c) == effects[KeyOf[c]] # NoRow

\* Mutant: the key has no unique index.
BlockedNever(c) == FALSE

\* Another call's uncommitted row has the key: the INSERT waits for its fate.
Blocked(c) == \E d \in Calls \ {c} : stmt[d] = "inserted" /\ KeyOf[d] = KeyOf[c]

Waiting(c) == answer[c] = Pending

Goto(c, at) == stmt' = [stmt EXCEPT ![c] = at]

Tell(c, outcome, result) ==
  answer' = [answer EXCEPT ![c] = [outcome |-> outcome, result |-> result]]

-----------------------------------------------------------------------------

\* The INSERT starts, and takes its snapshot before it waits for anyone.
Start(c) ==
  /\ stmt[c] = "idle" /\ Waiting(c)
  /\ Goto(c, "inserting")
  /\ snapshot' = [snapshot EXCEPT ![c] = effects]
  /\ UNCHANGED <<effects, answer>>

InsertRow(c) ==
  /\ stmt[c] = "inserting" /\ ~Exists(c) /\ ~Blocked(c)
  /\ Goto(c, "inserted")
  /\ UNCHANGED <<effects, snapshot, answer>>

\* Mutant: ON CONFLICT DO UPDATE.
InsertConflictsAndUpdates(c) ==
  /\ stmt[c] = "inserting" /\ Exists(c)
  /\ Goto(c, "conflict")
  /\ effects' = [effects EXCEPT ![KeyOf[c]].request = RequestOf[c]]
  /\ UNCHANGED <<snapshot, answer>>

\* ON CONFLICT DO NOTHING: the unique index, not the snapshot, decides.
InsertConflicts(c) ==
  /\ stmt[c] = "inserting" /\ Exists(c)
  /\ Goto(c, "conflict")
  /\ UNCHANGED <<effects, snapshot, answer>>

\* Mutant: the INSERT is left for the caller to commit.
CommitIfCallerLives(c) ==
  /\ stmt[c] = "inserted" /\ Waiting(c)
  /\ Goto(c, "applied")
  /\ effects' = [effects EXCEPT ![KeyOf[c]] = MyRow(c)]
  /\ UNCHANGED <<snapshot, answer>>

CommitInsert(c) ==
  /\ stmt[c] = "inserted"
  /\ Goto(c, "applied")
  /\ effects' = [effects EXCEPT ![KeyOf[c]] = MyRow(c)]
  /\ UNCHANGED <<snapshot, answer>>

\* The connection fails first, and PostgreSQL rolls the row back.
RollbackInsert(c) ==
  /\ stmt[c] \in {"inserting", "inserted"}
  /\ Goto(c, "over")
  /\ IF Waiting(c) THEN Tell(c, "error", None) ELSE UNCHANGED answer
  /\ UNCHANGED <<effects, snapshot>>

ReturnApplied(c) ==
  /\ stmt[c] = "applied" /\ Waiting(c)
  /\ Goto(c, "over")
  /\ Tell(c, "applied", c)
  /\ UNCHANGED <<effects, snapshot>>

\* Mutant: the fallback SELECT is part of the INSERT statement.
SelectInSameStatement(c) ==
  /\ stmt[c] = "conflict" /\ Waiting(c)
  /\ Goto(c, "reading")
  /\ UNCHANGED <<effects, snapshot, answer>>

\* A second statement, with a snapshot of its own.
Select(c) ==
  /\ stmt[c] = "conflict" /\ Waiting(c)
  /\ Goto(c, "reading")
  /\ snapshot' = [snapshot EXCEPT ![c] = effects]
  /\ UNCHANGED <<effects, answer>>

\* Mutant: the identifier minted by this call is reported.
ReadBackCandidate(c) ==
  LET row == snapshot[c][KeyOf[c]]
  IN  CASE row = NoRow                  -> Tell(c, "missing", None)
        [] row.request # RequestOf[c]   -> Tell(c, "conflict", None)
        [] OTHER                        -> Tell(c, "reused", c)

\* What the stored row says: nothing, a different effect, or this one.
ReadBack(c) ==
  LET row == snapshot[c][KeyOf[c]]
  IN  CASE row = NoRow                  -> Tell(c, "missing", None)
        [] row.request # RequestOf[c]   -> Tell(c, "conflict", None)
        [] OTHER                        -> Tell(c, "reused", row.result)

Return(c) ==
  /\ stmt[c] = "reading" /\ Waiting(c)
  /\ Goto(c, "over")
  /\ ReadBack(c)
  /\ UNCHANGED <<effects, snapshot>>

\* The caller is killed, or its query rejects with the outcome unknown.  What
\* PostgreSQL does with an INSERT under way is CommitInsert or RollbackInsert.
Lose(c) ==
  /\ Waiting(c)
  /\ Tell(c, "error", None)
  /\ UNCHANGED <<effects, stmt, snapshot>>

Next ==
  \E c \in Calls :
    \/ Start(c) \/ InsertRow(c) \/ InsertConflicts(c) \/ CommitInsert(c)
    \/ RollbackInsert(c) \/ ReturnApplied(c) \/ Select(c) \/ Return(c) \/ Lose(c)

Spec == Init /\ [][Next]_vars

\* Statements finish, and a live caller makes its next one.
Fairness ==
  \A c \in Calls :
    WF_vars(\/ Start(c) \/ InsertRow(c) \/ InsertConflicts(c) \/ CommitInsert(c)
            \/ ReturnApplied(c) \/ Select(c) \/ Return(c))

FairSpec == Spec /\ Fairness

-----------------------------------------------------------------------------
(* Properties                                                              *)

Succeeded(c) == answer[c].outcome \in {"applied", "reused"}

\* However many executions apply an effect, at once or one after another's
\* crash, all that succeed are given the one stored result, and at most one of
\* them is told that it applied it (runIdempotentEffect relies on this: a
\* re-execution's step result is identical to the original's).
CallersAgree ==
  \A c, d \in Calls :
    Succeeded(c) /\ Succeeded(d) /\ KeyOf[c] = KeyOf[d] =>
      /\ answer[c].result = answer[d].result
      /\ RequestOf[c] = RequestOf[d]
      /\ answer[c].outcome = "applied" /\ answer[d].outcome = "applied" => c = d

\* The SELECT after a conflict finds the row (EffectStateError is not reached).
ConflictingRowIsFound == \A c \in Calls : answer[c].outcome # "missing"

\* IdempotencyConflictError is only for a key that stands for another request;
\* calls that agree on the request of a key are never refused.
ConflictIsReal ==
  \A c \in Calls :
    answer[c].outcome = "conflict" =>
      \E d \in Calls : KeyOf[d] = KeyOf[c] /\ RequestOf[d] # RequestOf[c]
                       /\ effects[KeyOf[c]] = MyRow(d)

\* A committed effect never changes and never disappears.
EffectsAreFinal ==
  [][\A k \in Keys : effects[k] # NoRow => effects'[k] = effects[k]]_vars

\* Each key is a register, set once and for ever, and every answer is what it
\* holds: a call that was told "applied" made the row, one that was told
\* "reused" was given another's result for the same request, and nobody is told
\* that a row in the way is missing (idempotent-effect.ts: "applies the logical
\* effect, or returns the result of the application that already happened").
Register == INSTANCE EffectRegister

ImplementsRegister == Register!RegisterSpec

\* No call waits for ever: whoever holds the key commits or rolls back.
CallsReturn == \A c \in Calls : <>(answer[c] # Pending)

-----------------------------------------------------------------------------
(* The inductive invariant behind the safety properties.                   *)

\* The unique index: one uncommitted row per key, and none where one exists.
OneRowPerKey ==
  \A c \in Calls :
    stmt[c] = "inserted" => ~Exists(c) /\ ~Blocked(c)

\* A committed row is the row of a call on its key.
RowsHaveCalls ==
  \A k \in Keys :
    effects[k] # NoRow => \E c \in Calls : KeyOf[c] = k /\ effects[k] = MyRow(c)

\* A call past its INSERT knows that the key has a row, and whose; only a call
\* that has committed its row finds it there.
PastInsert ==
  \A c \in Calls :
    /\ stmt[c] = "applied" => effects[KeyOf[c]] = MyRow(c)
    /\ effects[KeyOf[c]] = MyRow(c) => stmt[c] \in {"applied", "over"}
    /\ stmt[c] = "conflict" => Exists(c)
    /\ stmt[c] = "reading" => Exists(c) /\ snapshot[c][KeyOf[c]] = effects[KeyOf[c]]

\* What a caller was told is what the table says.
AnswersAreTrue ==
  \A c \in Calls :
    LET row == effects[KeyOf[c]]
    IN  /\ answer[c].outcome = "applied" => row = MyRow(c) /\ answer[c].result = c
        /\ answer[c].outcome = "reused" => /\ row # NoRow
                                           /\ row.request = RequestOf[c]
                                           /\ row.result = answer[c].result
        /\ answer[c].outcome = "conflict" => row # NoRow /\ row.request # RequestOf[c]
        /\ answer[c].outcome # "missing"

IInv == TypeOK /\ OneRowPerKey /\ RowsHaveCalls /\ PastInsert /\ AnswersAreTrue
=============================================================================
