----------------------------- MODULE StepStore -----------------------------
(***************************************************************************)
(* The steps table and the six PostgreSQL transactions that change it:     *)
(* claim, renew, complete, fail, recover and promote (server/src/db).      *)
(*                                                                         *)
(* A session is one database connection.  Its transaction runs in the      *)
(* statements of the code: a claim or a sweep reads a snapshot, visits the *)
(* candidates with FOR UPDATE SKIP LOCKED and then writes; an owner write  *)
(* waits for the row lock and only then evaluates its predicate.  Writes   *)
(* stay in `draft` and `note`, seen by nobody else, until Commit.  A       *)
(* session may abort anywhere: a lost connection, a killed client, a       *)
(* failed statement.  `now` is the database clock (clock_timestamp()).     *)
(***************************************************************************)
EXTENDS StepLifecycle, Integers, Sequences, FiniteSets

CONSTANTS
  Steps,          \* step ids: naturals, because ids break ties in ORDER BY
  Workers,        \* worker ids; a restarted process may reuse one
  Sessions,       \* database connections
  Null,           \* SQL null
  MaxAttempts,    \* max_attempts of each step
  Priority,       \* priority of each step
  InitAvailable,  \* available_at of each step when it is created
  LeaseDuration,  \* STEP_LEASE_DURATION_MS
  BackoffUnit,    \* the 500 ms of the backoff
  BatchLimit,     \* rows a sweep may lock (100 in the code)
  MaxNow          \* bound: where the checked clock stops

ASSUME StepStoreAssumption ==
  /\ Steps \subseteq Nat
  /\ IsFiniteSet(Steps)
  /\ Null \notin Workers \cup Sessions \cup Nat
  /\ MaxAttempts \in [Steps -> Nat \ {0}]
  /\ Priority \in [Steps -> Int]
  /\ InitAvailable \in [Steps -> Nat]
  /\ LeaseDuration \in Nat \ {0}
  /\ BackoffUnit \in Nat \ {0}
  /\ BatchLimit \in Nat \ {0}
  /\ MaxNow \in Nat

VARIABLES
  now,      \* the database clock
  row,      \* committed version of each step
  history,  \* committed events of each step, in commit order
  lock,     \* session that holds each row lock, or Null
  draft,    \* version of each step as its lock holder sees it
  note,     \* event its lock holder has inserted and not committed, or Null
  tx        \* open transaction of each session

vars == <<now, row, history, lock, draft, note, tx>>

OwnerOps == {"renew", "complete", "fail"}
Sweeps   == {"recover", "promote"}

Row ==
  [status : Status, owner : Workers \cup {Null}, version : Nat,
   attempts : Nat, deadline : Nat \cup {Null}, availableAt : Nat,
   result : Nat]   \* the generation that stored the result, 0 for null

Event ==
  [type : EventType, worker : Workers \cup {Null}, version : Nat, attempts : Nat]

\* No event is missing that has been inserted.
ASSUME EventAssumption == Null \notin Event \cup EventType

Transaction ==
  [op : {"idle", "claim"} \cup OwnerOps \cup Sweeps,
   at : {"idle", "select", "visit", "lock", "authorize", "commit"},
   worker : Workers \cup {Null},
   version : Nat,             \* owner writes: the generation presented
   retryable : BOOLEAN,       \* fail: the executor's classification
   step : Steps \cup {Null},  \* owner writes: the row
   begun : Nat,               \* now(), frozen at BEGIN
   todo : SUBSET Steps,       \* snapshot candidates not visited yet
   key : [Steps -> Nat],      \* their ORDER BY timestamp in the snapshot
   picked : SUBSET Steps]     \* candidates locked that passed the re-check

Idle ==
  [op |-> "idle", at |-> "idle", worker |-> Null, version |-> 0,
   retryable |-> FALSE, step |-> Null, begun |-> 0, todo |-> {},
   key |-> [s \in Steps |-> 0], picked |-> {}]

TypeOK ==
  /\ now \in Nat
  /\ row \in [Steps -> Row]
  /\ history \in [Steps -> Seq(Event)]
  /\ lock \in [Steps -> Sessions \cup {Null}]
  /\ draft \in [Steps -> Row]
  /\ note \in [Steps -> Event \cup {Null}]
  /\ tx \in [Sessions -> Transaction]

Init ==
  /\ now = 0
  /\ row = [s \in Steps |->
              [status |-> "READY", owner |-> Null, version |-> 0,
               attempts |-> 0, deadline |-> Null,
               availableAt |-> InitAvailable[s], result |-> 0]]
  /\ history = [s \in Steps |-> << >>]
  /\ lock = [s \in Steps |-> Null]
  /\ draft = row
  /\ note = [s \in Steps |-> Null]
  /\ tx = [c \in Sessions |-> Idle]

Tick ==
  /\ now < MaxNow
  /\ now' = now + 1
  /\ UNCHANGED <<row, history, lock, draft, note, tx>>

-----------------------------------------------------------------------------
(* Candidate scans: the SELECT ... FOR UPDATE SKIP LOCKED of claim-step.ts, *)
(* recover-expired-steps.ts and promote-due-retries.ts.                     *)

Claimable(s, begun) ==
  /\ row[s].status = "READY"
  /\ row[s].availableAt <= begun
  /\ row[s].attempts < MaxAttempts[s]

Expired(s) == row[s].status = "RUNNING" /\ row[s].deadline <= now

Due(s) == row[s].status = "RETRY_WAIT" /\ row[s].availableAt <= now

\* The WHERE clause of a scan, on the newest committed version of the row.
Matches(t, s) ==
  \/ t.op = "claim"   /\ Claimable(s, t.begun)
  \/ t.op = "recover" /\ Expired(s)
  \/ t.op = "promote" /\ Due(s)

Limit(op) == IF op = "claim" THEN 1 ELSE BatchLimit

\* ORDER BY: x is visited before y.
Before(t, x, y) ==
  LET byKey == t.key[x] < t.key[y] \/ (t.key[x] = t.key[y] /\ x < y)
  IN  IF t.op = "claim"
      THEN Priority[x] > Priority[y] \/ (Priority[x] = Priority[y] /\ byKey)
      ELSE byKey

IsNext(t, s) == s \in t.todo /\ \A u \in t.todo \ {s} : Before(t, s, u)

\* Takes the statement's snapshot of the candidates.
Snapshot(t) ==
  LET found == {s \in Steps : Matches(t, s)}
  IN  [t EXCEPT !.at = "visit",
                !.todo = found,
                !.key = [s \in Steps |->
                           IF s \notin found THEN 0
                           ELSE IF t.op = "recover" THEN row[s].deadline
                           ELSE row[s].availableAt]]

ScanDone(t) ==
  /\ t.at = "visit"
  /\ t.todo = {} \/ Cardinality(t.picked) = Limit(t.op)

\* Mutant: FOR UPDATE without SKIP LOCKED, which waits for the row.
WaitForLocked(c) ==
  /\ tx[c].at = "visit" /\ ~ScanDone(tx[c])
  /\ \E s \in Steps :
       /\ IsNext(tx[c], s)
       /\ lock[s] # Null
       /\ tx' = [tx EXCEPT ![c].at = "lock", ![c].step = s]
  /\ UNCHANGED <<now, row, history, lock, draft, note>>

\* A candidate somebody else has locked is passed over.
SkipLocked(c) ==
  /\ tx[c].at = "visit" /\ ~ScanDone(tx[c])
  /\ \E s \in Steps :
       /\ IsNext(tx[c], s)
       /\ lock[s] # Null
       /\ tx' = [tx EXCEPT ![c].todo = @ \ {s}]
  /\ UNCHANGED <<now, row, history, lock, draft, note>>

\* Mutant: without the re-check, a candidate of the snapshot is taken as it was.
LockCandidateUnchecked(c) ==
  /\ tx[c].at = "visit" /\ ~ScanDone(tx[c])
  /\ \E s \in Steps :
       /\ IsNext(tx[c], s)
       /\ lock[s] = Null
       /\ lock' = [lock EXCEPT ![s] = c]
       /\ tx' = [tx EXCEPT ![c].todo = @ \ {s}, ![c].picked = @ \cup {s}]
  /\ UNCHANGED <<now, row, history, draft, note>>

\* Mutant: the scan does not respect a lock somebody else holds.
LockCandidateAnyway(c) ==
  /\ tx[c].at = "visit" /\ ~ScanDone(tx[c])
  /\ \E s \in Steps :
       /\ IsNext(tx[c], s)
       /\ lock' = [lock EXCEPT ![s] = c]
       /\ tx' = [tx EXCEPT ![c].todo = @ \ {s},
                           ![c].picked = IF Matches(tx[c], s) THEN @ \cup {s} ELSE @]
  /\ UNCHANGED <<now, row, history, draft, note>>

\* A free candidate is locked in its newest committed version and checked
\* again; one that no longer matches is not returned, but stays locked.
LockCandidate(c) ==
  /\ tx[c].at = "visit" /\ ~ScanDone(tx[c])
  /\ \E s \in Steps :
       /\ IsNext(tx[c], s)
       /\ lock[s] = Null
       /\ lock' = [lock EXCEPT ![s] = c]
       /\ tx' = [tx EXCEPT ![c].todo = @ \ {s},
                           ![c].picked = IF Matches(tx[c], s) THEN @ \cup {s} ELSE @]
  /\ UNCHANGED <<now, row, history, draft, note>>

-----------------------------------------------------------------------------
(* claimNextStep                                                           *)

BeginClaim(c, w) ==
  /\ tx[c].op = "idle"
  /\ tx' = [tx EXCEPT ![c] = [Idle EXCEPT !.op = "claim", !.at = "select",
                                          !.worker = w, !.begun = now]]
  /\ UNCHANGED <<now, row, history, lock, draft, note>>

SelectCandidate(c) ==
  /\ tx[c].op = "claim" /\ tx[c].at = "select"
  /\ tx' = [tx EXCEPT ![c] = Snapshot(@)]
  /\ UNCHANGED <<now, row, history, lock, draft, note>>

\* { claimed: false }: the transaction ends having written nothing.
ClaimNothing(c) ==
  /\ tx[c].op = "claim" /\ ScanDone(tx[c]) /\ tx[c].picked = {}
  /\ tx' = [tx EXCEPT ![c].at = "commit"]
  /\ UNCHANGED <<now, row, history, lock, draft, note>>

\* The row the ownership UPDATE leaves behind.
ClaimedRow(r, w) ==
  [r EXCEPT !.status = "RUNNING", !.owner = w, !.version = @ + 1,
            !.attempts = @ + 1, !.deadline = now + LeaseDuration]

EventOf(type, worker, r) ==
  [type |-> type, worker |-> worker, version |-> r.version, attempts |-> r.attempts]

\* The ownership UPDATE and its STEP_CLAIMED event.
ClaimUpdate(c) ==
  /\ tx[c].op = "claim" /\ ScanDone(tx[c])
  /\ \E s \in tx[c].picked :
       /\ draft[s].status = "READY" /\ draft[s].attempts < MaxAttempts[s]
       /\ draft' = [draft EXCEPT ![s] = ClaimedRow(@, tx[c].worker)]
       /\ note' = [note EXCEPT ![s] = EventOf("STEP_CLAIMED", tx[c].worker, draft'[s])]
  /\ tx' = [tx EXCEPT ![c].at = "commit"]
  /\ UNCHANGED <<now, row, history, lock>>

-----------------------------------------------------------------------------
(* renewStepLease, completeStepSuccess, recordStepFailure                  *)

\* The worker was told it owns this generation: its claim has committed.
Issued(s, w, v) ==
  \E i \in DOMAIN history[s] :
    /\ history[s][i].type = "STEP_CLAIMED"
    /\ history[s][i].worker = w
    /\ history[s][i].version = v

BeginOwnerWrite(c, op, s, w, v, retryable) ==
  /\ tx[c].op = "idle"
  /\ Issued(s, w, v)
  /\ op # "fail" => ~retryable
  /\ tx' = [tx EXCEPT ![c] = [Idle EXCEPT !.op = op, !.at = "lock", !.step = s,
                                          !.worker = w, !.version = v,
                                          !.retryable = retryable, !.begun = now]]
  /\ UNCHANGED <<now, row, history, lock, draft, note>>

\* SELECT id ... FOR UPDATE: waits for the lock, decides nothing.
LockRow(c) ==
  /\ tx[c].at = "lock"
  /\ lock[tx[c].step] = Null
  /\ lock' = [lock EXCEPT ![tx[c].step] = c]
  /\ tx' = [tx EXCEPT ![c].at = "authorize"]
  /\ UNCHANGED <<now, row, history, draft, note>>

\* Mutant: the deadline is compared with now(), fixed before the lock wait.
AuthorizedAtBegin(t) ==
  LET r == draft[t.step]
  IN  /\ r.status = "RUNNING" /\ r.owner = t.worker /\ r.version = t.version
      /\ r.deadline > t.begun

\* Mutant: the owner side is not the complement of the sweep's <=.
AuthorizedAtDeadline(t) ==
  LET r == draft[t.step]
  IN  /\ r.status = "RUNNING" /\ r.owner = t.worker /\ r.version = t.version
      /\ r.deadline >= now

\* The WHERE clause shared by the three owner writes.
Authorized(t) ==
  LET r == draft[t.step]
  IN  /\ r.status = "RUNNING"
      /\ r.owner = t.worker
      /\ r.version = t.version
      /\ r.deadline > now

\* Zero rows: the transaction commits, having written nothing.
Reject(c) ==
  /\ tx[c].at = "authorize"
  /\ ~Authorized(tx[c])
  /\ tx' = [tx EXCEPT ![c].at = "commit"]
  /\ UNCHANGED <<now, row, history, lock, draft, note>>

RenewedRow(r) == [r EXCEPT !.deadline = now + LeaseDuration]

CompletedRow(r) ==
  [r EXCEPT !.status = "SUCCEEDED", !.owner = Null, !.deadline = Null,
            !.result = r.version]

FailedRow(r, s, retryable) ==
  IF retryable /\ r.attempts < MaxAttempts[s]
  THEN [r EXCEPT !.status = "RETRY_WAIT", !.owner = Null, !.deadline = Null,
                 !.availableAt = now + BackoffUnit * BackoffFactor(r.attempts)]
  ELSE [r EXCEPT !.status = "DEAD_LETTERED", !.owner = Null, !.deadline = Null]

\* An authorized owner write stores the row and, if the status changed, its event.
OwnerWrite(c, op, new, type) ==
  /\ tx[c].op = op /\ tx[c].at = "authorize"
  /\ Authorized(tx[c])
  /\ draft' = [draft EXCEPT ![tx[c].step] = new]
  /\ note' = [note EXCEPT ![tx[c].step] =
                IF type = Null THEN @ ELSE EventOf(type, tx[c].worker, new)]
  /\ tx' = [tx EXCEPT ![c].at = "commit"]
  /\ UNCHANGED <<now, row, history, lock>>

Renew(c) == OwnerWrite(c, "renew", RenewedRow(draft[tx[c].step]), Null)

Complete(c) ==
  OwnerWrite(c, "complete", CompletedRow(draft[tx[c].step]), "STEP_SUCCEEDED")

Fail(c) ==
  LET new == FailedRow(draft[tx[c].step], tx[c].step, tx[c].retryable)
  IN  OwnerWrite(c, "fail", new,
                 IF new.status = "RETRY_WAIT" THEN "STEP_RETRY_SCHEDULED"
                                              ELSE "STEP_DEAD_LETTERED")

-----------------------------------------------------------------------------
(* recoverExpiredSteps, promoteDueRetries: one statement each               *)

BeginSweep(c, op) ==
  /\ tx[c].op = "idle"
  /\ tx' = [tx EXCEPT ![c] = Snapshot([Idle EXCEPT !.op = op])]
  /\ UNCHANGED <<now, row, history, lock, draft, note>>

\* Mutant: recovery ignores the attempt budget.
RecoveredRowAlwaysReady(r, s) ==
  [r EXCEPT !.status = "READY", !.owner = Null, !.deadline = Null]

\* Mutant: recovery resets the generation.
RecoveredRowNewGeneration(r, s) ==
  [r EXCEPT !.status = IF r.attempts < MaxAttempts[s] THEN "READY" ELSE "DEAD_LETTERED",
            !.owner = Null, !.deadline = Null, !.version = 0]

RecoveredRow(r, s) ==
  [r EXCEPT !.status = IF r.attempts < MaxAttempts[s] THEN "READY" ELSE "DEAD_LETTERED",
            !.owner = Null, !.deadline = Null]

RecoveryEvent(old, new) ==
  EventOf(IF new.status = "READY" THEN "LEASE_RECOVERED" ELSE "STEP_DEAD_LETTERED",
          old.owner, new)

ResolveExpired(c) ==
  /\ tx[c].op = "recover" /\ ScanDone(tx[c])
  /\ draft' = [s \in Steps |-> IF s \in tx[c].picked THEN RecoveredRow(draft[s], s)
                                                    ELSE draft[s]]
  /\ note' = [s \in Steps |-> IF s \in tx[c].picked THEN RecoveryEvent(draft[s], draft'[s])
                                                   ELSE note[s]]
  /\ tx' = [tx EXCEPT ![c].at = "commit"]
  /\ UNCHANGED <<now, row, history, lock>>

PromotedRow(r) == [r EXCEPT !.status = "READY"]

PromoteDue(c) ==
  /\ tx[c].op = "promote" /\ ScanDone(tx[c])
  /\ draft' = [s \in Steps |-> IF s \in tx[c].picked THEN PromotedRow(draft[s])
                                                    ELSE draft[s]]
  /\ note' = [s \in Steps |-> IF s \in tx[c].picked THEN EventOf("RETRY_READY", Null, draft'[s])
                                                   ELSE note[s]]
  /\ tx' = [tx EXCEPT ![c].at = "commit"]
  /\ UNCHANGED <<now, row, history, lock>>

-----------------------------------------------------------------------------
(* The end of a transaction                                                *)

\* Mutant: the locks outlive the transaction.
ReleaseNothing(c) == lock

Release(c) == [s \in Steps |-> IF lock[s] = c THEN Null ELSE lock[s]]

Commit(c) ==
  /\ tx[c].at = "commit"
  /\ row' = [s \in Steps |-> IF lock[s] = c THEN draft[s] ELSE row[s]]
  /\ history' = [s \in Steps |-> IF lock[s] = c /\ note[s] # Null
                                 THEN Append(history[s], note[s]) ELSE history[s]]
  /\ note' = [s \in Steps |-> IF lock[s] = c THEN Null ELSE note[s]]
  /\ lock' = Release(c)
  /\ tx' = [tx EXCEPT ![c] = Idle]
  /\ UNCHANGED <<now, draft>>

\* Mutant: the event is written outside the transaction it describes.
AbortKeepsEvents(c) ==
  /\ tx[c].op # "idle"
  /\ draft' = [s \in Steps |-> IF lock[s] = c THEN row[s] ELSE draft[s]]
  /\ history' = [s \in Steps |-> IF lock[s] = c /\ note[s] # Null
                                 THEN Append(history[s], note[s]) ELSE history[s]]
  /\ note' = [s \in Steps |-> IF lock[s] = c THEN Null ELSE note[s]]
  /\ lock' = Release(c)
  /\ tx' = [tx EXCEPT ![c] = Idle]
  /\ UNCHANGED <<now, row>>

Abort(c) ==
  /\ tx[c].op # "idle"
  /\ draft' = [s \in Steps |-> IF lock[s] = c THEN row[s] ELSE draft[s]]
  /\ note' = [s \in Steps |-> IF lock[s] = c THEN Null ELSE note[s]]
  /\ lock' = Release(c)
  /\ tx' = [tx EXCEPT ![c] = Idle]
  /\ UNCHANGED <<now, row, history>>

Begin(c) ==
  \/ \E w \in Workers : BeginClaim(c, w)
  \/ \E op \in Sweeps : BeginSweep(c, op)
  \/ \E op \in OwnerOps, s \in Steps, w \in Workers, retryable \in BOOLEAN :
       \E v \in 1 .. row[s].version : BeginOwnerWrite(c, op, s, w, v, retryable)

\* Everything the session does inside an open transaction, but waiting.
Run(c) ==
  \/ SelectCandidate(c) \/ SkipLocked(c) \/ LockCandidate(c)
  \/ ClaimNothing(c) \/ ClaimUpdate(c)
  \/ Reject(c) \/ Renew(c) \/ Complete(c) \/ Fail(c)
  \/ ResolveExpired(c) \/ PromoteDue(c)
  \/ Commit(c)

Next ==
  \/ Tick
  \/ \E c \in Sessions : Begin(c) \/ LockRow(c) \/ Run(c) \/ Abort(c)

Spec == Init /\ [][Next]_vars

-----------------------------------------------------------------------------
(* Safety                                                                  *)

\* The status an event's transition left the step in.
StatusAfter(type) ==
  CASE type \in {"LEASE_RECOVERED", "RETRY_READY"} -> "READY"
    [] type = "STEP_CLAIMED"         -> "RUNNING"
    [] type = "STEP_SUCCEEDED"       -> "SUCCEEDED"
    [] type = "STEP_RETRY_SCHEDULED" -> "RETRY_WAIT"
    [] type = "STEP_DEAD_LETTERED"   -> "DEAD_LETTERED"

\* Where a history stands after its first i events, and how often the step had
\* been claimed by then.
StatusAt(h, i) == IF i = 0 THEN "READY" ELSE StatusAfter(h[i].type)

Claims(h, i) == Cardinality({j \in 1 .. i : h[j].type = "STEP_CLAIMED"})

\* Each event of the history is a legal transition and carries the generation it
\* happened in.
IsLegalHistory(h) ==
  \A i \in 1 .. Len(h) : /\ IsLegal(StatusAt(h, i - 1), StatusAt(h, i))
                         /\ h[i].version = Claims(h, i)
                         /\ h[i].attempts = Claims(h, i)

\* Replaying a step's committed events from READY follows the lifecycle table,
\* each event carries the generation it happened in, and the replay ends in
\* the committed row: no transition commits without its event, and no event
\* without its transition (db/step-events.ts, "part of the transition").
HistoryExplainsRow ==
  \A s \in Steps :
    LET h == history[s]
    IN  /\ IsLegalHistory(h)
        /\ row[s].status = StatusAt(h, Len(h))
        /\ row[s].version = Claims(h, Len(h))
        /\ row[s].attempts = Claims(h, Len(h))
        /\ row[s].result = IF row[s].status = "SUCCEEDED" THEN Claims(h, Len(h)) ELSE 0

\* A step that still has to run can still be claimed: the claim's
\* attempt_count < max_attempts never shuts out a READY or waiting step, and
\* no step is attempted more often than its budget (claim-step.ts,
\* record-step-failure.ts, recover-expired-steps.ts share the budget).
BudgetNeverStrands ==
  \A s \in Steps :
    /\ row[s].attempts <= MaxAttempts[s]
    /\ row[s].status \in {"READY", "RETRY_WAIT"} => row[s].attempts < MaxAttempts[s]

\* ClaimConsistencyError is never thrown: the row a claim has locked and
\* re-checked is still READY and within budget when its UPDATE runs
\* (claim-step.ts).
ClaimUpdateFindsItsRow ==
  \A c \in Sessions :
    tx[c].op = "claim" /\ tx[c].at = "visit" =>
      \A s \in tx[c].picked : /\ lock[s] = c
                              /\ draft[s].status = "READY"
                              /\ draft[s].attempts < MaxAttempts[s]

\* While a step is RUNNING, either its owner writes, presenting the current
\* generation before its deadline, or a sweep takes it at or after the deadline.
WrittenWithinBoundary(s) ==
  row[s].status = "RUNNING" /\ draft'[s] # draft[s] /\ draft'[s] # row[s] =>
    LET t == tx[lock[s]]
    IN  \/ /\ now < row[s].deadline
           /\ t.worker = row[s].owner /\ t.version = row[s].version
        \/ /\ row[s].deadline <= now
           /\ draft'[s].status \in {"READY", "DEAD_LETTERED"}
           /\ draft'[s].owner = Null /\ t.op = "recover"

\* At any instant a lease is either its owner's or the sweep's, never both and
\* never a stale generation's - however long the writer waited for the lock
\* (renew-step-lease.ts, complete-step.ts, record-step-failure.ts,
\* recover-expired-steps.ts: "the exact complement").
LeaseBoundary == [][\A s \in Steps : WrittenWithinBoundary(s)]_vars

\* An expired row nobody has written in time stays as it is until a recovery,
\* recorded under the name of the owner that lost it, replaces it.
OnlyRecoveryFollowsExpiry(s) ==
  row[s].status = "RUNNING" /\ row[s].deadline <= now /\ draft[s] = row[s] =>
    /\ row'[s] = row[s]
    /\ draft'[s] # row[s] =>
         note'[s] \in {EventOf(type, row[s].owner, row[s]) :
                         type \in {"LEASE_RECOVERED", "STEP_DEAD_LETTERED"}}

\* Once the deadline has passed and nobody holds the row with a write decided
\* in time, the generation is over: it is not renewed, completed or failed
\* (renew-step-lease.ts: "a boundary the owner cannot cross back over").
ExpiryIsFinal == [][\A s \in Steps : OnlyRecoveryFollowsExpiry(s)]_vars

Advances(s) ==
  /\ row'[s].version >= row[s].version
  /\ row'[s].attempts - row[s].attempts = row'[s].version - row[s].version
  /\ row[s].status \in Terminal => row'[s] = row[s]
  /\ row[s].status = "RUNNING" /\ row'[s].status = "RUNNING" =>
       row'[s].version = row[s].version /\ row'[s].deadline >= row[s].deadline
  /\ Len(history'[s]) >= Len(history[s])
  /\ \A i \in 1 .. Len(history[s]) : history'[s][i] = history[s][i]

\* Generations only advance: versions and attempts never fall and grow
\* together, a terminal row never changes, history is only appended to, and
\* within one generation the deadline only moves forward (renew-step-lease.ts:
\* "the deadline only moves forward through a successful renewal, and
\* lease_version never goes back").
GenerationsOnlyAdvance == [][\A s \in Steps : Advances(s)]_vars

\* A session that waits for a row lock holds none, so row locks cannot form a
\* cycle: owner writes lock one row and always end their transaction, also when
\* they are rejected; sweeps and claims, which lock several, never wait
\* (claim-step.ts, recover-expired-steps.ts, promote-due-retries.ts: SKIP LOCKED).
WaitersHoldNothing ==
  \A c \in Sessions : tx[c].at = "lock" => \A s \in Steps : lock[s] # c

-----------------------------------------------------------------------------
(* The inductive invariant                                                 *)

\* A row lock belongs to an open transaction that has not yet ended, and an
\* owner write locks no row but its own.
LocksAreHeldByTransactions ==
  \A s \in Steps :
    lock[s] # Null =>
      \/ /\ tx[lock[s]].op \in {"claim"} \cup Sweeps
         /\ tx[lock[s]].at \in {"visit", "commit"}
      \/ /\ tx[lock[s]].op \in OwnerOps
         /\ tx[lock[s]].at \in {"authorize", "commit"}
         /\ tx[lock[s]].step = s

\* Only a transaction about to commit has written anything.
DraftsAreLocked ==
  \A s \in Steps :
    (lock[s] = Null \/ tx[lock[s]].at # "commit") => draft[s] = row[s] /\ note[s] = Null

\* Where each kind of transaction can stand, and what it works on.
TransactionShape ==
  \A c \in Sessions :
    /\ tx[c].op = "idle" <=> tx[c].at = "idle"
    /\ tx[c].at = "select" => tx[c].op = "claim" /\ tx[c].picked = {}
    /\ tx[c].at = "visit" => tx[c].op \in {"claim"} \cup Sweeps
    /\ tx[c].at \in {"lock", "authorize"} => tx[c].op \in OwnerOps
    /\ tx[c].op = "claim" => tx[c].worker \in Workers
    /\ tx[c].op \in OwnerOps => tx[c].step \in Steps /\ tx[c].worker \in Workers
    /\ tx[c].at = "authorize" => lock[tx[c].step] = c

\* Until a scan writes, every candidate it picked is locked and still matches.
PickedStillMatch ==
  \A c \in Sessions : \A s \in tx[c].picked :
    tx[c].at = "visit" => lock[s] = c /\ Matches(tx[c], s)

\* What holds of any version of a step's row, committed or not.
RowShape(r, s) ==
  /\ r.status \notin {"PENDING", "CANCELLED"}
  /\ r.attempts <= MaxAttempts[s]
  /\ r.status \in {"READY", "RETRY_WAIT"} => r.attempts < MaxAttempts[s]
  /\ IF r.status = "RUNNING"
     THEN /\ r.owner \in Workers /\ r.version > 0
          /\ r.deadline \in Nat /\ r.deadline <= now + LeaseDuration
     ELSE r.owner = Null /\ r.deadline = Null

RowsAreSound == \A s \in Steps : RowShape(row[s], s) /\ RowShape(draft[s], s)

\* An uncommitted version of a row follows its committed version.
Follows(new, old) ==
  \/ new = old
  \/ /\ old.status \notin Terminal
     /\ new.version >= old.version
     /\ new.attempts - old.attempts = new.version - old.version
     /\ old.status = "RUNNING" /\ new.status = "RUNNING" =>
          new.version = old.version /\ new.deadline >= old.deadline

DraftsFollowRows == \A s \in Steps : Follows(draft[s], row[s])

IInv ==
  /\ TypeOK
  /\ LocksAreHeldByTransactions
  /\ DraftsAreLocked
  /\ TransactionShape
  /\ PickedStillMatch
  /\ RowsAreSound
  /\ DraftsFollowRows

-----------------------------------------------------------------------------
(* What a transaction is about to commit                                   *)

\* The change of a row that a transaction may have decided by now, whenever it
\* commits: what the clock said stays true, what it granted only shrinks.
Decided(op, old, new, s) ==
  /\ op # "fail" => new.availableAt = old.availableAt
  /\ op # "complete" => new.result = old.result
  /\ op # "claim" => new.version = old.version /\ new.attempts = old.attempts
  /\ op \in OwnerOps \cup {"recover"} => old.status = "RUNNING"
  /\ op = "claim" =>
       /\ old.status = "READY" /\ old.availableAt <= now /\ old.attempts < MaxAttempts[s]
       /\ new.status = "RUNNING"
       /\ new.version = old.version + 1 /\ new.attempts = old.attempts + 1
  /\ op = "renew" => new.status = "RUNNING" /\ new.owner = old.owner
  /\ op = "complete" => new.status = "SUCCEEDED" /\ new.result = old.version
  /\ op = "fail" =>
       \/ new.status = "DEAD_LETTERED" /\ new.availableAt = old.availableAt
       \/ /\ new.status = "RETRY_WAIT" /\ old.attempts < MaxAttempts[s]
          /\ new.availableAt <= now + BackoffUnit * BackoffFactor(old.attempts)
  /\ op = "recover" =>
       /\ old.deadline <= now
       /\ new.status = IF old.attempts < MaxAttempts[s] THEN "READY" ELSE "DEAD_LETTERED"
  /\ op = "promote" =>
       old.status = "RETRY_WAIT" /\ old.availableAt <= now /\ new.status = "READY"

\* The rows that the session's transaction has changed.
Changed(c) == {s \in Steps : lock[s] = c /\ draft[s] # row[s]}

\* Each changes what its operation may change: one row, or rows of its batch.
WritesAreDecided ==
  \A c \in Sessions :
    /\ tx[c].begun <= now
    /\ Cardinality(tx[c].picked) <= Limit(tx[c].op)
    /\ \A s \in Changed(c) : /\ Decided(tx[c].op, row[s], draft[s], s)
                             /\ IF tx[c].op \in Sweeps THEN s \in tx[c].picked
                                                       ELSE Changed(c) = {s}

RefinementInv == IInv /\ WritesAreDecided

-----------------------------------------------------------------------------
(* What a transaction is about to add to the history                       *)

\* Every attempt is a generation, and the result is the last generation's.
GenerationsAgree(r) ==
  /\ r.attempts = r.version
  /\ r.result = IF r.status = "SUCCEEDED" THEN r.version ELSE 0

\* The event says what has become of the row.
Records(e, old, new) ==
  /\ new.status = StatusAfter(e.type)
  /\ IsLegal(old.status, new.status)
  /\ new.version = old.version + (IF e.type = "STEP_CLAIMED" THEN 1 ELSE 0)
  /\ e.version = new.version /\ e.attempts = new.attempts

\* An uncommitted event records the uncommitted change of its row, made by an
\* owner under the generation it presented; without an event the row keeps its
\* status and its generation.
NotesExplainDrafts ==
  \A s \in Steps :
    /\ GenerationsAgree(row[s]) /\ GenerationsAgree(draft[s])
    /\ IF note[s] = Null
       THEN draft[s].status = row[s].status /\ draft[s].version = row[s].version
       ELSE /\ Records(note[s], row[s], draft[s])
            /\ tx[lock[s]].op \in OwnerOps => note[s].version = tx[lock[s]].version

HistoryInv == IInv /\ NotesExplainDrafts /\ HistoryExplainsRow

StoreInv == RefinementInv /\ HistoryInv

-----------------------------------------------------------------------------
(* The transactions implement the atomic queue                             *)

Left(deadline) == IF deadline > now THEN deadline - now ELSE 0

QueueRowOf(r) ==
  [status |-> r.status, owner |-> r.owner, version |-> r.version,
   attempts |-> r.attempts, result |-> r.result,
   leaseLeft |-> IF r.status = "RUNNING" THEN Left(r.deadline) ELSE 0,
   waitLeft |-> Left(r.availableAt)]

Queue == INSTANCE StepQueue
           WITH step <- [s \in Steps |-> QueueRowOf(row[s])],
                InitWait <- InitAvailable

\* Every interleaving of transactions, lock waits, skips, aborts and late
\* commits changes the committed rows exactly as some sequence of atomic
\* operations would: no lost update, no write from a stale snapshot, no
\* half-done batch (the concurrency notes of claim-step.ts,
\* renew-step-lease.ts and recover-expired-steps.ts).
ImplementsQueue == Queue!QueueSpec
=============================================================================
