----------------------------- MODULE StepQueue -----------------------------
(***************************************************************************)
(* What the steps table promises its callers: a queue of steps changed by  *)
(* atomic operations.  StepStore implements it, and WorkerRuntime uses it. *)
(*                                                                         *)
(* There are no transactions, locks or snapshots here.  An operation takes *)
(* effect when its transaction commits.  The database clock is represented *)
(* by what is left of a lease and of a wait, which keeps the state finite  *)
(* however long the system runs.  A transaction may dwell between deciding *)
(* and committing, so a new lease or wait may be partly used up when it    *)
(* becomes visible, and an owner write decided in time may commit late.    *)
(***************************************************************************)
EXTENDS StepLifecycle, Integers, FiniteSets

CONSTANTS Steps, Workers, Null, MaxAttempts, InitWait, LeaseDuration,
          BackoffUnit, BatchLimit

VARIABLE step

QueueRow ==
  [status : Status, owner : Workers \cup {Null}, version : Nat, attempts : Nat,
   leaseLeft : Nat, waitLeft : Nat, result : Nat]

QueueTypeOK == step \in [Steps -> QueueRow]

QueueInit ==
  step = [s \in Steps |->
            [status |-> "READY", owner |-> Null, version |-> 0, attempts |-> 0,
             leaseLeft |-> 0, waitLeft |-> InitWait[s], result |-> 0]]

Less(n) == IF n = 0 THEN 0 ELSE n - 1

Tick ==
  step' = [s \in Steps |-> [step[s] EXCEPT !.leaseLeft = Less(@), !.waitLeft = Less(@)]]

CanClaim(s) ==
  /\ step[s].status = "READY"
  /\ step[s].waitLeft = 0
  /\ step[s].attempts < MaxAttempts[s]

Claimed(s, w, left) ==
  [step[s] EXCEPT !.status = "RUNNING", !.owner = w, !.version = @ + 1,
                  !.attempts = @ + 1, !.leaseLeft = left]

Claim(s, w) ==
  /\ CanClaim(s)
  /\ \E left \in 0 .. LeaseDuration : step' = [step EXCEPT ![s] = Claimed(s, w, left)]

\* Mutant: a reused worker id passes for the generation.
OwnsByName(s, w, v) == step[s].status = "RUNNING" /\ step[s].owner = w

\* The owner of this generation, as far as the row tells.
Owns(s, w, v) ==
  step[s].status = "RUNNING" /\ step[s].owner = w /\ step[s].version = v

Renew(s, w, v) ==
  /\ Owns(s, w, v)
  /\ \E left \in step[s].leaseLeft .. LeaseDuration :
       step' = [step EXCEPT ![s].leaseLeft = left]

\* RUNNING ends: nobody owns the row any more.
Vacate(s, status) ==
  [step[s] EXCEPT !.status = status, !.owner = Null, !.leaseLeft = 0]

Complete(s, w, v) ==
  /\ Owns(s, w, v)
  /\ step' = [step EXCEPT ![s] = [Vacate(s, "SUCCEEDED") EXCEPT !.result = v]]

Retry(s, w, v) ==
  /\ Owns(s, w, v)
  /\ step[s].attempts < MaxAttempts[s]
  /\ \E left \in 0 .. BackoffUnit * BackoffFactor(step[s].attempts) :
       step' = [step EXCEPT ![s] = [Vacate(s, "RETRY_WAIT") EXCEPT !.waitLeft = left]]

GiveUp(s, w, v) ==
  /\ Owns(s, w, v)
  /\ step' = [step EXCEPT ![s] = Vacate(s, "DEAD_LETTERED")]

\* A sweep takes a batch of rows whose leases have run out.
Recover(batch) ==
  /\ \A s \in batch : step[s].status = "RUNNING" /\ step[s].leaseLeft = 0
  /\ step' = [s \in Steps |->
                IF s \notin batch THEN step[s]
                ELSE Vacate(s, IF step[s].attempts < MaxAttempts[s]
                               THEN "READY" ELSE "DEAD_LETTERED")]

Promote(batch) ==
  /\ \A s \in batch : step[s].status = "RETRY_WAIT" /\ step[s].waitLeft = 0
  /\ step' = [s \in Steps |-> IF s \in batch THEN [step[s] EXCEPT !.status = "READY"]
                                             ELSE step[s]]

Batches == {batch \in SUBSET Steps : batch # {} /\ Cardinality(batch) <= BatchLimit}

QueueNext ==
  \/ Tick
  \/ \E s \in Steps, w \in Workers : Claim(s, w)
  \/ \E s \in Steps, w \in Workers :
       LET v == step[s].version
       IN  Renew(s, w, v) \/ Complete(s, w, v) \/ Retry(s, w, v) \/ GiveUp(s, w, v)
  \/ \E batch \in Batches : Recover(batch) \/ Promote(batch)

QueueSpec == QueueInit /\ [][QueueNext]_step
=============================================================================
