--------------------------- MODULE StepLifecycle ---------------------------
(***************************************************************************)
(* The lifecycle of a step: domain/step-status.ts and                      *)
(* domain/step-transitions.ts, the vocabulary of its history, and the      *)
(* retry backoff of record-step-failure.ts.                                *)
(***************************************************************************)
EXTENDS Naturals

Status == {"PENDING", "READY", "RUNNING", "RETRY_WAIT",
           "SUCCEEDED", "DEAD_LETTERED", "CANCELLED"}

Terminal == {"SUCCEEDED", "DEAD_LETTERED", "CANCELLED"}

\* LEGAL_TRANSITIONS: the statuses that may follow each status.
LegalTransitions ==
  [PENDING       |-> {"READY", "CANCELLED"},
   READY         |-> {"RUNNING", "CANCELLED"},
   RUNNING       |-> {"SUCCEEDED", "RETRY_WAIT", "DEAD_LETTERED", "READY"},
   RETRY_WAIT    |-> {"READY", "CANCELLED"},
   SUCCEEDED     |-> {},
   DEAD_LETTERED |-> {},
   CANCELLED     |-> {}]

IsLegal(from, to) == to \in LegalTransitions[from]

\* One value per committed transition (STEP_EVENT_TYPES).
EventType == {"STEP_CLAIMED", "STEP_SUCCEEDED", "STEP_RETRY_SCHEDULED",
              "STEP_DEAD_LETTERED", "LEASE_RECOVERED", "RETRY_READY"}

\* power(2, least(greatest(attempt_count - 1, 0), 3)): how many backoff units
\* (500 ms) a step waits after the given attempt failed.
BackoffFactor(attempt) ==
  CASE attempt <= 1 -> 1
    [] attempt = 2  -> 2
    [] attempt = 3  -> 4
    [] OTHER        -> 8
=============================================================================
