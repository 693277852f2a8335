---------------------------- MODULE EffectRuntime ----------------------------
(***************************************************************************)
(* WorkerRuntime with its executor (worker/execute-step.ts): what a step's *)
(* task does, and the effect it applies under the step's key.              *)
(*                                                                         *)
(* The effect store is one register per step here: the first request to    *)
(* commit is stored and every later one is handed what is stored.  It is   *)
(* the register of EffectRegister, which IdempotentEffect implements.  An  *)
(* effect that a killed worker has requested may still commit later.       *)
(***************************************************************************)
EXTENDS WorkerRuntime

CONSTANT Tasks   \* what a step may be asked to do

Task ==
  [type : {"hash_after_delay", "fail_then_hash", "idempotent_effect"},
   valid : BOOLEAN,    \* the payload and the task type parse
   failures : Nat]     \* failuresBeforeSuccess

ASSUME EffectRuntimeAssumption == Tasks \subseteq Task

VARIABLES
  task,     \* the task of each step
  effect,   \* the generation whose effect is stored for each step, 0 for none
  late,     \* effect requests whose sender no longer waits for them
  exec,     \* where each worker's executor is
  answers   \* what executors have returned

effects == <<task, effect, late, exec, answers>>

Answer == [step : Steps, version : Nat, value : Nat]

\* Every generation a step may have.
Generations == UNION {{s} \X (1 .. MaxAttempts[s]) : s \in Steps}

EffectTypeOK ==
  /\ TypeOK
  /\ task \in [Steps -> Tasks]
  /\ effect \in [Steps -> Nat]
  /\ late \subseteq Generations
  /\ exec \in [Workers -> [at : {"off", "started", "applying", "delaying"}, value : Nat]]
  /\ answers \subseteq Answer

Off == [at |-> "off", value |-> 0]

EffectInit ==
  /\ Init
  /\ task \in [Steps -> Tasks]
  /\ effect = [s \in Steps |-> 0]
  /\ late = {}
  /\ exec = [w \in Workers |-> Off]
  /\ answers = {}

SetExec(w, at, value) == exec' = [exec EXCEPT ![w] = [at |-> at, value |-> value]]

-----------------------------------------------------------------------------
(* executeStep                                                             *)

Enter(w) ==
  /\ StartExecution(w)
  /\ SetExec(w, "started", 0)
  /\ UNCHANGED <<task, effect, late, answers>>

\* The executor returns a result, or throws.
Leave(w, outcome, value) ==
  /\ FinishExecution(w) /\ proc'[w].outcome = outcome
  /\ SetExec(w, "off", 0)
  /\ answers' = IF outcome = "ok"
                THEN answers \cup {[step |-> proc[w].step, version |-> proc[w].version,
                                    value |-> value]}
                ELSE answers
  /\ UNCHANGED <<task, effect, late>>

\* Mutant: invalid input is reported like any other error.
RejectTaskRetryable(w) ==
  /\ exec[w].at = "started" /\ ~task[proc[w].step].valid
  /\ Leave(w, "error", 0)

\* An unknown type or a payload that does not parse.
RejectTask(w) ==
  /\ exec[w].at = "started" /\ ~task[proc[w].step].valid
  /\ Leave(w, "invalid", 0)

\* failThenHash, on the attempt count of the claim.
FailsDeterministically(w) ==
  /\ exec[w].at = "started"
  /\ LET t == task[proc[w].step]
     IN  t.valid /\ t.type = "fail_then_hash" /\ proc[w].version <= t.failures
  /\ Leave(w, "error", 0)

\* Mutant: the last failure of the payload is not one.
ReturnHashEarly(w) ==
  /\ exec[w].at = "started"
  /\ LET t == task[proc[w].step]
     IN  /\ t.valid /\ t.type # "idempotent_effect"
         /\ t.type = "fail_then_hash" => proc[w].version >= t.failures
  /\ Leave(w, "ok", 0)

\* The hash of the input is the same for every execution.
ReturnHash(w) ==
  /\ exec[w].at = "started"
  /\ LET t == task[proc[w].step]
     IN  /\ t.valid /\ t.type # "idempotent_effect"
         /\ t.type = "fail_then_hash" => proc[w].version > t.failures
  /\ Leave(w, "ok", 0)

\* context.applyEffect under the step's own key.
RequestEffect(w) ==
  /\ exec[w].at = "started"
  /\ task[proc[w].step].valid /\ task[proc[w].step].type = "idempotent_effect"
  /\ SetExec(w, "applying", 0)
  /\ UNCHANGED <<vars, task, effect, late, answers>>

\* Mutant: the key of an effect has the generation in it.
StoredAnew(s, v) == [effect EXCEPT ![s] = v]

\* The first request for a step's key is stored.
Stored(s, v) == IF effect[s] = 0 THEN [effect EXCEPT ![s] = v] ELSE effect

EffectCommits(w) ==
  /\ exec[w].at = "applying"
  /\ effect' = Stored(proc[w].step, proc[w].version)
  /\ SetExec(w, "delaying", effect'[proc[w].step])
  /\ UNCHANGED <<vars, task, late, answers>>

\* The request fails, its outcome unknown: an ordinary error.
EffectErrors(w) ==
  /\ exec[w].at = "applying"
  /\ FinishExecution(w) /\ proc'[w].outcome = "error"
  /\ SetExec(w, "off", 0)
  /\ late' \in {late, late \cup {<<proc[w].step, proc[w].version>>}}
  /\ UNCHANGED <<task, effect, answers>>

\* Mutant: the worker returns what it would have applied.
ReturnOwnEffect(w) == exec[w].at = "delaying" /\ Leave(w, "ok", proc[w].version)

\* delayAfterEffectMs is over; the result is the stored one, applied or reused.
ReturnEffect(w) == exec[w].at = "delaying" /\ Leave(w, "ok", exec[w].value)

Die(w) ==
  /\ Crash(w)
  /\ SetExec(w, "off", 0)
  /\ late' \in IF exec[w].at = "applying"
               THEN {late, late \cup {<<proc[w].step, proc[w].version>>}}
               ELSE {late}
  /\ UNCHANGED <<task, effect, answers>>

LateEffect ==
  \E r \in late :
    /\ late' = late \ {r}
    /\ effect' \in {effect, Stored(r[1], r[2])}
    /\ UNCHANGED <<vars, task, exec, answers>>

Executor(w) ==
  \/ Enter(w) \/ RejectTask(w) \/ FailsDeterministically(w) \/ ReturnHash(w)
  \/ RequestEffect(w) \/ EffectCommits(w) \/ EffectErrors(w) \/ ReturnEffect(w)
  \/ Die(w)

\* What has nothing to do with the execution.
Elsewhere ==
  /\ \/ Time \/ OrphanCommits \/ OrphanEnds \/ Coordinator
     \/ \E w \in Workers :
          \/ Up(w) \/ BeginClaim(w) \/ Stop(w) \/ ClaimStep(w) \/ ClaimNothing(w)
          \/ BeginReport(w) \/ ReportCommits(w) \/ ReportRejected(w) \/ ReportErrors(w)
          \/ Terminate(w)
          \/ RenewalFires(w) \/ RenewalCommits(w) \/ RenewalRejected(w)
          \/ RenewalErrors(w) \/ RenewalStops(w)
  /\ UNCHANGED effects

EffectNext == Elsewhere \/ LateEffect \/ \E w \in Workers : Executor(w)

EffectSpec == EffectInit /\ [][EffectNext]_<<vars, effects>>

-----------------------------------------------------------------------------
(* Properties                                                              *)

\* Whoever executes a step, and however often, the answer is the same, and it
\* is the stored effect: it outlives the process that applied it
\* (execute-step.ts: "makes a re-execution's step result identical to the
\* original's").
ExecutionsAgree ==
  \A a \in answers :
    task[a.step].type = "idempotent_effect" => a.value = effect[a.step] /\ a.value # 0

\* What the executors of a step with an effect have returned for a generation.
Handed(c) ==
  {a.value : a \in {x \in answers : /\ x.step = c[1] /\ x.version = c[2]
                                   /\ task[x.step].type = "idempotent_effect"}}

OneOf(values) == CHOOSE v \in values : TRUE

NoEffect == [request |-> Null, result |-> Null]

\* The row the register of a step holds, and what each generation was told.
RegisterRow(s) ==
  IF effect[s] = 0 THEN NoEffect ELSE [request |-> s, result |-> <<s, effect[s]>>]

ToldTo(c) ==
  IF Handed(c) = {} THEN [outcome |-> "pending", result |-> Null]
  ELSE [outcome |-> IF OneOf(Handed(c)) = c[2] THEN "applied" ELSE "reused",
        result |-> <<c[1], OneOf(Handed(c))>>]

\* Executors get their effects from a register per step, the one that
\* IdempotentEffect implements: each generation is a call under the step's key,
\* killed and late ones included, and what it returns is what a register tells
\* it (execute-step.ts: "the returned result is the stored effect result,
\* whether this execution applied it or reused an earlier one").
Register ==
  INSTANCE EffectRegister
    WITH Calls <- Generations, Keys <- Steps, None <- Null,
         KeyOf <- [c \in Generations |-> c[1]], RequestOf <- [c \in Generations |-> c[1]],
         effects <- [s \in Steps |-> RegisterRow(s)],
         answer <- [c \in Generations |-> ToldTo(c)]

ExecutorsUseARegister == Register!RegisterSpec

\* A step succeeds only with what an executor returned for its last
\* generation, and only where its task may succeed: a valid one, after the
\* failures its payload asks for, counted in claims and not in executions.
SuccessIsEarned ==
  /\ SuccessWasExecuted
  /\ \A s \in Steps :
       step[s].status = "SUCCEEDED" =>
         /\ task[s].valid
         /\ task[s].type = "fail_then_hash" => step[s].attempts > task[s].failures

\* A step is given up for invalid input or when its budget is used up, for
\* nothing else, and invalid input is never tried again by its own report
\* (execute-step.ts: "unchanged invalid input cannot improve on a retry").
GivenUpForAReason ==
  \A s \in Steps :
    /\ step[s].status = "DEAD_LETTERED" =>
         ~task[s].valid \/ step[s].attempts = MaxAttempts[s]
    /\ step[s].status = "RETRY_WAIT" => task[s].valid

\* The executor runs while its process executes, and what it is about to
\* return is what is stored.
ExecutorShape ==
  \A w \in Workers :
    /\ exec[w].at # "off" <=> proc[w].at = "executing"
    /\ exec[w].at \in {"applying", "delaying"} =>
         task[proc[w].step].valid /\ task[proc[w].step].type = "idempotent_effect"
    /\ exec[w].at = "delaying" => exec[w].value = effect[proc[w].step] /\ exec[w].value # 0

\* A failure is reported as invalid input exactly when it is.
Truthful(s, outcome) ==
  (outcome = "invalid" => ~task[s].valid) /\ (outcome = "error" => task[s].valid)

ReportsAreTrue ==
  /\ \A w \in Workers :
       proc[w].at \in {"draining", "reporting"} => Truthful(proc[w].step, proc[w].outcome)
  /\ \A r \in orphans : r.op = "report" => Truthful(r.step, r.outcome)

\* An executor returns a result only where the task may succeed.
ResultsAreEarned ==
  \A f \in finished :
    task[f[1]].valid /\ (task[f[1]].type = "fail_then_hash" => f[2] > task[f[1]].failures)

EffectIInv ==
  /\ EffectTypeOK /\ IInv
  /\ ExecutorShape
  /\ ReportsAreTrue
  /\ ResultsAreEarned
  /\ ExecutionsAgree
  /\ GivenUpForAReason
=============================================================================
