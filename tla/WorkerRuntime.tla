--------------------------- MODULE WorkerRuntime ---------------------------
(***************************************************************************)
(* The processes around the queue: workers that claim, execute, renew and  *)
(* report (worker/worker-loop.ts, worker.ts) and the coordinator that      *)
(* sweeps (coordinator/recovery-loop.ts).  They share nothing but the      *)
(* steps table, which is the atomic queue of StepQueue here; StepStore     *)
(* implements that queue.                                                  *)
(*                                                                         *)
(* A process may be killed at any point and restarted under the same       *)
(* worker id.  A write may fail with its outcome unknown: the request it   *)
(* leaves behind is an orphan, which commits later or never.               *)
(***************************************************************************)
EXTENDS StepQueue

CONSTANT MaxOrphans   \* bound: abandoned requests still at the database

ASSUME WorkerRuntimeAssumption ==
  /\ MaxAttempts \in [Steps -> Nat] /\ InitWait \in [Steps -> Nat]
  /\ LeaseDuration \in Nat /\ BackoffUnit \in Nat
  /\ Null \notin Workers \cup Steps

VARIABLES
  proc,      \* each worker process: where its loop is, and on what
  renewal,   \* the renewal loop of the step it is executing
  stopping,  \* SIGTERM received, or the database password rejected
  orphans,   \* requests whose sender no longer waits for them
  coord,     \* the sweep the coordinator is about to run
  runs,      \* how often the executor was entered for each generation
  finished   \* the generations whose executor returned a result

processes == <<proc, renewal, stopping>>
ghosts == <<runs, finished>>
vars == <<step, proc, renewal, stopping, orphans, coord, runs, finished>>

Outcomes == {"ok", "error", "invalid"}

Down == [at |-> "down", step |-> Null, version |-> 0, outcome |-> "ok"]

Requests ==
  [op : {"claim", "renew", "report"}, worker : Workers, step : Steps \cup {Null},
   version : Nat, outcome : Outcomes]

TypeOK ==
  /\ QueueTypeOK
  /\ proc \in [Workers -> [at : {"down", "polling", "claiming", "claimed", "executing",
                                 "draining", "reporting"},
                           step : Steps \cup {Null}, version : Nat, outcome : Outcomes]]
  /\ renewal \in [Workers -> {"off", "waiting", "writing"}]
  /\ stopping \in [Workers -> BOOLEAN]
  /\ orphans \in SUBSET Requests
  /\ coord \in {"recovering", "promoting", "sleeping"}
  /\ DOMAIN runs = Steps /\ \A s \in Steps : runs[s] \in [1 .. MaxAttempts[s] -> Nat]
  /\ finished \in SUBSET (Steps \X Nat)

Init ==
  /\ QueueInit
  /\ proc = [w \in Workers |-> Down]
  /\ renewal = [w \in Workers |-> "off"]
  /\ stopping = [w \in Workers |-> FALSE]
  /\ orphans = {}
  /\ coord = "recovering"
  /\ runs = [s \in Steps |-> [v \in 1 .. MaxAttempts[s] |-> 0]]
  /\ finished = {}

Time == Tick /\ UNCHANGED <<processes, orphans, coord, ghosts>>

-----------------------------------------------------------------------------
(* runWorkerLoop                                                           *)

\* A process starts, or is started again, under its worker id.
Up(w) ==
  /\ proc[w].at = "down"
  /\ proc' = [proc EXCEPT ![w].at = "polling"]
  /\ stopping' = [stopping EXCEPT ![w] = FALSE]
  /\ UNCHANGED <<step, renewal, orphans, coord, ghosts>>

\* The head of the loop: `while (!signal.aborted)`.
BeginClaim(w) ==
  /\ proc[w].at = "polling" /\ ~stopping[w]
  /\ proc' = [proc EXCEPT ![w].at = "claiming"]
  /\ UNCHANGED <<step, renewal, stopping, orphans, coord, ghosts>>

Stop(w) ==
  /\ proc[w].at = "polling" /\ stopping[w]
  /\ proc' = [proc EXCEPT ![w] = Down]
  /\ UNCHANGED <<step, renewal, stopping, orphans, coord, ghosts>>

\* The claim commits.  Until its reply has arrived nothing is executed.
ClaimStep(w) ==
  /\ proc[w].at = "claiming"
  /\ \E s \in Steps :
       /\ Claim(s, w)
       /\ proc' = [proc EXCEPT ![w] = [at |-> "claimed", step |-> s,
                                       version |-> step[s].version + 1, outcome |-> "ok"]]
  /\ UNCHANGED <<renewal, stopping, orphans, coord, ghosts>>

\* Nothing eligible, or every eligible row was locked.
ClaimNothing(w) ==
  /\ proc[w].at = "claiming"
  /\ proc' = [proc EXCEPT ![w].at = "polling"]
  /\ UNCHANGED <<step, renewal, stopping, orphans, coord, ghosts>>

\* Mutant: a worker that is told to stop before it executes tries again later.
StartExecutionTwice(w) ==
  /\ proc[w].at = "claimed"
  /\ proc' = [proc EXCEPT ![w].at = IF stopping[w] THEN "claimed" ELSE "executing"]
  /\ renewal' = [renewal EXCEPT ![w] = "waiting"]
  /\ runs' = [runs EXCEPT ![proc[w].step][proc[w].version] = @ + 1]
  /\ UNCHANGED <<step, stopping, orphans, coord, finished>>

\* startLeaseRenewal, then executeStep.
StartExecution(w) ==
  /\ proc[w].at = "claimed"
  /\ proc' = [proc EXCEPT ![w].at = "executing"]
  /\ renewal' = [renewal EXCEPT ![w] = "waiting"]
  /\ runs' = [runs EXCEPT ![proc[w].step][proc[w].version] = @ + 1]
  /\ UNCHANGED <<step, stopping, orphans, coord, finished>>

\* Mutant: a failed execution goes straight to its report, renewal left running.
FinishWithoutDraining(w) ==
  /\ proc[w].at = "executing"
  /\ \E outcome \in Outcomes :
       /\ proc' = [proc EXCEPT ![w].at = IF outcome = "ok" THEN "draining" ELSE "reporting",
                               ![w].outcome = outcome]
       /\ finished' = IF outcome = "ok" THEN finished \cup {<<proc[w].step, proc[w].version>>}
                                        ELSE finished
  /\ UNCHANGED <<step, renewal, stopping, orphans, coord, runs>>

\* The executor returns or throws.  The renewal loop is told to stop.
FinishExecution(w) ==
  /\ proc[w].at = "executing"
  /\ \E outcome \in Outcomes :
       /\ proc' = [proc EXCEPT ![w].at = "draining", ![w].outcome = outcome]
       /\ finished' = IF outcome = "ok" THEN finished \cup {<<proc[w].step, proc[w].version>>}
                                        ELSE finished
  /\ UNCHANGED <<step, renewal, stopping, orphans, coord, runs>>

\* renewal.stop() has resolved: no renewal write is in flight.
BeginReport(w) ==
  /\ proc[w].at = "draining" /\ renewal[w] = "off"
  /\ proc' = [proc EXCEPT ![w].at = "reporting"]
  /\ UNCHANGED <<step, renewal, stopping, orphans, coord, ghosts>>

\* Whatever became of the report, the loop goes on.
NextIteration(w) ==
  proc' = [proc EXCEPT ![w] = [at |-> "polling", step |-> Null, version |-> 0, outcome |-> "ok"]]

\* completeStepSuccess or recordStepFailure commits.
Report(s, w, v, outcome) ==
  \/ outcome = "ok" /\ Complete(s, w, v)
  \/ outcome = "error" /\ Retry(s, w, v)
  \/ /\ outcome = "invalid" \/ (outcome = "error" /\ step[s].attempts >= MaxAttempts[s])
     /\ GiveUp(s, w, v)

\* The row may turn the owner write away: another generation, or no time left.
Refuses(s, w, v) == ~Owns(s, w, v) \/ step[s].leaseLeft = 0

ReportCommits(w) ==
  /\ proc[w].at = "reporting"
  /\ Report(proc[w].step, w, proc[w].version, proc[w].outcome)
  /\ NextIteration(w)
  /\ UNCHANGED <<renewal, stopping, orphans, coord, ghosts>>

ReportRejected(w) ==
  /\ proc[w].at = "reporting"
  /\ Refuses(proc[w].step, w, proc[w].version)
  /\ NextIteration(w)
  /\ UNCHANGED <<step, renewal, stopping, orphans, coord, ghosts>>

-----------------------------------------------------------------------------
(* Requests that are abandoned                                             *)

\* What a worker has at the database right now.
InFlight(w) ==
  LET request(op) == [op |-> op, worker |-> w, step |-> proc[w].step,
                      version |-> proc[w].version, outcome |-> proc[w].outcome]
  IN  {request(op) : op \in
         {o \in {"claim", "renew", "report"} : \/ o = "claim" /\ proc[w].at = "claiming"
                                               \/ o = "renew" /\ renewal[w] = "writing"
                                               \/ o = "report" /\ proc[w].at = "reporting"}}

\* Each of them was lost, or may still commit.
Abandon(requests) ==
  \E kept \in SUBSET requests :
    /\ orphans' = orphans \cup kept
    /\ Cardinality(orphans') <= MaxOrphans

\* The write failed and its outcome is unknown to the worker, which goes on.
ReportErrors(w) ==
  /\ proc[w].at = "reporting"
  /\ Abandon({r \in InFlight(w) : r.op = "report"})
  /\ NextIteration(w)
  /\ UNCHANGED <<step, renewal, stopping, coord, ghosts>>

\* The process is killed, or its claim throws.
Crash(w) ==
  /\ proc[w].at # "down"
  /\ Abandon(InFlight(w))
  /\ proc' = [proc EXCEPT ![w] = Down]
  /\ renewal' = [renewal EXCEPT ![w] = "off"]
  /\ UNCHANGED <<step, stopping, coord, ghosts>>

\* SIGTERM, SIGINT, or onCredentialRejected.
Terminate(w) ==
  /\ proc[w].at # "down" /\ ~stopping[w]
  /\ stopping' = [stopping EXCEPT ![w] = TRUE]
  /\ UNCHANGED <<step, proc, renewal, orphans, coord, ghosts>>

OrphanCommits ==
  /\ \E r \in orphans :
       /\ \/ r.op = "claim" /\ \E s \in Steps : Claim(s, r.worker)
          \/ r.op = "renew" /\ Renew(r.step, r.worker, r.version)
          \/ r.op = "report" /\ Report(r.step, r.worker, r.version, r.outcome)
       /\ orphans' = orphans \ {r}
  /\ UNCHANGED <<processes, coord, ghosts>>

OrphanEnds ==
  /\ \E r \in orphans : orphans' = orphans \ {r}
  /\ UNCHANGED <<step, processes, coord, ghosts>>

-----------------------------------------------------------------------------
(* startLeaseRenewal                                                       *)

SetRenewal(w, at) ==
  /\ renewal' = [renewal EXCEPT ![w] = at]
  /\ UNCHANGED <<proc, stopping, coord, ghosts>>

\* The interval is over.
RenewalFires(w) ==
  /\ renewal[w] = "waiting" /\ proc[w].at = "executing"
  /\ SetRenewal(w, "writing")
  /\ UNCHANGED <<step, orphans>>

RenewalCommits(w) ==
  /\ renewal[w] = "writing"
  /\ Renew(proc[w].step, w, proc[w].version)
  /\ SetRenewal(w, "waiting")
  /\ UNCHANGED orphans

\* A rejected renewal ends the loop for good.
RenewalRejected(w) ==
  /\ renewal[w] = "writing"
  /\ Refuses(proc[w].step, w, proc[w].version)
  /\ SetRenewal(w, "off")
  /\ UNCHANGED <<step, orphans>>

\* A failed renewal is tried again at the next interval.
RenewalErrors(w) ==
  /\ renewal[w] = "writing"
  /\ Abandon({r \in InFlight(w) : r.op = "renew"})
  /\ SetRenewal(w, "waiting")
  /\ UNCHANGED step

\* stop() wakes a waiting renewal loop; a write in flight is waited out.
RenewalStops(w) ==
  /\ renewal[w] = "waiting" /\ proc[w].at = "draining"
  /\ SetRenewal(w, "off")
  /\ UNCHANGED <<step, orphans>>

-----------------------------------------------------------------------------
(* runRecoveryLoop                                                         *)

Sweeping(at, next) ==
  /\ coord = at /\ coord' = next
  /\ UNCHANGED <<processes, orphans, ghosts>>

RecoverySweep(batch) == Sweeping("recovering", "promoting") /\ Recover(batch)

PromotionSweep(batch) == Sweeping("promoting", "sleeping") /\ Promote(batch)

\* Mutant: a failed recovery sweep ends the tick.
SweepFailureEndsTick ==
  /\ \/ Sweeping("recovering", "sleeping")
     \/ Sweeping("promoting", "sleeping")
  /\ UNCHANGED step

\* The sweep found nothing, or failed; either way the other one runs.
SweepDoesNothing ==
  /\ \/ Sweeping("recovering", "promoting")
     \/ Sweeping("promoting", "sleeping")
  /\ UNCHANGED step

CoordinatorWakes == Sweeping("sleeping", "recovering") /\ UNCHANGED step

\* It keeps nothing: killed and restarted, it begins with a recovery sweep.
CoordinatorRestarts ==
  /\ coord # "recovering" /\ coord' = "recovering"
  /\ UNCHANGED <<step, processes, orphans, ghosts>>

Coordinator ==
  \/ \E batch \in Batches : RecoverySweep(batch) \/ PromotionSweep(batch)
  \/ SweepDoesNothing
  \/ CoordinatorWakes
  \/ CoordinatorRestarts

-----------------------------------------------------------------------------

Worker(w) ==
  \/ Up(w) \/ BeginClaim(w) \/ Stop(w) \/ ClaimStep(w) \/ ClaimNothing(w)
  \/ StartExecution(w) \/ FinishExecution(w) \/ BeginReport(w)
  \/ ReportCommits(w) \/ ReportRejected(w) \/ ReportErrors(w)
  \/ Crash(w) \/ Terminate(w)
  \/ RenewalFires(w) \/ RenewalCommits(w) \/ RenewalRejected(w)
  \/ RenewalErrors(w) \/ RenewalStops(w)

Next ==
  \/ Time
  \/ \E w \in Workers : Worker(w)
  \/ OrphanCommits \/ OrphanEnds
  \/ Coordinator

Spec == Init /\ [][Next]_vars

\* Time passes; a killed process is restarted; a live one takes its next step;
\* every request is answered or given up on.  Some worker now and then gets to
\* claim before it is killed, and a row is not locked at every single sweep.
\* Nothing keeps a process from being killed over and over.
Fairness ==
  /\ WF_vars(Time)
  /\ WF_vars(OrphanCommits \/ OrphanEnds)
  /\ WF_vars(Coordinator)
  /\ \A s \in Steps :
       /\ SF_vars(\E batch \in Batches : s \in batch /\ RecoverySweep(batch))
       /\ SF_vars(\E batch \in Batches : s \in batch /\ PromotionSweep(batch))
  /\ SF_vars(\E w \in Workers : BeginClaim(w))
  /\ SF_vars(\E w \in Workers : ClaimStep(w))
  /\ \A w \in Workers :
       /\ WF_vars(Up(w)) /\ WF_vars(Stop(w))
       /\ WF_vars(ClaimStep(w) \/ ClaimNothing(w))
       /\ WF_vars(StartExecution(w)) /\ WF_vars(FinishExecution(w)) /\ WF_vars(BeginReport(w))
       /\ WF_vars(ReportCommits(w) \/ ReportRejected(w) \/ ReportErrors(w))
       /\ WF_vars(RenewalCommits(w) \/ RenewalRejected(w) \/ RenewalErrors(w))
       /\ WF_vars(RenewalStops(w))

FairSpec == Spec /\ Fairness

-----------------------------------------------------------------------------
(* Properties                                                              *)

\* A result is only stored for a generation whose executor returned one, and
\* it is the step's last generation, whatever was lost, repeated or late.
SuccessWasExecuted ==
  \A s \in Steps :
    step[s].status = "SUCCEEDED" =>
      /\ <<s, step[s].result>> \in finished
      /\ step[s].result = step[s].version

\* No generation is executed twice, by two processes or by one that was
\* restarted, so a step is executed at most max_attempts times (ADR 0002).
EachGenerationRunsOnce ==
  \A s \in Steps : \A v \in DOMAIN runs[s] :
    /\ runs[s][v] <= 1
    /\ runs[s][v] = 1 => v <= step[s].version

\* The running generation of a step gets more time.
IsExtended(s) ==
  /\ step[s].status = "RUNNING" /\ step'[s].status = "RUNNING"
  /\ step'[s].version = step[s].version
  /\ step'[s].leaseLeft > step[s].leaseLeft

\* Its own process has it renewed, and has not begun to report.
RenewedInTime(s) ==
  \E w \in Workers :
    /\ renewal[w] = "writing" /\ renewal'[w] = "waiting"
    /\ proc[w].at \in {"executing", "draining"}
    /\ w = step[s].owner /\ proc[w].step = s /\ proc[w].version = step[s].version

\* A renewal of this generation that was given up on commits after all.
RenewedLate(s) ==
  \E r \in orphans \ orphans' :
    r.op = "renew" /\ r.worker = step[s].owner /\ r.step = s /\ r.version = step[s].version

\* A lease grows only by a renewal of its own generation, never by one of an
\* earlier generation under the same worker id, and not while its process reports
\* or after it has let the step go.  The exception is a renewal whose outcome its
\* process never learned: stop() does not wait for that one, and it may still
\* commit, once (worker-loop.ts, startLeaseRenewal and LeaseRenewal.stop).
LeaseGrowsByItsGeneration ==
  [][\A s \in Steps : IsExtended(s) => RenewedInTime(s) \/ RenewedLate(s)]_vars

\* Every claim is an attempt, and the budget covers it.
AttemptsAreClaims ==
  \A s \in Steps : step[s].version = step[s].attempts /\ step[s].attempts <= MaxAttempts[s]

\* What a process holds at each place of its loop.
ProcessShape ==
  \A w \in Workers :
    /\ IF proc[w].at \in {"down", "polling", "claiming"}
       THEN proc[w].step = Null
       ELSE proc[w].step \in Steps /\ proc[w].version \in 1 .. step[proc[w].step].version
    /\ renewal[w] # "off" => proc[w].at \in {"executing", "draining"}
    /\ proc[w].at \in {"draining", "reporting"} /\ proc[w].outcome = "ok"
         => <<proc[w].step, proc[w].version>> \in finished

\* Who has just claimed holds a generation nobody has executed or holds.
ClaimsAreFresh ==
  \A w \in Workers : proc[w].at = "claimed" =>
    /\ runs[proc[w].step][proc[w].version] = 0
    /\ \A x \in Workers \ {w} :
         proc[x].at = "claimed" => <<proc[x].step, proc[x].version>> # <<proc[w].step, proc[w].version>>

\* What an abandoned write may still report was executed.
OrphansAreSound ==
  \A r \in orphans : r.op # "claim" =>
    /\ r.step \in Steps
    /\ r.op = "report" /\ r.outcome = "ok" => <<r.step, r.version>> \in finished

IInv ==
  /\ TypeOK
  /\ AttemptsAreClaims
  /\ SuccessWasExecuted
  /\ ProcessShape
  /\ ClaimsAreFresh
  /\ EachGenerationRunsOnce
  /\ OrphansAreSound

\* Every step is resolved in the end, however often workers are killed and
\* writes are lost: crashes use up the attempt budget.
EveryStepResolves == \A s \in Steps : <>(step[s].status \in Terminal)
=============================================================================
