------------------------ MODULE WorkerRuntime_proofs ------------------------
(* Machine-checked proofs about WorkerRuntime and about EffectRuntime, which   *)
(* implements it, for any steps, tasks and worker ids.                         *)
EXTENDS EffectRuntime, TLAPS

-----------------------------------------------------------------------------
(* The queue's operations                                                  *)

LEMMA BackoffInNat == \A a \in Nat : BackoffUnit * BackoffFactor(a) \in Nat
  <1>1. \A a \in Nat : BackoffFactor(a) \in {1, 2, 4, 8}
    BY DEF BackoffFactor
  <1> QED BY <1>1, WorkerRuntimeAssumption

\* What an operation may do to the rows: generations only grow, a success is
\* final, and a new one is of an execution that has finished.
Advances ==
  /\ QueueTypeOK' /\ AttemptsAreClaims'
  /\ \A s \in Steps :
       /\ step[s].version <= step'[s].version
       /\ step'[s].status = "SUCCEEDED" =>
            /\ step'[s].result = step'[s].version
            /\ <<s, step'[s].result>> \in finished

Queued == QueueTypeOK /\ AttemptsAreClaims /\ SuccessWasExecuted

\* Where no generation is claimed and nothing succeeds, the queue advances.
LEMMA KeepingAdvances ==
  ASSUME Queued, QueueTypeOK',
         \A s \in Steps :
           /\ step'[s].version = step[s].version /\ step'[s].attempts = step[s].attempts
           /\ step'[s].result = step[s].result
           /\ step'[s].status = "SUCCEEDED" => step[s].status = "SUCCEEDED"
  PROVE  Advances
  BY DEF Queued, Advances, QueueTypeOK, QueueRow, AttemptsAreClaims, SuccessWasExecuted

LEMMA LessInNat == \A n \in Nat : Less(n) \in Nat
  BY DEF Less

LEMMA TickAdvances == Queued /\ Tick => Advances
  <1> SUFFICES ASSUME Queued, Tick PROVE Advances
    OBVIOUS
  <1>1. \A s \in Steps :
          step'[s] = [step[s] EXCEPT !.leaseLeft = Less(step[s].leaseLeft),
                                     !.waitLeft = Less(step[s].waitLeft)]
    BY DEF Tick
  <1>2. \A s \in Steps : step'[s] \in QueueRow
    <2> SUFFICES ASSUME NEW s \in Steps PROVE step'[s] \in QueueRow
      OBVIOUS
    <2>1. step[s] \in QueueRow
      BY DEF Queued, QueueTypeOK
    <2>2. Less(step[s].leaseLeft) \in Nat /\ Less(step[s].waitLeft) \in Nat
      BY <2>1, LessInNat DEF QueueRow
    <2> QED BY <1>1, <2>1, <2>2 DEF QueueRow
  <1>3. QueueTypeOK'
    BY <1>2 DEF QueueTypeOK, Tick
  <1>4. \A s \in Steps : step[s] \in QueueRow
    BY DEF Queued, QueueTypeOK
  <1> QED BY <1>1, <1>3, <1>4, KeepingAdvances DEF QueueRow

LEMMA ClaimAdvances ==
  ASSUME Queued, NEW s \in Steps, NEW w \in Workers, Claim(s, w)
  PROVE  Advances /\ step'[s].version = step[s].version + 1
  <1> USE WorkerRuntimeAssumption
  <1>1. PICK left \in 0 .. LeaseDuration : step' = [step EXCEPT ![s] = Claimed(s, w, left)]
    BY DEF Claim
  <1>2. /\ step \in [Steps -> QueueRow] /\ step[s] \in QueueRow
        /\ step[s].status = "READY" /\ step[s].attempts < MaxAttempts[s]
    BY DEF Queued, QueueTypeOK, Claim, CanClaim
  <1>3. /\ step'[s] \in QueueRow
        /\ step'[s].status = "RUNNING"
        /\ step'[s].version = step[s].version + 1
        /\ step'[s].attempts = step[s].attempts + 1
        /\ step'[s].result = step[s].result
    <2> DEFINE next(k) == k + 1
    <2>1. next(step[s].version) \in Nat /\ next(step[s].attempts) \in Nat /\ left \in Nat
      BY <1>2 DEF QueueRow
    <2>2. step'[s] = [step[s] EXCEPT !.status = "RUNNING", !.owner = w,
                                     !.version = next(step[s].version),
                                     !.attempts = next(step[s].attempts), !.leaseLeft = left]
      <3>1. step'[s] = Claimed(s, w, left)
        BY <1>1, <1>2
      <3> QED BY <3>1 DEF Claimed
    <2> HIDE DEF next
    <2>3. /\ step'[s] \in QueueRow
          /\ step'[s].status = "RUNNING"
          /\ step'[s].version = next(step[s].version)
          /\ step'[s].attempts = next(step[s].attempts)
          /\ step'[s].result = step[s].result
      BY <1>2, <2>1, <2>2 DEF QueueRow, Status
    <2> QED BY <2>3 DEF next
  <1>4. step' \in [Steps -> QueueRow] /\ \A t \in Steps \ {s} : step'[t] = step[t]
    BY <1>1, <1>2, <1>3
  <1>5. QueueTypeOK'
    BY <1>4 DEF QueueTypeOK
  <1> QED BY SMTT(30), <1>2, <1>3, <1>4, <1>5
          DEF Queued, Advances, AttemptsAreClaims, SuccessWasExecuted, QueueRow

LEMMA RenewAdvances ==
  ASSUME Queued, NEW s \in Steps, NEW w \in Workers, NEW v, Renew(s, w, v)
  PROVE  Advances
  <1> USE WorkerRuntimeAssumption DEF Queued, Renew, Owns, QueueTypeOK, QueueRow
  <1>1. QueueTypeOK'
    OBVIOUS
  <1> QED BY <1>1 DEF Advances, AttemptsAreClaims, SuccessWasExecuted

LEMMA ReportAdvances ==
  ASSUME Queued, NEW s \in Steps, NEW w \in Workers, NEW v, NEW outcome,
         Report(s, w, v, outcome), outcome = "ok" => <<s, v>> \in finished
  PROVE  Advances
  <1> USE WorkerRuntimeAssumption DEF Queued, Owns, Vacate, QueueTypeOK, QueueRow
  <1>1. CASE outcome = "ok" /\ Complete(s, w, v)
    <2>1. QueueTypeOK'
      <3>1. v \in Nat
        BY <1>1 DEF Complete
      <3>2. [step[s] EXCEPT !.status = "SUCCEEDED", !.owner = Null, !.leaseLeft = 0,
                            !.result = v] \in QueueRow
        BY <3>1 DEF Status
      <3> QED BY <1>1, <3>1, <3>2 DEF Complete, Status
    <2> QED BY <1>1, <2>1 DEF Complete, Advances, AttemptsAreClaims, SuccessWasExecuted
  <1>2. CASE Retry(s, w, v)
    <2>1. QueueTypeOK'
      <3>1. PICK left \in 0 .. BackoffUnit * BackoffFactor(step[s].attempts) :
              step' = [step EXCEPT ![s] = [Vacate(s, "RETRY_WAIT") EXCEPT !.waitLeft = left]]
        BY <1>2 DEF Retry
      <3>2. left \in Nat
        BY <3>1, BackoffInNat
      <3>3. [Vacate(s, "RETRY_WAIT") EXCEPT !.waitLeft = left] \in QueueRow
        BY <3>2 DEF Status
      <3> HIDE DEF QueueRow
      <3> QED BY <3>1, <3>3
    <2> QED BY SMTT(30), <1>2, <2>1 DEF Retry, Advances, AttemptsAreClaims, SuccessWasExecuted
  <1>3. CASE GiveUp(s, w, v)
    <2>1. QueueTypeOK'
      <3>1. Vacate(s, "DEAD_LETTERED") \in QueueRow
        BY DEF Status
      <3> HIDE DEF QueueRow
      <3> QED BY <1>3, <3>1 DEF GiveUp
    <2> QED BY <1>3, <2>1 DEF GiveUp, Advances, AttemptsAreClaims, SuccessWasExecuted
  <1> QED BY <1>1, <1>2, <1>3 DEF Report

LEMMA RecoverAdvances == ASSUME Queued, NEW batch \in Batches, Recover(batch) PROVE Advances
  <1>1. \A s \in Steps :
          \/ step'[s] = step[s]
          \/ step'[s] = [step[s] EXCEPT !.status = "READY", !.owner = Null, !.leaseLeft = 0]
          \/ step'[s] = [step[s] EXCEPT !.status = "DEAD_LETTERED", !.owner = Null, !.leaseLeft = 0]
    BY DEF Recover, Vacate
  <1>2. \A s \in Steps : step[s] \in QueueRow
    BY DEF Queued, QueueTypeOK
  <1>3. ASSUME NEW s \in Steps PROVE step'[s] \in QueueRow
    <2>1. step[s] \in QueueRow
      BY <1>2
    <2>2. \A new \in {"READY", "DEAD_LETTERED"} :
            [step[s] EXCEPT !.status = new, !.owner = Null, !.leaseLeft = 0] \in QueueRow
      BY <2>1 DEF QueueRow, Status
    <2> QED BY <1>1, <2>1, <2>2
  <1>4. QueueTypeOK'
    BY <1>3 DEF QueueTypeOK, Recover
  <1>5. ASSUME NEW s \in Steps
        PROVE  /\ step'[s].version = step[s].version /\ step'[s].attempts = step[s].attempts
               /\ step'[s].result = step[s].result
               /\ step'[s].status = "SUCCEEDED" => step[s].status = "SUCCEEDED"
    BY <1>1, <1>2 DEF QueueRow
  <1> QED BY <1>4, <1>5, KeepingAdvances

LEMMA PromoteAdvances == ASSUME Queued, NEW batch \in Batches, Promote(batch) PROVE Advances
  <1>1. \A s \in Steps :
          \/ step'[s] = step[s]
          \/ step'[s] = [step[s] EXCEPT !.status = "READY"]
    BY DEF Promote, Vacate
  <1>2. \A s \in Steps : step[s] \in QueueRow
    BY DEF Queued, QueueTypeOK
  <1>3. ASSUME NEW s \in Steps PROVE step'[s] \in QueueRow
    <2>1. step[s] \in QueueRow
      BY <1>2
    <2> QED BY <1>1, <2>1 DEF QueueRow, Status
  <1>4. QueueTypeOK'
    BY <1>3 DEF QueueTypeOK, Promote
  <1>5. ASSUME NEW s \in Steps
        PROVE  /\ step'[s].version = step[s].version /\ step'[s].attempts = step[s].attempts
               /\ step'[s].result = step[s].result
               /\ step'[s].status = "SUCCEEDED" => step[s].status = "SUCCEEDED"
    BY <1>1, <1>2 DEF QueueRow
  <1> QED BY <1>4, <1>5, KeepingAdvances

LEMMA StandingStillAdvances == Queued /\ UNCHANGED step => Advances
  BY DEF Queued, Advances, QueueTypeOK, QueueRow, AttemptsAreClaims, SuccessWasExecuted

\* Every step of the system does one of these to the rows, and what was
\* executed stays executed.
LEMMA NextAdvances == IInv /\ Next => Advances /\ finished \subseteq finished'
  <1> SUFFICES ASSUME IInv, Next PROVE Advances /\ finished \subseteq finished'
    OBVIOUS
  <1> USE DEF IInv, TypeOK
  <1>1. Queued
    BY DEF Queued
  <1>2. CASE Time
    BY <1>1, <1>2, TickAdvances DEF Time, ghosts
  <1>3. CASE OrphanCommits
    <2>1. PICK r \in orphans :
            \/ r.op = "claim" /\ \E s \in Steps : Claim(s, r.worker)
            \/ r.op = "renew" /\ Renew(r.step, r.worker, r.version)
            \/ r.op = "report" /\ Report(r.step, r.worker, r.version, r.outcome)
      BY <1>3 DEF OrphanCommits
    <2>2. r.worker \in Workers
      BY DEF Requests
    <2>3. Advances
      BY <1>1, <2>1, <2>2, ClaimAdvances, RenewAdvances, ReportAdvances DEF OrphansAreSound
    <2> QED BY <1>3, <2>3 DEF OrphanCommits, ghosts
  <1>4. CASE OrphanEnds
    BY <1>1, <1>4, StandingStillAdvances DEF OrphanEnds, ghosts
  <1>5. CASE Coordinator
    BY <1>1, <1>5, RecoverAdvances, PromoteAdvances, StandingStillAdvances
       DEF Coordinator, RecoverySweep, PromotionSweep, SweepDoesNothing, CoordinatorWakes,
           CoordinatorRestarts, Sweeping, ghosts
  <1>6. ASSUME NEW w \in Workers, Worker(w) PROVE Advances /\ finished \subseteq finished'
    <2>1. CASE ClaimStep(w)
      BY <1>1, <2>1, ClaimAdvances DEF ClaimStep, ghosts
    <2>2. CASE ReportCommits(w)
      <3>1. /\ proc[w].step \in Steps
            /\ proc[w].outcome = "ok" => <<proc[w].step, proc[w].version>> \in finished
        BY <2>2 DEF ReportCommits, ProcessShape
      <3> QED BY <1>1, <2>2, <3>1, ReportAdvances DEF ReportCommits, ghosts
    <2>3. CASE RenewalCommits(w)
      <3>1. proc[w].step \in Steps
        BY <2>3 DEF RenewalCommits, ProcessShape
      <3> QED BY <1>1, <2>3, <3>1, RenewAdvances DEF RenewalCommits, SetRenewal, ghosts
    <2>4. CASE FinishExecution(w)
      BY <1>1, <2>4, StandingStillAdvances DEF FinishExecution
    <2>5. CASE UNCHANGED <<step, finished>>
      BY <1>1, <2>5, StandingStillAdvances
    <2> QED
      BY <1>6, <2>1, <2>2, <2>3, <2>4, <2>5
         DEF Worker, Up, BeginClaim, Stop, ClaimNothing, StartExecution, BeginReport, ReportRejected,
             ReportErrors, Crash, Terminate, RenewalFires, RenewalRejected, RenewalErrors,
             RenewalStops, SetRenewal, ghosts
  <1> QED BY <1>2, <1>3, <1>4, <1>5, <1>6 DEF Next

-----------------------------------------------------------------------------
(* The processes                                                           *)

LEMMA InitEstablishes == Init => IInv
  <1> SUFFICES ASSUME Init PROVE IInv
    OBVIOUS
  <1> USE WorkerRuntimeAssumption DEF Init, QueueInit
  <1>1. TypeOK
    <2>1. QueueTypeOK
      BY DEF QueueTypeOK, QueueRow, Status
    <2>2. \A s \in Steps : runs[s] \in [1 .. MaxAttempts[s] -> Nat]
      OBVIOUS
    <2>3. stopping \in [Workers -> BOOLEAN]
      OBVIOUS
    <2> QED BY <2>1, <2>2, <2>3 DEF TypeOK, Down, Outcomes
  <1>2. AttemptsAreClaims /\ SuccessWasExecuted
    BY DEF AttemptsAreClaims, SuccessWasExecuted
  <1>3. ProcessShape /\ ClaimsAreFresh /\ OrphansAreSound
    BY DEF ProcessShape, ClaimsAreFresh, OrphansAreSound, Down
  <1>4. EachGenerationRunsOnce
    BY DEF EachGenerationRunsOnce
  <1> QED BY <1>1, <1>2, <1>3, <1>4 DEF IInv

\* Steps that leave the processes and their history alone.
Outside ==
  \/ Time \/ OrphanCommits \/ OrphanEnds \/ Coordinator

LEMMA OutsideLeavesProcesses == Outside => UNCHANGED <<processes, ghosts>> /\ orphans' \subseteq orphans
  BY DEF Outside, Time, OrphanCommits, OrphanEnds, Coordinator, RecoverySweep, PromotionSweep,
         SweepDoesNothing, CoordinatorWakes, CoordinatorRestarts, Sweeping, processes, ghosts

LEMMA CoordIsTyped == IInv /\ Next => coord' \in {"recovering", "promoting", "sleeping"}
  BY DEF IInv, TypeOK, Next, Time, OrphanCommits, OrphanEnds, Coordinator, RecoverySweep, PromotionSweep,
         SweepDoesNothing, CoordinatorWakes, CoordinatorRestarts, Sweeping, Worker,
         Up, BeginClaim, Stop, ClaimStep, ClaimNothing, StartExecution, FinishExecution, BeginReport,
         ReportCommits, ReportRejected, ReportErrors, Crash, Terminate, RenewalFires, RenewalCommits,
         RenewalRejected, RenewalErrors, RenewalStops, SetRenewal

\* What is left behind was in flight.
LEMMA AbandonedWasInFlight ==
  ASSUME NEW requests, Abandon(requests)
  PROVE  orphans' \subseteq orphans \cup requests
  BY DEF Abandon

LEMMA InFlightIsSound ==
  ASSUME IInv, NEW w \in Workers, NEW r \in InFlight(w)
  PROVE  /\ r \in Requests
         /\ r.op # "claim" =>
              /\ r.step \in Steps
              /\ r.op = "report" /\ r.outcome = "ok" => <<r.step, r.version>> \in finished
  <1>1. PICK op \in {"claim", "renew", "report"} :
          /\ r = [op |-> op, worker |-> w, step |-> proc[w].step, version |-> proc[w].version,
                  outcome |-> proc[w].outcome]
          /\ op = "renew" => renewal[w] = "writing"
          /\ op = "report" => proc[w].at = "reporting"
    BY DEF InFlight
  <1>2. r \in Requests
    BY <1>1 DEF IInv, TypeOK, Requests
  <1>3. r.op # "claim" => r.step \in Steps
    BY <1>1 DEF IInv, ProcessShape
  <1>4. r.op = "report" /\ r.outcome = "ok" => <<r.step, r.version>> \in finished
    BY <1>1 DEF IInv, ProcessShape
  <1> QED BY <1>2, <1>3, <1>4

\* Abandoned requests keep what was true of them in flight.
LEMMA OrphansStaySound ==
  ASSUME IInv, NEW w \in Workers, orphans' \subseteq orphans \cup InFlight(w),
         finished \subseteq finished'
  PROVE  orphans' \in SUBSET Requests /\ OrphansAreSound'
  BY InFlightIsSound DEF IInv, TypeOK, OrphansAreSound

Process ==
  [at : {"down", "polling", "claiming", "claimed", "executing", "draining", "reporting"},
   step : Steps \cup {Null}, version : Nat, outcome : Outcomes]

\* The part of IInv that is about the processes and what they have executed.
ProcessesTyped ==
  /\ proc \in [Workers -> Process]
  /\ renewal \in [Workers -> {"off", "waiting", "writing"}]
  /\ DOMAIN runs = Steps /\ \A s \in Steps : runs[s] \in [1 .. MaxAttempts[s] -> Nat]
  /\ finished \in SUBSET (Steps \X Nat)

Processes == ProcessesTyped /\ ProcessShape /\ ClaimsAreFresh /\ EachGenerationRunsOnce

LEMMA IInvGivesProcesses == IInv => Processes
  BY DEF IInv, Processes, TypeOK, ProcessesTyped, Process

\* Generations only grow, within their budgets.
LEMMA VersionsGrow ==
  ASSUME IInv, Advances
  PROVE  \A s \in Steps :
           /\ step[s].version \in Nat /\ step'[s].version \in Nat /\ MaxAttempts[s] \in Nat
           /\ step[s].version <= step'[s].version
           /\ step'[s].version <= MaxAttempts[s]
           /\ 1 .. step[s].version \subseteq 1 .. step'[s].version
  <1>1. \A s \in Steps : step[s].version \in Nat /\ step'[s].version \in Nat
    BY DEF IInv, TypeOK, Advances, QueueTypeOK, QueueRow
  <1>2. \A s \in Steps : step[s].version <= step'[s].version /\ step'[s].version <= MaxAttempts[s]
    BY DEF Advances, AttemptsAreClaims
  <1>3. \A s \in Steps : MaxAttempts[s] \in Nat
    BY WorkerRuntimeAssumption
  <1> QED BY <1>1, <1>2, <1>3

LEMMA RunsOfTypedProcesses ==
  /\ IInv => (\A s \in Steps : \A v \in 1 .. MaxAttempts[s] :
                runs[s][v] \in {0, 1} /\ (runs[s][v] = 1 => v <= step[s].version))
  /\ ProcessesTyped' =>
       (EachGenerationRunsOnce' <=>
          \A s \in Steps : \A v \in 1 .. MaxAttempts[s] :
             runs'[s][v] <= 1 /\ (runs'[s][v] = 1 => v <= step'[s].version))
  <1>1. IInv => (\A s \in Steps : DOMAIN runs[s] = 1 .. MaxAttempts[s]
                               /\ \A v \in 1 .. MaxAttempts[s] : runs[s][v] \in Nat)
    BY DEF IInv, TypeOK
  <1>2. ProcessesTyped' => \A s \in Steps : DOMAIN runs'[s] = 1 .. MaxAttempts[s]
    BY DEF ProcessesTyped
  <1>3. \A n \in Nat : n <= 1 <=> n \in {0, 1}
    OBVIOUS
  <1>4. IInv => EachGenerationRunsOnce
    BY DEF IInv
  <1>5. ASSUME ProcessesTyped'
        PROVE  EachGenerationRunsOnce' <=>
                 \A s \in Steps : \A v \in 1 .. MaxAttempts[s] :
                   runs'[s][v] <= 1 /\ (runs'[s][v] = 1 => v <= step'[s].version)
    BY <1>2, <1>5 DEF EachGenerationRunsOnce
  <1>6. ASSUME IInv, NEW s \in Steps, NEW v \in 1 .. MaxAttempts[s]
        PROVE  runs[s][v] \in {0, 1} /\ (runs[s][v] = 1 => v <= step[s].version)
    BY <1>1, <1>3, <1>4, <1>6 DEF EachGenerationRunsOnce
  <1> QED BY <1>5, <1>6

\* Generations that were run stay below the version of their row.
LEMMA RunsFollowRows ==
  ASSUME IInv, Advances, ProcessesTyped', UNCHANGED runs
  PROVE  EachGenerationRunsOnce'
  <1> SUFFICES ASSUME NEW s \in Steps, NEW v \in 1 .. MaxAttempts[s]
               PROVE  runs[s][v] <= 1 /\ (runs[s][v] = 1 => v <= step'[s].version)
    BY RunsOfTypedProcesses
  <1>1. runs[s][v] \in {0, 1} /\ (runs[s][v] = 1 => v <= step[s].version)
    BY RunsOfTypedProcesses
  <1> QED BY <1>1, VersionsGrow

\* Nobody moves; the rows may.
LEMMA WatchingKeeps ==
  ASSUME IInv, Advances, UNCHANGED <<proc, renewal, runs, finished>>
  PROVE  Processes'
  <1> USE IInvGivesProcesses DEF Processes
  <1>1. ProcessesTyped'
    BY DEF ProcessesTyped
  <1>3. ProcessShape'
    BY VersionsGrow DEF ProcessShape, ProcessesTyped, Process
  <1>4. ClaimsAreFresh'
    BY DEF ClaimsAreFresh
  <1>5. EachGenerationRunsOnce'
    BY <1>1, RunsFollowRows
  <1> QED BY <1>1, <1>3, <1>4, <1>5

\* A process gives up its step, or had none.
LEMMA IdlingKeeps ==
  ASSUME IInv, Advances, NEW w \in Workers, NEW p \in Process,
         p.at \in {"down", "polling", "claiming"}, p.step = Null,
         proc' = [proc EXCEPT ![w] = p],
         renewal' \in {renewal, [renewal EXCEPT ![w] = "off"]}, renewal'[w] = "off",
         UNCHANGED <<runs, finished>>
  PROVE  Processes'
  <1> USE IInvGivesProcesses DEF Processes
  <1>1. ProcessesTyped'
    BY DEF ProcessesTyped
  <1>3. \A x \in Workers : /\ proc'[x] = IF x = w THEN p ELSE proc[x]
                           /\ renewal'[x] = IF x = w THEN "off" ELSE renewal[x]
    BY DEF ProcessesTyped
  <1>4. ProcessShape'
    BY <1>3, VersionsGrow DEF ProcessShape, ProcessesTyped, Process
  <1>5. ClaimsAreFresh'
    BY <1>3 DEF ClaimsAreFresh
  <1>6. EachGenerationRunsOnce'
    BY <1>1, RunsFollowRows
  <1> QED BY <1>1, <1>4, <1>5, <1>6

\* A claim's generation is above every one that was executed or is held.
LEMMA ClaimingKeeps == ASSUME IInv, NEW w \in Workers, ClaimStep(w) PROVE Processes'
  <1> USE IInvGivesProcesses DEF Processes
  <1>1. PICK s \in Steps :
          /\ Claim(s, w)
          /\ proc' = [proc EXCEPT ![w] = [at |-> "claimed", step |-> s,
                                          version |-> step[s].version + 1, outcome |-> "ok"]]
    BY DEF ClaimStep
  <1>2. Advances /\ step'[s].version = step[s].version + 1
    BY <1>1, ClaimAdvances DEF Queued, IInv, TypeOK
  <1>3. step[s].version \in Nat
    BY <1>2, VersionsGrow
  <1>4. UNCHANGED <<renewal, runs, finished>>
    BY DEF ClaimStep, ghosts
  <1>5. ProcessesTyped'
    BY <1>1, <1>3, <1>4 DEF ProcessesTyped, Process, Outcomes
  <1>6. \A x \in Workers :
          proc'[x] = IF x = w THEN [at |-> "claimed", step |-> s,
                                    version |-> step[s].version + 1, outcome |-> "ok"]
                     ELSE proc[x]
    BY <1>1 DEF ProcessesTyped
  <1>7. renewal[w] = "off"
    BY DEF ClaimStep, ProcessShape, ProcessesTyped
  <1>8. ProcessShape'
    <2>1. step[s].version + 1 \in 1 .. step'[s].version
      BY <1>2, <1>3
    <2>2. CASE \E x \in Workers : x # w
      BY <1>2, <1>4, <1>6, <1>7, <2>1, VersionsGrow DEF ProcessShape
    <2>3. CASE \A x \in Workers : x = w
      <3>1. /\ proc'[w].at = "claimed" /\ proc'[w].step = s
            /\ proc'[w].version = step[s].version + 1 /\ renewal'[w] = "off"
        BY <1>4, <1>6, <1>7
      <3> QED BY <2>1, <2>3, <3>1 DEF ProcessShape
    <2> QED BY <2>2, <2>3
  <1>9. ClaimsAreFresh'
    <2>1. step[s].version + 1 \in 1 .. MaxAttempts[s]
      BY <1>2, <1>3, VersionsGrow
    <2>2. runs[s][step[s].version + 1] = 0
      BY <1>3, <2>1, RunsOfTypedProcesses
    <2>3. \A x \in Workers : proc[x].at = "claimed" =>
            <<proc[x].step, proc[x].version>> # <<s, step[s].version + 1>>
      <3> SUFFICES ASSUME NEW x \in Workers, proc[x].at = "claimed", proc[x].step = s
                   PROVE  proc[x].version # step[s].version + 1
        OBVIOUS
      <3>1. proc[x].version \in 1 .. step[s].version
        BY DEF ProcessShape
      <3> QED BY <1>3, <3>1
    <2> QED BY <1>4, <1>6, <2>2, <2>3 DEF ClaimsAreFresh
  <1>10. EachGenerationRunsOnce'
    BY <1>2, <1>4, <1>5, RunsFollowRows
  <1> QED BY <1>5, <1>8, <1>9, <1>10

\* The generation that is started has never been started before.
LEMMA StartingKeeps == ASSUME IInv, NEW w \in Workers, StartExecution(w) PROVE Processes'
  <1> USE IInvGivesProcesses DEF Processes, StartExecution
  <1> DEFINE s == proc[w].step
             v == proc[w].version
  <1>0. Advances /\ step' = step
    BY StandingStillAdvances DEF Queued, IInv, TypeOK
  <1>1. s \in Steps /\ v \in 1 .. step[s].version /\ runs[s][v] = 0
    BY DEF ProcessShape, ClaimsAreFresh
  <1>2. v \in 1 .. MaxAttempts[s]
    BY <1>1, <1>0, VersionsGrow
  <1>3. \A x \in Workers :
          /\ proc'[x] = IF x = w THEN [proc[w] EXCEPT !.at = "executing"] ELSE proc[x]
          /\ renewal'[x] = IF x = w THEN "waiting" ELSE renewal[x]
    BY DEF ProcessesTyped
  <1>4. /\ DOMAIN runs' = Steps
        /\ \A t \in Steps : \A n \in 1 .. MaxAttempts[t] :
             runs'[t][n] = IF t = s /\ n = v THEN 1 ELSE runs[t][n]
        /\ \A t \in Steps : runs'[t] \in [1 .. MaxAttempts[t] -> Nat]
    <2>1. runs' = [runs EXCEPT ![s] = [runs[s] EXCEPT ![v] = 1]]
      BY <1>1
    <2>2. \A t \in Steps : runs'[t] = IF t = s THEN [runs[s] EXCEPT ![v] = 1] ELSE runs[t]
      BY <1>1, <2>1 DEF ProcessesTyped
    <2>3. [runs[s] EXCEPT ![v] = 1] \in [1 .. MaxAttempts[s] -> Nat]
      BY <1>1 DEF ProcessesTyped
    <2>4. \A t \in Steps : runs[t] \in [1 .. MaxAttempts[t] -> Nat]
      BY DEF ProcessesTyped
    <2>5. \A t \in Steps : runs'[t] \in [1 .. MaxAttempts[t] -> Nat]
      BY <2>2, <2>3, <2>4
    <2>6. \A n \in 1 .. MaxAttempts[s] : runs'[s][n] = IF n = v THEN 1 ELSE runs[s][n]
      <3>1. runs'[s] = [runs[s] EXCEPT ![v] = 1]
        BY <1>1, <2>2
      <3>2. runs[s] \in [1 .. MaxAttempts[s] -> Nat]
        BY <1>1, <2>4
      <3> QED BY <3>1, <3>2
    <2>7. DOMAIN runs' = Steps
      BY <2>1 DEF ProcessesTyped
    <2> QED BY <2>2, <2>5, <2>6, <2>7
  <1>5. ProcessesTyped'
    BY <1>4 DEF ProcessesTyped, Process
  <1>6. ProcessShape'
    BY <1>3 DEF ProcessShape, ProcessesTyped, Process
  <1>7. ClaimsAreFresh'
    <2> SUFFICES ASSUME NEW x \in Workers, proc'[x].at = "claimed"
                 PROVE  /\ runs'[proc'[x].step][proc'[x].version] = 0
                        /\ \A y \in Workers \ {x} : proc'[y].at = "claimed" =>
                             <<proc'[y].step, proc'[y].version>> # <<proc'[x].step, proc'[x].version>>
      BY DEF ClaimsAreFresh
    <2>1. x # w /\ proc'[x] = proc[x]
      BY <1>3 DEF ProcessesTyped, Process
    <2>2. proc[x].step \in Steps /\ proc[x].version \in 1 .. MaxAttempts[proc[x].step]
      <3>1. proc[x].step \in Steps /\ proc[x].version \in 1 .. step[proc[x].step].version
        BY <2>1 DEF ProcessShape
      <3> QED BY <1>0, <3>1, VersionsGrow
    <2>3. runs[proc[x].step][proc[x].version] = 0
      BY <2>1 DEF ClaimsAreFresh
    <2>4. ~(proc[x].step = s /\ proc[x].version = v)
      BY <2>1 DEF ClaimsAreFresh
    <2>5. runs'[proc'[x].step][proc'[x].version] = 0
      BY <1>4, <2>1, <2>2, <2>3, <2>4
    <2>6. \A y \in Workers \ {x} : proc'[y].at = "claimed" =>
             <<proc'[y].step, proc'[y].version>> # <<proc'[x].step, proc'[x].version>>
      BY <1>3, <2>1 DEF ClaimsAreFresh, ProcessesTyped, Process
    <2> QED BY <2>5, <2>6
  <1>8. EachGenerationRunsOnce'
    <2> SUFFICES ASSUME NEW t \in Steps, NEW n \in 1 .. MaxAttempts[t]
                 PROVE  runs'[t][n] <= 1 /\ (runs'[t][n] = 1 => n <= step[t].version)
      BY <1>0, <1>5, RunsOfTypedProcesses
    <2>1. runs[t][n] \in {0, 1} /\ (runs[t][n] = 1 => n <= step[t].version)
      BY RunsOfTypedProcesses
    <2>2. runs'[t][n] = IF t = s /\ n = v THEN 1 ELSE runs[t][n]
      BY <1>4
    <2> QED BY <1>0, <1>1, <2>1, <2>2, VersionsGrow
  <1> QED BY <1>5, <1>6, <1>7, <1>8

LEMMA FinishingKeeps == ASSUME IInv, NEW w \in Workers, FinishExecution(w) PROVE Processes'
  <1> USE IInvGivesProcesses DEF Processes
  <1>1. PICK outcome \in Outcomes :
          /\ proc' = [proc EXCEPT ![w].at = "draining", ![w].outcome = outcome]
          /\ finished' = IF outcome = "ok" THEN finished \cup {<<proc[w].step, proc[w].version>>}
                                           ELSE finished
    BY DEF FinishExecution
  <1>2. proc[w].at = "executing" /\ UNCHANGED <<step, renewal, runs>>
    BY DEF FinishExecution
  <1>3. proc[w].step \in Steps /\ proc[w].version \in Nat
    BY <1>2 DEF ProcessShape, ProcessesTyped, Process
  <1>4. \A x \in Workers :
          proc'[x] = IF x = w THEN [proc[w] EXCEPT !.at = "draining", !.outcome = outcome] ELSE proc[x]
    BY <1>1 DEF ProcessesTyped
  <1>5. ProcessesTyped'
    <2>1. finished' \in SUBSET (Steps \X Nat)
      BY <1>1, <1>3 DEF ProcessesTyped
    <2>2. proc' \in [Workers -> Process]
      BY <1>1 DEF ProcessesTyped, Process
    <2> QED BY <1>2, <2>1, <2>2 DEF ProcessesTyped
  <1>6. ProcessShape'
    BY <1>1, <1>2, <1>3, <1>4 DEF ProcessShape, ProcessesTyped, Process
  <1>7. ClaimsAreFresh'
    <2>1. \A x \in Workers : proc'[x].at = "claimed" => proc'[x] = proc[x] /\ proc[x].at = "claimed"
      BY <1>4 DEF ProcessesTyped, Process
    <2> QED BY <1>2, <2>1 DEF ClaimsAreFresh
  <1>8. EachGenerationRunsOnce'
    BY <1>2 DEF EachGenerationRunsOnce
  <1> QED BY <1>5, <1>6, <1>7, <1>8

LEMMA BeginningToReportKeeps == ASSUME IInv, NEW w \in Workers, BeginReport(w) PROVE Processes'
  <1> USE IInvGivesProcesses DEF Processes, BeginReport, ghosts
  <1>1. \A x \in Workers :
          proc'[x] = IF x = w THEN [proc[w] EXCEPT !.at = "reporting"] ELSE proc[x]
    BY DEF ProcessesTyped
  <1>2. ProcessesTyped'
    BY DEF ProcessesTyped, Process
  <1>3. ProcessShape'
    BY <1>1 DEF ProcessShape, ProcessesTyped, Process
  <1>4. ClaimsAreFresh'
    BY <1>1 DEF ClaimsAreFresh, ProcessesTyped, Process
  <1>5. EachGenerationRunsOnce'
    BY DEF EachGenerationRunsOnce
  <1> QED BY <1>2, <1>3, <1>4, <1>5

\* The renewal loop of an execution moves.
LEMMA RenewingKeeps ==
  ASSUME IInv, Advances, NEW w \in Workers, NEW at \in {"off", "waiting", "writing"},
         SetRenewal(w, at), renewal[w] # "off"
  PROVE  Processes'
  <1> USE IInvGivesProcesses DEF Processes, SetRenewal, ghosts
  <1>1. ProcessesTyped'
    BY DEF ProcessesTyped
  <1>3. \A x \in Workers : renewal'[x] = IF x = w THEN at ELSE renewal[x]
    BY DEF ProcessesTyped
  <1>4. ProcessShape'
    BY <1>3, VersionsGrow DEF ProcessShape, ProcessesTyped, Process
  <1>5. ClaimsAreFresh'
    BY DEF ClaimsAreFresh
  <1>6. EachGenerationRunsOnce'
    BY <1>1, RunsFollowRows
  <1> QED BY <1>1, <1>4, <1>5, <1>6

-----------------------------------------------------------------------------
(* The theorems                                                            *)

\* A worker's own steps, by what they do to the processes.
LEMMA WorkerKeeps == ASSUME IInv, NEW w \in Workers, Worker(w) PROVE Processes'
  <1>1. Advances
    BY NextAdvances DEF Next
  <1>2. Down \in Process /\ [Down EXCEPT !.at = "polling"] \in Process
        /\ Down.at = "down" /\ Down.step = Null
    BY DEF Down, Process, Outcomes
  <1>3. proc \in [Workers -> Process] /\ renewal \in [Workers -> {"off", "waiting", "writing"}]
    BY IInvGivesProcesses DEF Processes, ProcessesTyped
  <1>4. proc[w] \in Process
    BY <1>3
  <1>5. proc[w].at \notin {"executing", "draining"} => renewal[w] = "off"
    BY DEF IInv, ProcessShape
  <1>6. proc[w].at \in {"down", "polling", "claiming"} => proc[w].step = Null
    BY DEF IInv, ProcessShape
  <1>7. CASE Up(w) \/ BeginClaim(w) \/ ClaimNothing(w)
    <2>1. PICK at \in {"polling", "claiming"} : proc' = [proc EXCEPT ![w].at = at]
      BY <1>7 DEF Up, BeginClaim, ClaimNothing
    <2>2. proc[w].at \in {"down", "polling", "claiming"}
          /\ UNCHANGED <<renewal, runs, finished>>
      BY <1>7 DEF Up, BeginClaim, ClaimNothing, ghosts
    <2> DEFINE p == [proc[w] EXCEPT !.at = at]
    <2>3. p \in Process /\ p.at = at /\ p.step = Null
      BY <1>4, <1>6, <2>2 DEF Process
    <2>4. proc' = [proc EXCEPT ![w] = p]
      BY <2>1
    <2> QED BY <1>1, <1>3, <1>5, <2>2, <2>3, <2>4, IdlingKeeps
  <1>8. CASE Stop(w)
    BY <1>1, <1>2, <1>5, <1>8, IdlingKeeps DEF Stop, ghosts
  <1>9. CASE ReportCommits(w) \/ ReportRejected(w) \/ ReportErrors(w)
    <2>1. /\ proc' = [proc EXCEPT ![w] = [at |-> "polling", step |-> Null, version |-> 0,
                                          outcome |-> "ok"]]
          /\ UNCHANGED <<renewal, runs, finished>> /\ proc[w].at = "reporting"
      BY <1>9 DEF ReportCommits, ReportRejected, ReportErrors, NextIteration, ghosts
    <2>2. [at |-> "polling", step |-> Null, version |-> 0, outcome |-> "ok"] \in Process
      BY DEF Process, Outcomes
    <2> QED BY <1>1, <1>5, <2>1, <2>2, IdlingKeeps
  <1>10. CASE Crash(w)
    BY <1>1, <1>2, <1>3, <1>10, IdlingKeeps DEF Crash, ghosts
  <1>11. CASE Terminate(w)
    BY <1>1, <1>11, WatchingKeeps DEF Terminate, ghosts
  <1>12. CASE RenewalFires(w)
    BY <1>1, <1>12, RenewingKeeps DEF RenewalFires
  <1>13. CASE RenewalCommits(w) \/ RenewalRejected(w) \/ RenewalErrors(w)
    BY <1>1, <1>13, RenewingKeeps DEF RenewalCommits, RenewalRejected, RenewalErrors
  <1>14. CASE RenewalStops(w)
    BY <1>1, <1>14, RenewingKeeps DEF RenewalStops
  <1> QED
    BY <1>7, <1>8, <1>9, <1>10, <1>11, <1>12, <1>13, <1>14, ClaimingKeeps, StartingKeeps,
       FinishingKeeps, BeginningToReportKeeps DEF Worker

LEMMA StoppingIsTyped == IInv /\ Next => stopping' \in [Workers -> BOOLEAN]
  <1> SUFFICES ASSUME IInv, Next PROVE stopping' \in [Workers -> BOOLEAN]
    OBVIOUS
  <1>1. stopping \in [Workers -> BOOLEAN]
    BY DEF IInv, TypeOK
  <1>2. CASE Outside
    BY <1>1, <1>2, OutsideLeavesProcesses DEF processes
  <1>3. ASSUME NEW w \in Workers, Worker(w)
        PROVE  \/ stopping' = stopping
               \/ \E b \in BOOLEAN : stopping' = [stopping EXCEPT ![w] = b]
    BY <1>3
       DEF Worker, Up, BeginClaim, Stop, ClaimStep, ClaimNothing, StartExecution, FinishExecution,
           BeginReport, ReportCommits, ReportRejected, ReportErrors, Crash, Terminate, RenewalFires,
           RenewalCommits, RenewalRejected, RenewalErrors, RenewalStops, SetRenewal
  <1>4. ASSUME NEW w \in Workers, Worker(w) PROVE stopping' \in [Workers -> BOOLEAN]
    <2>1. CASE stopping' = stopping
      BY <1>1, <2>1
    <2>2. CASE \E b \in BOOLEAN : stopping' = [stopping EXCEPT ![w] = b]
      BY <1>1, <2>2
    <2> QED BY <1>3, <1>4, <2>1, <2>2
  <1> QED BY <1>2, <1>4 DEF Next, Outside

LEMMA OrphansPreserved == IInv /\ Next => orphans' \in SUBSET Requests /\ OrphansAreSound'
  <1> SUFFICES ASSUME IInv, Next PROVE orphans' \in SUBSET Requests /\ OrphansAreSound'
    OBVIOUS
  <1>1. finished \subseteq finished'
    BY NextAdvances
  <1>2. orphans \in SUBSET Requests /\ OrphansAreSound
    BY DEF IInv, TypeOK
  <1>3. CASE orphans' \subseteq orphans
    BY <1>1, <1>2, <1>3 DEF OrphansAreSound
  <1>4. ASSUME NEW w \in Workers, Worker(w)
        PROVE  orphans' \subseteq orphans \/ orphans' \subseteq orphans \cup InFlight(w)
    <2>1. CASE ReportErrors(w)
      BY <2>1, AbandonedWasInFlight DEF ReportErrors
    <2>2. CASE Crash(w)
      BY <2>2, AbandonedWasInFlight DEF Crash
    <2>3. CASE RenewalErrors(w)
      BY <2>3, AbandonedWasInFlight DEF RenewalErrors
    <2> QED
      BY <1>4, <2>1, <2>2, <2>3
         DEF Worker, Up, BeginClaim, Stop, ClaimStep, ClaimNothing, StartExecution,
             FinishExecution, BeginReport, ReportCommits, ReportRejected, Terminate, RenewalFires,
             RenewalCommits, RenewalRejected, RenewalStops
  <1>5. CASE Outside
    BY <1>3, <1>5, OutsideLeavesProcesses
  <1> QED BY <1>1, <1>3, <1>4, <1>5, OrphansStaySound DEF Next, Outside

LEMMA NextPreserves == IInv /\ [Next]_vars => IInv'
  <1> SUFFICES ASSUME IInv, [Next]_vars PROVE IInv'
    OBVIOUS
  <1>1. CASE UNCHANGED vars
    BY <1>1 DEF vars, IInv, TypeOK, QueueTypeOK, AttemptsAreClaims, SuccessWasExecuted,
                ProcessShape, ClaimsAreFresh, EachGenerationRunsOnce, OrphansAreSound
  <1>2. CASE Next
    <2>1. Advances /\ finished \subseteq finished'
      BY <1>2, NextAdvances
    <2>2. Processes'
      <3>1. CASE Outside
        BY <2>1, <3>1, OutsideLeavesProcesses, WatchingKeeps DEF processes, ghosts
      <3> QED BY <1>2, <3>1, WorkerKeeps DEF Next, Outside
    <2>3. stopping' \in [Workers -> BOOLEAN]
      BY <1>2, StoppingIsTyped
    <2>4. orphans' \in SUBSET Requests /\ OrphansAreSound'
      BY <1>2, OrphansPreserved
    <2>5. coord' \in {"recovering", "promoting", "sleeping"}
      BY <1>2, CoordIsTyped
    <2>6. TypeOK'
      BY <2>1, <2>2, <2>3, <2>4, <2>5 DEF Advances, Processes, ProcessesTyped, Process, TypeOK
    <2>7. SuccessWasExecuted'
      BY <2>1 DEF Advances, SuccessWasExecuted
    <2> QED BY <2>1, <2>2, <2>4, <2>6, <2>7 DEF IInv, Advances, Processes
  <1> QED BY <1>1, <1>2

\* What the processes hold, what they have left behind and what the rows say
\* always fit together.
THEOREM Invariance == Spec => []IInv
  BY InitEstablishes, NextPreserves, PTL DEF Spec

\* However often processes are killed and restarted, no generation is executed
\* twice.
THEOREM GenerationsRunOnce == Spec => []EachGenerationRunsOnce
  <1>1. IInv => EachGenerationRunsOnce
    BY DEF IInv
  <1> QED BY <1>1, Invariance, PTL

\* What is stored as a success was returned by an executor, for the step's
\* last generation.
THEOREM SuccessIsOfAnExecution == Spec => []SuccessWasExecuted
  <1>1. IInv => SuccessWasExecuted
    BY DEF IInv
  <1> QED BY <1>1, Invariance, PTL

\* The operations of the queue other than Renew give no running generation time.
LEMMA OnlyRenewExtends ==
  ASSUME QueueTypeOK, NEW s \in Steps,
         \/ UNCHANGED step \/ Tick
         \/ \E t \in Steps, w \in Workers : Claim(t, w)
         \/ \E t \in Steps, w \in Workers : \E v, outcome : Report(t, w, v, outcome)
         \/ \E batch \in Batches : Recover(batch) \/ Promote(batch)
  PROVE  ~IsExtended(s)
  <1>1. /\ step \in [Steps -> QueueRow]
        /\ step[s].leaseLeft \in Nat /\ step[s].version \in Nat
    BY DEF QueueTypeOK, QueueRow
  <1>2. CASE UNCHANGED step
    BY <1>1, <1>2 DEF IsExtended
  <1>3. CASE Tick
    <2>1. step'[s].leaseLeft = Less(step[s].leaseLeft)
      BY <1>1, <1>3 DEF Tick, QueueRow
    <2> QED BY <1>1, <2>1 DEF IsExtended, Less
  <1>4. ASSUME NEW t \in Steps, NEW w \in Workers, Claim(t, w) PROVE ~IsExtended(s)
    <2>1. CASE s = t
      <3>1. step'[s].version = step[s].version + 1
        BY <1>1, <1>4, <2>1 DEF Claim, Claimed, QueueRow
      <3> QED BY <1>1, <3>1 DEF IsExtended
    <2>2. CASE s # t
      <3>1. step'[s] = step[s]
        BY <1>1, <1>4, <2>2 DEF Claim
      <3> QED BY <1>1, <3>1 DEF IsExtended
    <2> QED BY <2>1, <2>2
  <1>5. ASSUME NEW t \in Steps, NEW w \in Workers, NEW v, NEW outcome, Report(t, w, v, outcome)
        PROVE  ~IsExtended(s)
    <2>1. CASE s = t
      <3>1. step'[s].status # "RUNNING"
        BY <1>1, <1>5, <2>1 DEF Report, Complete, Retry, GiveUp, Vacate, QueueRow
      <3> QED BY <3>1 DEF IsExtended
    <2>2. CASE s # t
      <3>1. step'[s] = step[s]
        BY <1>1, <1>5, <2>2 DEF Report, Complete, Retry, GiveUp
      <3> QED BY <1>1, <3>1 DEF IsExtended
    <2> QED BY <2>1, <2>2
  <1>6. ASSUME NEW batch \in Batches, Recover(batch) \/ Promote(batch) PROVE ~IsExtended(s)
    <2>1. CASE s \in batch /\ Recover(batch)
      <3>1. step'[s].status # "RUNNING"
        BY <1>1, <2>1 DEF Recover, Vacate, QueueRow
      <3> QED BY <3>1 DEF IsExtended
    <2>2. CASE s \in batch /\ Promote(batch)
      <3>1. step[s].status # "RUNNING"
        BY <2>2 DEF Promote
      <3> QED BY <3>1 DEF IsExtended
    <2>3. CASE s \notin batch
      <3>1. step'[s] = step[s]
        BY <1>6, <2>3 DEF Recover, Promote
      <3> QED BY <1>1, <3>1 DEF IsExtended
    <2> QED BY <1>6, <2>1, <2>2, <2>3
  <1> QED BY <1>2, <1>3, <1>4, <1>5, <1>6

\* A renewal extends the lease of the generation it presents, and no other.
LEMMA RenewExtendsItsGeneration ==
  ASSUME QueueTypeOK, NEW s \in Steps, NEW t, NEW w, NEW v, Renew(t, w, v), IsExtended(s)
  PROVE  t = s /\ w = step[s].owner /\ v = step[s].version
  <1>1. step \in [Steps -> QueueRow] /\ step[s].leaseLeft \in Nat
    BY DEF QueueTypeOK, QueueRow
  <1>2. s # t => step'[s] = step[s]
    BY <1>1 DEF Renew
  <1>3. s = t
    BY <1>1, <1>2 DEF IsExtended
  <1> QED BY <1>3 DEF Renew, Owns

\* No lease grows for a generation that is over, for a process that reports, was
\* killed or has gone on, or by a renewal of another generation; the exception is
\* an abandoned renewal of the generation that still owns the row.
THEOREM LeasesGrowByTheirGeneration == Spec => LeaseGrowsByItsGeneration
  <1>1. ASSUME IInv, [Next]_vars, NEW s \in Steps, IsExtended(s)
        PROVE  RenewedInTime(s) \/ RenewedLate(s)
    <2> USE <1>1
    <2>t. QueueTypeOK /\ TypeOK /\ ProcessShape
      BY DEF IInv, TypeOK
    <2>1. CASE UNCHANGED vars
      BY <2>t, <2>1, OnlyRenewExtends DEF vars
    <2>2. CASE Time \/ OrphanEnds
      BY <2>t, <2>2, OnlyRenewExtends DEF Time, OrphanEnds
    <2>3. CASE OrphanCommits
      <3>1. PICK r \in orphans :
              /\ \/ r.op = "claim" /\ \E t \in Steps : Claim(t, r.worker)
                 \/ r.op = "renew" /\ Renew(r.step, r.worker, r.version)
                 \/ r.op = "report" /\ Report(r.step, r.worker, r.version, r.outcome)
              /\ orphans' = orphans \ {r}
        BY <2>3 DEF OrphanCommits
      <3>2. r.worker \in Workers /\ (r.op # "claim" => r.step \in Steps)
        BY DEF IInv, TypeOK, Requests, OrphansAreSound
      <3>3. r.op = "renew" /\ Renew(r.step, r.worker, r.version)
        BY <2>t, <3>1, <3>2, OnlyRenewExtends
      <3>4. r.step = s /\ r.worker = step[s].owner /\ r.version = step[s].version
        BY <2>t, <3>3, RenewExtendsItsGeneration
      <3> QED BY <3>1, <3>3, <3>4 DEF RenewedLate
    <2>4. CASE Coordinator
      <3>1. UNCHANGED step \/ \E batch \in Batches : Recover(batch) \/ Promote(batch)
        BY <2>4 DEF Coordinator, RecoverySweep, PromotionSweep, SweepDoesNothing,
                    CoordinatorWakes, CoordinatorRestarts
      <3> QED BY <2>t, <3>1, OnlyRenewExtends
    <2>5. ASSUME NEW w \in Workers, Worker(w) PROVE RenewedInTime(s) \/ RenewedLate(s)
      <3>1. CASE ClaimStep(w)
        BY <2>t, <3>1, OnlyRenewExtends DEF ClaimStep
      <3>2. CASE ReportCommits(w)
        <4>1. proc[w].step \in Steps
          BY <2>t, <3>2 DEF ReportCommits, ProcessShape
        <4> QED BY <2>t, <3>2, <4>1, OnlyRenewExtends DEF ReportCommits
      <3>3. CASE RenewalCommits(w)
        <4>1. /\ renewal[w] = "writing" /\ renewal'[w] = "waiting"
              /\ Renew(proc[w].step, w, proc[w].version)
          BY <2>t, <3>3 DEF RenewalCommits, SetRenewal, TypeOK
        <4>2. proc[w].step = s /\ w = step[s].owner /\ proc[w].version = step[s].version
          BY <2>t, <4>1, RenewExtendsItsGeneration
        <4>3. proc[w].at \in {"executing", "draining"}
          BY <2>t, <4>1 DEF ProcessShape
        <4> QED BY <4>1, <4>2, <4>3 DEF RenewedInTime
      <3>4. CASE ~(ClaimStep(w) \/ ReportCommits(w) \/ RenewalCommits(w))
        <4>1. UNCHANGED step
          BY <2>5, <3>4
             DEF Worker, Up, BeginClaim, Stop, ClaimNothing, StartExecution, FinishExecution,
                 BeginReport, ReportRejected, ReportErrors, Crash, Terminate, RenewalFires,
                 RenewalRejected, RenewalErrors, RenewalStops
        <4> QED BY <2>t, <4>1, OnlyRenewExtends
      <3> QED BY <3>1, <3>2, <3>3, <3>4
    <2> QED BY <2>1, <2>2, <2>3, <2>4, <2>5 DEF Next
  <1>2. IInv /\ [Next]_vars =>
          \A s \in Steps : IsExtended(s) => RenewedInTime(s) \/ RenewedLate(s)
    BY <1>1
  <1> QED BY <1>2, Invariance, PTL DEF Spec, LeaseGrowsByItsGeneration

\* An owner write that commits is the queue's, for the generation the row has.
LEMMA OwnerWritesAreTheQueues ==
  ASSUME NEW s \in Steps, NEW w \in Workers, NEW v, NEW outcome,
         Renew(s, w, v) \/ Report(s, w, v, outcome)
  PROVE  QueueNext
  <1>1. Renew(s, w, v) \/ Complete(s, w, v) \/ Retry(s, w, v) \/ GiveUp(s, w, v)
    BY DEF Report
  <1>2. v = step[s].version
    BY <1>1 DEF Renew, Complete, Retry, GiveUp, Owns
  <1> QED BY <1>1, <1>2 DEF QueueNext

\* Workers and the coordinator change the rows through the operations of the
\* queue alone, which the transactions of StepStore implement: in time, late, or
\* for a process that is gone (worker-loop.ts, recovery-loop.ts).
THEOREM RuntimeUsesTheQueue == Spec => QueueSpec
  <1>1. ASSUME IInv, [Next]_vars PROVE [QueueNext]_step
    <2> USE <1>1 DEF IInv
    <2>1. CASE UNCHANGED vars
      BY <2>1 DEF vars
    <2>2. CASE Time
      BY <2>2 DEF Time, QueueNext
    <2>3. CASE OrphanCommits
      <3>1. PICK r \in orphans :
              \/ r.op = "claim" /\ \E s \in Steps : Claim(s, r.worker)
              \/ r.op = "renew" /\ Renew(r.step, r.worker, r.version)
              \/ r.op = "report" /\ Report(r.step, r.worker, r.version, r.outcome)
        BY <2>3 DEF OrphanCommits
      <3>2. r.worker \in Workers /\ (r.op # "claim" => r.step \in Steps)
        BY DEF TypeOK, Requests, OrphansAreSound
      <3>3. CASE r.op = "claim"
        BY <3>1, <3>2, <3>3 DEF QueueNext
      <3>4. CASE r.op # "claim"
        BY <3>1, <3>2, <3>4, OwnerWritesAreTheQueues
      <3> QED BY <3>3, <3>4
    <2>4. CASE OrphanEnds \/ Coordinator
      BY <2>4 DEF OrphanEnds, Coordinator, RecoverySweep, PromotionSweep, SweepDoesNothing,
                  CoordinatorWakes, CoordinatorRestarts, QueueNext
    <2>5. ASSUME NEW w \in Workers, Worker(w) PROVE [QueueNext]_step
      <3>1. CASE ClaimStep(w)
        BY <3>1 DEF ClaimStep, QueueNext
      <3>2. CASE ReportCommits(w)
        <4>1. proc[w].step \in Steps
          BY <3>2 DEF ReportCommits, ProcessShape
        <4> QED BY <3>2, <4>1, OwnerWritesAreTheQueues DEF ReportCommits
      <3>3. CASE RenewalCommits(w)
        <4>1. proc[w].step \in Steps
          BY <3>3 DEF RenewalCommits, ProcessShape
        <4> QED BY <3>3, <4>1, OwnerWritesAreTheQueues DEF RenewalCommits
      <3>4. CASE ~(ClaimStep(w) \/ ReportCommits(w) \/ RenewalCommits(w))
        BY <2>5, <3>4
           DEF Worker, Up, BeginClaim, Stop, ClaimNothing, StartExecution, FinishExecution,
               BeginReport, ReportRejected, ReportErrors, Crash, Terminate, RenewalFires,
               RenewalRejected, RenewalErrors, RenewalStops
      <3> QED BY <3>1, <3>2, <3>3, <3>4
    <2> QED BY <2>1, <2>2, <2>3, <2>4, <2>5 DEF Next
  <1>2. Init => QueueInit
    BY DEF Init
  <1> QED BY <1>1, <1>2, Invariance, PTL DEF Spec, QueueSpec

-----------------------------------------------------------------------------
(* The workers beneath                                                     *)

LEMMA ExecutorStepsAreWorkerSteps ==
  ASSUME NEW w \in Workers, Executor(w)
  PROVE  Worker(w) \/ UNCHANGED vars
  BY DEF Executor, Worker, Enter, RejectTask, FailsDeterministically, ReturnHash, Leave,
         RequestEffect, EffectCommits, EffectErrors, ReturnEffect, Die

LEMMA EffectStepsAreSteps == EffectNext => [Next]_vars
  BY ExecutorStepsAreWorkerSteps DEF EffectNext, Elsewhere, LateEffect, Next, Worker

\* Executors and effects change nothing of what WorkerRuntime promises.
THEOREM EffectImplementsWorker == EffectSpec => Spec
  <1>1. EffectInit => Init
    BY DEF EffectInit
  <1>2. [EffectNext]_<<vars, effects>> => [Next]_vars
    BY EffectStepsAreSteps DEF effects
  <1> QED BY <1>1, <1>2, PTL DEF EffectSpec, Spec

-----------------------------------------------------------------------------
(* The executors                                                           *)

\* Where an executor is, and what it is about to return.
ExecAt == {"off", "started", "applying", "delaying"}

LEMMA SetExecAt ==
  ASSUME EffectTypeOK, NEW w \in Workers, NEW at \in ExecAt, NEW value \in Nat,
         SetExec(w, at, value)
  PROVE  /\ exec' \in [Workers -> [at : ExecAt, value : Nat]]
         /\ \A x \in Workers :
              exec'[x] = IF x = w THEN [at |-> at, value |-> value] ELSE exec[x]
  BY DEF EffectTypeOK, SetExec, ExecAt

LEMMA GenerationsAreNumbered ==
  \A g \in Generations : g = <<g[1], g[2]>> /\ g[1] \in Steps /\ g[2] \in Nat \ {0}
  BY WorkerRuntimeAssumption DEF Generations

\* What an executor does while its process executes.
LEMMA ExecutesWhileExecuting ==
  ASSUME EffectIInv, NEW w \in Workers, exec[w].at # "off"
  PROVE  /\ proc[w].at = "executing"
         /\ proc[w].step \in Steps /\ proc[w].version \in Nat /\ proc[w].version # 0
         /\ <<proc[w].step, proc[w].version>> \in Generations
         /\ task[proc[w].step] \in Task
  <1>1. proc[w].at = "executing"
    BY DEF EffectIInv, ExecutorShape
  <1>2. proc[w].step \in Steps /\ proc[w].version \in 1 .. step[proc[w].step].version
    BY <1>1 DEF EffectIInv, IInv, ProcessShape
  <1>3. step[proc[w].step].version \in Nat
    BY <1>2 DEF EffectIInv, IInv, TypeOK, QueueTypeOK, QueueRow
  <1>4. task[proc[w].step] \in Task
    BY <1>2, EffectRuntimeAssumption DEF EffectIInv, EffectTypeOK
  <1>5. proc[w].version \in 1 .. MaxAttempts[proc[w].step]
    BY <1>2, <1>3, WorkerRuntimeAssumption
       DEF EffectIInv, IInv, TypeOK, AttemptsAreClaims, QueueTypeOK, QueueRow
  <1>6. <<proc[w].step, proc[w].version>> \in Generations
    BY <1>2, <1>5 DEF Generations
  <1> QED BY <1>1, <1>2, <1>3, <1>4, <1>6

\* A stored effect is final.
LEMMA StoredIsFinal ==
  ASSUME EffectTypeOK, NEW s \in Steps, NEW v \in Nat
  PROVE  /\ Stored(s, v) \in [Steps -> Nat]
         /\ \A t \in Steps : effect[t] # 0 => Stored(s, v)[t] = effect[t]
         /\ v # 0 => Stored(s, v)[s] # 0
  BY DEF EffectTypeOK, Stored

LEMMA EffectInitEstablishes == EffectInit => EffectIInv
  <1> SUFFICES ASSUME EffectInit PROVE EffectIInv
    OBVIOUS
  <1>1. IInv
    BY InitEstablishes DEF EffectInit
  <1>2. EffectTypeOK
    BY <1>1 DEF EffectInit, EffectTypeOK, Off, IInv
  <1>3. ExecutorShape /\ ReportsAreTrue /\ ResultsAreEarned /\ ExecutionsAgree
    BY DEF EffectInit, Init, Down, Off, ExecutorShape, ReportsAreTrue, ResultsAreEarned,
           ExecutionsAgree
  <1>4. GivenUpForAReason
    BY DEF EffectInit, Init, QueueInit, GivenUpForAReason
  <1> QED BY <1>1, <1>2, <1>3, <1>4 DEF EffectIInv

-----------------------------------------------------------------------------
(* Why a step is given up                                                  *)

\* The rows a report decides about.
LEMMA ReportHasReason ==
  ASSUME IInv, GivenUpForAReason, task' = task, NEW s \in Steps, NEW w \in Workers, NEW v,
         NEW outcome, Report(s, w, v, outcome), Truthful(s, outcome)
  PROVE  GivenUpForAReason'
  <1> USE DEF GivenUpForAReason, Vacate, Owns
  <1>1. /\ step \in [Steps -> QueueRow]
        /\ \A t \in Steps : /\ step[t].attempts \in Nat /\ MaxAttempts[t] \in Nat
                            /\ step[t].attempts <= MaxAttempts[t]
    BY WorkerRuntimeAssumption DEF IInv, TypeOK, QueueTypeOK, QueueRow, AttemptsAreClaims
  <1>2. CASE outcome = "ok" /\ Complete(s, w, v)
    BY <1>1, <1>2 DEF Complete
  <1>3. CASE outcome = "error" /\ Retry(s, w, v)
    BY <1>1, <1>3 DEF Retry, Truthful, QueueRow
  <1>4. CASE /\ outcome = "invalid" \/ (outcome = "error" /\ step[s].attempts >= MaxAttempts[s])
             /\ GiveUp(s, w, v)
    <2>1. ~task[s].valid \/ step[s].attempts = MaxAttempts[s]
      BY <1>1, <1>4 DEF Truthful
    <2> QED BY <1>1, <1>4, <2>1 DEF GiveUp, QueueRow
  <1> QED BY <1>2, <1>3, <1>4 DEF Report

\* Nothing else gives a step up but a recovery without budget.
LEMMA OthersHaveReason ==
  ASSUME IInv, GivenUpForAReason, task' = task,
         \/ Tick
         \/ \E s \in Steps, w \in Workers : Claim(s, w)
         \/ \E s \in Steps, w \in Workers, v \in Nat : Renew(s, w, v)
         \/ \E batch \in Batches : Recover(batch) \/ Promote(batch)
         \/ UNCHANGED step
  PROVE  GivenUpForAReason'
  <1> USE DEF GivenUpForAReason
  <1>1. /\ step \in [Steps -> QueueRow]
        /\ \A t \in Steps : /\ step[t].attempts \in Nat /\ MaxAttempts[t] \in Nat
                            /\ step[t].attempts <= MaxAttempts[t]
    BY WorkerRuntimeAssumption DEF IInv, TypeOK, QueueTypeOK, QueueRow, AttemptsAreClaims
  <1>2. CASE Tick
    <2>1. \A s \in Steps : step'[s].status = step[s].status /\ step'[s].attempts = step[s].attempts
      BY <1>1, <1>2 DEF Tick, QueueRow
    <2> QED BY <2>1
  <1>3. CASE \E s \in Steps, w \in Workers : Claim(s, w)
    <2>1. PICK s \in Steps, w \in Workers : Claim(s, w)
      BY <1>3
    <2>2. PICK left \in 0 .. LeaseDuration :
            step' = [step EXCEPT ![s] = Claimed(s, w, left)]
      BY <2>1 DEF Claim
    <2>3. step'[s].status = "RUNNING" /\ \A t \in Steps \ {s} : step'[t] = step[t]
      BY <1>1, <2>2 DEF QueueRow, Claimed
    <2> QED BY <2>3
  <1>4. CASE \E s \in Steps, w \in Workers, v \in Nat : Renew(s, w, v)
    BY <1>1, <1>4 DEF Renew, QueueRow
  <1>5. ASSUME NEW batch \in Batches, Recover(batch) PROVE GivenUpForAReason'
    <2>1. \A s \in Steps :
            \/ step'[s] = step[s]
            \/ step'[s] = [step[s] EXCEPT !.status = "READY", !.owner = Null, !.leaseLeft = 0]
            \/ /\ step[s].attempts = MaxAttempts[s]
               /\ step'[s] = [step[s] EXCEPT !.status = "DEAD_LETTERED", !.owner = Null,
                                             !.leaseLeft = 0]
      <3> TAKE s \in Steps
      <3>1. CASE s \notin batch
        BY <1>5, <3>1 DEF Recover
      <3>2. CASE s \in batch /\ step[s].attempts < MaxAttempts[s]
        BY <1>5, <3>2 DEF Recover, Vacate
      <3>3. CASE s \in batch /\ ~(step[s].attempts < MaxAttempts[s])
        <4>1. step[s].attempts = MaxAttempts[s]
          BY <1>1, <3>3
        <4>2. step'[s] = Vacate(s, "DEAD_LETTERED")
          BY <1>5, <3>3 DEF Recover
        <4> QED BY <4>1, <4>2 DEF Vacate
      <3> QED BY <3>1, <3>2, <3>3
    <2>2. \A s \in Steps : step[s] \in QueueRow
      BY <1>1
    <2>3. \A s \in Steps :
            \/ step'[s] = step[s]
            \/ step'[s].status = "READY"
            \/ step[s].attempts = MaxAttempts[s] /\ step'[s].attempts = step[s].attempts
                 /\ step'[s].status = "DEAD_LETTERED"
      <3> TAKE s \in Steps
      <3> QED BY <2>1, <2>2 DEF QueueRow
    <2> QED BY <2>3
  <1>6. ASSUME NEW batch \in Batches, Promote(batch) PROVE GivenUpForAReason'
    <2>1. \A s \in Steps : step'[s] \in {step[s], [step[s] EXCEPT !.status = "READY"]}
      BY <1>6 DEF Promote
    <2> QED BY <1>1, <2>1 DEF QueueRow
  <1>7. CASE UNCHANGED step
    BY <1>7
  <1> QED BY <1>2, <1>3, <1>4, <1>5, <1>6, <1>7

LEMMA ReasonPreserved ==
  ASSUME EffectIInv, [Next]_vars, task' = task
  PROVE  GivenUpForAReason'
  <1> USE DEF EffectIInv
  <1>1. CASE UNCHANGED vars \/ Time \/ OrphanEnds
    BY <1>1, OthersHaveReason DEF vars, Time, OrphanEnds
  <1>2. CASE Coordinator
    BY <1>2, OthersHaveReason
       DEF Coordinator, RecoverySweep, PromotionSweep, SweepDoesNothing, CoordinatorWakes,
           CoordinatorRestarts
  <1>3. CASE OrphanCommits
    <2>1. PICK r \in orphans :
            \/ r.op = "claim" /\ \E s \in Steps : Claim(s, r.worker)
            \/ r.op = "renew" /\ Renew(r.step, r.worker, r.version)
            \/ r.op = "report" /\ Report(r.step, r.worker, r.version, r.outcome)
      BY <1>3 DEF OrphanCommits
    <2>2. r.worker \in Workers /\ r.version \in Nat /\ (r.op # "claim" => r.step \in Steps)
      BY DEF IInv, TypeOK, Requests, OrphansAreSound
    <2>3. r.op = "report" => Truthful(r.step, r.outcome)
      BY DEF ReportsAreTrue
    <2> QED BY <2>1, <2>2, <2>3, OthersHaveReason, ReportHasReason
  <1>4. ASSUME NEW w \in Workers, Worker(w) PROVE GivenUpForAReason'
    <2>1. CASE ReportCommits(w)
      <3>1. proc[w].step \in Steps /\ Truthful(proc[w].step, proc[w].outcome)
        BY <2>1 DEF ReportCommits, ReportsAreTrue, IInv, ProcessShape
      <3> QED BY <2>1, <3>1, ReportHasReason DEF ReportCommits
    <2>2. CASE RenewalCommits(w)
      <3>1. proc[w].step \in Steps /\ proc[w].version \in Nat
        BY <2>2 DEF RenewalCommits, IInv, TypeOK, ProcessShape
      <3> QED BY <2>2, <3>1, OthersHaveReason DEF RenewalCommits
    <2>3. CASE ClaimStep(w)
      BY <2>3, OthersHaveReason DEF ClaimStep
    <2>4. CASE UNCHANGED step
      BY <2>4, OthersHaveReason
    <2> QED
      BY <1>4, <2>1, <2>2, <2>3, <2>4
         DEF Worker, Up, BeginClaim, Stop, ClaimNothing, StartExecution, FinishExecution, BeginReport,
             ReportRejected, ReportErrors, Crash, Terminate, RenewalFires, RenewalRejected,
             RenewalErrors, RenewalStops
  <1> QED BY <1>1, <1>2, <1>3, <1>4 DEF Next

-----------------------------------------------------------------------------
(* The executors and their answers                                         *)

\* What happens elsewhere does not touch an execution, and a report says what
\* its execution returned.
LEMMA ElsewhereKeepsExecutions ==
  ASSUME IInv, Elsewhere
  PROVE  /\ UNCHANGED <<effects, finished>>
         /\ \A w \in Workers :
              /\ proc'[w].at = "executing" <=> proc[w].at = "executing"
              /\ proc[w].at = "executing" => proc'[w] = proc[w]
              /\ proc'[w].at \in {"draining", "reporting"} =>
                   /\ proc[w].at \in {"draining", "reporting"}
                   /\ proc'[w].step = proc[w].step /\ proc'[w].outcome = proc[w].outcome
  <1>1. proc \in [Workers -> Process]
    BY DEF IInv, TypeOK, Process
  <1>2. CASE Outside
    BY <1>2, OutsideLeavesProcesses DEF Elsewhere, processes, ghosts
  <1>3. CASE UNCHANGED <<proc, finished>>
    BY <1>3 DEF Elsewhere
  <1>4. ASSUME NEW w \in Workers,
               \/ Up(w) \/ BeginClaim(w) \/ Stop(w) \/ ClaimStep(w) \/ ClaimNothing(w)
               \/ ReportCommits(w) \/ ReportRejected(w) \/ ReportErrors(w)
        PROVE  /\ UNCHANGED finished /\ proc[w].at # "executing"
               /\ \E p : /\ proc' = [proc EXCEPT ![w] = p]
                         /\ p.at \in {"down", "polling", "claiming", "claimed"}
    <2>1. CASE Up(w) \/ BeginClaim(w) \/ ClaimNothing(w)
      <3>1. PICK at \in {"polling", "claiming"} : proc' = [proc EXCEPT ![w].at = at]
        BY <2>1 DEF Up, BeginClaim, ClaimNothing
      <3>2. proc' = [proc EXCEPT ![w] = [proc[w] EXCEPT !.at = at]]
            /\ [proc[w] EXCEPT !.at = at].at = at
        BY <1>1, <3>1 DEF Process
      <3> QED BY <2>1, <3>2 DEF Up, BeginClaim, ClaimNothing, ghosts
    <2>2. CASE Stop(w)
      <3>1. proc' = [proc EXCEPT ![w] = Down] /\ Down.at = "down"
        BY <2>2 DEF Stop, Down
      <3> QED BY <2>2, <3>1 DEF Stop, ghosts
    <2>3. CASE ClaimStep(w)
      BY <2>3 DEF ClaimStep, ghosts
    <2>4. CASE ReportCommits(w) \/ ReportRejected(w) \/ ReportErrors(w)
      <3> DEFINE p == [at |-> "polling", step |-> Null, version |-> 0, outcome |-> "ok"]
      <3>1. proc' = [proc EXCEPT ![w] = p] /\ p.at = "polling"
        BY <2>4 DEF ReportCommits, ReportRejected, ReportErrors, NextIteration
      <3>2. UNCHANGED finished /\ proc[w].at = "reporting"
        BY <2>4 DEF ReportCommits, ReportRejected, ReportErrors, ghosts
      <3> HIDE DEF p
      <3> QED BY <3>1, <3>2
    <2> QED BY <1>4, <2>1, <2>2, <2>3, <2>4
  <1>5. ASSUME NEW w \in Workers, BeginReport(w)
        PROVE  /\ UNCHANGED finished /\ proc[w].at = "draining"
               /\ proc' = [proc EXCEPT ![w].at = "reporting"]
    BY <1>5 DEF BeginReport, ghosts
  <1>6. ASSUME NEW w \in Workers,
               \/ Terminate(w)
               \/ RenewalFires(w) \/ RenewalCommits(w) \/ RenewalRejected(w)
               \/ RenewalErrors(w) \/ RenewalStops(w)
        PROVE  UNCHANGED <<proc, finished>>
    BY <1>6 DEF Terminate, RenewalFires, RenewalCommits, RenewalRejected, RenewalErrors,
                RenewalStops, SetRenewal, ghosts
  <1>7. UNCHANGED effects
    BY DEF Elsewhere
  <1>8. CASE \E w \in Workers : BeginReport(w)
    BY <1>1, <1>5, <1>7, <1>8 DEF Process
  <1>9. CASE \E w \in Workers :
              \/ Up(w) \/ BeginClaim(w) \/ Stop(w) \/ ClaimStep(w) \/ ClaimNothing(w)
              \/ ReportCommits(w) \/ ReportRejected(w) \/ ReportErrors(w)
    BY <1>1, <1>4, <1>7, <1>9
  <1> QED BY <1>2, <1>3, <1>6, <1>8, <1>9 DEF Elsewhere, Outside

\* What is abandoned was about to report what its execution returned.
LEMMA OrphansStayTrue ==
  ASSUME EffectIInv, task' = task, NEW w \in Workers, orphans' \subseteq orphans \cup InFlight(w)
  PROVE  \A r \in orphans' : r.op = "report" => Truthful(r.step, r.outcome)
  <1>1. \A r \in InFlight(w) :
          r.op = "report" => /\ proc[w].at = "reporting"
                             /\ r.step = proc[w].step /\ r.outcome = proc[w].outcome
    BY DEF InFlight
  <1> QED BY <1>1 DEF EffectIInv, ReportsAreTrue

\* Whatever a step leaves behind was there or was in flight at one worker.
LEMMA OrphansComeFromOneWorker ==
  ASSUME Next
  PROVE  orphans' \subseteq orphans \/ \E w \in Workers : orphans' \subseteq orphans \cup InFlight(w)
  <1>1. CASE Outside
    BY <1>1, OutsideLeavesProcesses
  <1>2. ASSUME NEW w \in Workers, Worker(w)
        PROVE  orphans' \subseteq orphans \/ orphans' \subseteq orphans \cup InFlight(w)
    <2>1. CASE ReportErrors(w)
      BY <2>1, AbandonedWasInFlight DEF ReportErrors
    <2>2. CASE Crash(w)
      BY <2>2, AbandonedWasInFlight DEF Crash
    <2>3. CASE RenewalErrors(w)
      BY <2>3, AbandonedWasInFlight DEF RenewalErrors
    <2> QED
      BY <1>2, <2>1, <2>2, <2>3
         DEF Worker, Up, BeginClaim, Stop, ClaimStep, ClaimNothing, StartExecution,
             FinishExecution, BeginReport, ReportCommits, ReportRejected, Terminate, RenewalFires,
             RenewalCommits, RenewalRejected, RenewalStops
  <1> QED BY <1>1, <1>2 DEF Next, Outside

LEMMA OrphanReportsTrue ==
  ASSUME EffectIInv, [Next]_vars, task' = task
  PROVE  \A r \in orphans' : r.op = "report" => Truthful(r.step, r.outcome)
  <1>1. CASE orphans' \subseteq orphans
    BY <1>1 DEF EffectIInv, ReportsAreTrue
  <1>2. CASE Next
    BY <1>1, <1>2, OrphansComeFromOneWorker, OrphansStayTrue
  <1> QED BY <1>1, <1>2 DEF vars

\* The part of EffectIInv that is about executors and what they return.
Executions ==
  /\ EffectTypeOK
  /\ ExecutorShape
  /\ \A w \in Workers :
       proc[w].at \in {"draining", "reporting"} => Truthful(proc[w].step, proc[w].outcome)
  /\ ResultsAreEarned
  /\ ExecutionsAgree

LEMMA ElsewherePreserves == ASSUME EffectIInv, IInv', Elsewhere PROVE Executions'
  <1> USE DEF EffectIInv, effects
  <1>1. UNCHANGED <<task, effect, late, exec, answers, finished>>
    BY ElsewhereKeepsExecutions
  <1>2. \A w \in Workers :
          /\ proc'[w].at = "executing" <=> proc[w].at = "executing"
          /\ proc[w].at = "executing" => proc'[w] = proc[w]
          /\ proc'[w].at \in {"draining", "reporting"} =>
               /\ proc[w].at \in {"draining", "reporting"}
               /\ proc'[w].step = proc[w].step /\ proc'[w].outcome = proc[w].outcome
    BY ElsewhereKeepsExecutions
  <1>3. EffectTypeOK'
    BY <1>1 DEF EffectTypeOK, IInv
  <1>4. ExecutorShape'
    BY <1>1, <1>2 DEF ExecutorShape
  <1>5. (\A w \in Workers :
          proc[w].at \in {"draining", "reporting"} => Truthful(proc[w].step, proc[w].outcome))'
    BY <1>1, <1>2 DEF ReportsAreTrue, Truthful
  <1>6. ResultsAreEarned' /\ ExecutionsAgree'
    BY <1>1 DEF ResultsAreEarned, ExecutionsAgree
  <1> QED BY <1>3, <1>4, <1>5, <1>6 DEF Executions

LEMMA EnterPreserves == ASSUME EffectIInv, IInv', NEW w \in Workers, Enter(w) PROVE Executions'
  <1> USE DEF EffectIInv, Enter
  <1>1. UNCHANGED <<task, effect, late, answers, finished>>
    BY DEF StartExecution
  <1>2. /\ exec' \in [Workers -> [at : ExecAt, value : Nat]]
        /\ \A x \in Workers : exec'[x] = IF x = w THEN [at |-> "started", value |-> 0] ELSE exec[x]
    BY SetExecAt DEF ExecAt
  <1>3. \A x \in Workers :
          /\ x = w => proc'[x].at = "executing"
          /\ x # w => proc'[x] = proc[x]
    BY DEF StartExecution, IInv, TypeOK
  <1>4. EffectTypeOK'
    BY <1>1, <1>2 DEF EffectTypeOK, IInv, ExecAt
  <1>5. ExecutorShape'
    BY <1>1, <1>2, <1>3 DEF ExecutorShape
  <1>6. (\A x \in Workers :
          proc[x].at \in {"draining", "reporting"} => Truthful(proc[x].step, proc[x].outcome))'
    BY <1>1, <1>3 DEF ReportsAreTrue, Truthful
  <1>7. ResultsAreEarned' /\ ExecutionsAgree'
    BY <1>1 DEF ResultsAreEarned, ExecutionsAgree
  <1> QED BY <1>4, <1>5, <1>6, <1>7 DEF Executions

\* An execution ends: with a result that its task may have, or with a reason.
LEMMA LeavingPreserves ==
  ASSUME EffectIInv, IInv', NEW w \in Workers, exec[w].at # "off", NEW outcome \in Outcomes,
         FinishExecution(w), proc'[w].outcome = outcome, SetExec(w, "off", 0),
         task' = task, effect' = effect, late' \subseteq Generations,
         answers' \subseteq Answer,
         Truthful(proc[w].step, outcome),
         outcome = "ok" =>
           /\ task[proc[w].step].valid
           /\ task[proc[w].step].type = "fail_then_hash" =>
                proc[w].version > task[proc[w].step].failures,
         \A a \in answers' \ answers :
           task[a.step].type = "idempotent_effect" => a.value = effect[a.step] /\ a.value # 0
  PROVE  Executions'
  <1> USE DEF EffectIInv
  <1>1. /\ exec' \in [Workers -> [at : ExecAt, value : Nat]]
        /\ \A x \in Workers : exec'[x] = IF x = w THEN [at |-> "off", value |-> 0] ELSE exec[x]
    BY SetExecAt DEF ExecAt
  <1>2. PICK o \in Outcomes :
          /\ proc' = [proc EXCEPT ![w].at = "draining", ![w].outcome = o]
          /\ finished' = IF o = "ok" THEN finished \cup {<<proc[w].step, proc[w].version>>}
                                     ELSE finished
    BY DEF FinishExecution
  <1>3. /\ proc'[w].at = "draining" /\ proc'[w].step = proc[w].step /\ o = outcome
        /\ \A x \in Workers : x # w => proc'[x] = proc[x]
    BY <1>2 DEF IInv, TypeOK
  <1>4. EffectTypeOK'
    BY <1>1 DEF EffectTypeOK, IInv, ExecAt
  <1>5. ExecutorShape'
    BY <1>1, <1>3 DEF ExecutorShape
  <1>6. (\A x \in Workers :
          proc[x].at \in {"draining", "reporting"} => Truthful(proc[x].step, proc[x].outcome))'
    BY <1>3 DEF ReportsAreTrue, Truthful
  <1>7. ResultsAreEarned'
    BY <1>2, <1>3 DEF ResultsAreEarned
  <1>8. ExecutionsAgree'
    BY DEF ExecutionsAgree
  <1> QED BY <1>4, <1>5, <1>6, <1>7, <1>8 DEF Executions

\* What an executor returns is an answer of its generation.
LEMMA AnswersAreTyped ==
  ASSUME EffectIInv, NEW w \in Workers, exec[w].at # "off", NEW value \in Nat
  PROVE  [step |-> proc[w].step, version |-> proc[w].version, value |-> value] \in Answer
  BY ExecutesWhileExecuting DEF Answer

LEMMA RejectTaskPreserves == ASSUME EffectIInv, IInv', NEW w \in Workers, RejectTask(w) PROVE Executions'
  <1>1. Leave(w, "invalid", 0) /\ exec[w].at # "off"
    BY DEF RejectTask
  <1>2. FinishExecution(w) /\ proc'[w].outcome = "invalid" /\ SetExec(w, "off", 0)
        /\ UNCHANGED <<task, effect, late>>
    BY <1>1 DEF Leave
  <1>3. answers' = answers
    BY <1>1 DEF Leave
  <1>4. Truthful(proc[w].step, "invalid")
    BY DEF RejectTask, Truthful
  <1> QED BY <1>1, <1>2, <1>3, <1>4, LeavingPreserves DEF EffectIInv, EffectTypeOK, Outcomes

LEMMA FailsDeterministicallyPreserves == ASSUME EffectIInv, IInv', NEW w \in Workers, FailsDeterministically(w) PROVE Executions'
  <1>1. Leave(w, "error", 0) /\ exec[w].at # "off"
    BY DEF FailsDeterministically
  <1>2. FinishExecution(w) /\ proc'[w].outcome = "error" /\ SetExec(w, "off", 0)
        /\ UNCHANGED <<task, effect, late>>
    BY <1>1 DEF Leave
  <1>3. answers' = answers
    BY <1>1 DEF Leave
  <1>4. Truthful(proc[w].step, "error")
    BY DEF FailsDeterministically, Truthful
  <1> QED BY <1>1, <1>2, <1>3, <1>4, LeavingPreserves DEF EffectIInv, EffectTypeOK, Outcomes

LEMMA ReturnHashPreserves == ASSUME EffectIInv, IInv', NEW w \in Workers, ReturnHash(w) PROVE Executions'
  <1>1. Leave(w, "ok", 0) /\ exec[w].at # "off"
    BY DEF ReturnHash
  <1>2. FinishExecution(w) /\ proc'[w].outcome = "ok" /\ SetExec(w, "off", 0)
        /\ UNCHANGED <<task, effect, late>>
    BY <1>1 DEF Leave
  <1> DEFINE answer == [step |-> proc[w].step, version |-> proc[w].version, value |-> 0]
  <1>3. answers' = answers \cup {answer} /\ answer \in Answer
    BY <1>1, AnswersAreTyped DEF Leave
  <1>4. /\ task[proc[w].step].valid /\ task[proc[w].step].type # "idempotent_effect"
        /\ task[proc[w].step].type = "fail_then_hash" =>
             proc[w].version > task[proc[w].step].failures
    BY DEF ReturnHash
  <1>5. \A a \in answers' \ answers :
          task[a.step].type = "idempotent_effect" => a.value = effect[a.step] /\ a.value # 0
    BY <1>3, <1>4
  <1>6. Truthful(proc[w].step, "ok")
    BY DEF Truthful
  <1> QED
    BY <1>1, <1>2, <1>3, <1>4, <1>5, <1>6, LeavingPreserves DEF EffectIInv, EffectTypeOK, Outcomes

LEMMA ReturnEffectPreserves == ASSUME EffectIInv, IInv', NEW w \in Workers, ReturnEffect(w) PROVE Executions'
  <1>1. Leave(w, "ok", exec[w].value) /\ exec[w].at # "off"
    BY DEF ReturnEffect
  <1>2. FinishExecution(w) /\ proc'[w].outcome = "ok" /\ SetExec(w, "off", 0)
        /\ UNCHANGED <<task, effect, late>>
    BY <1>1 DEF Leave
  <1> DEFINE answer == [step |-> proc[w].step, version |-> proc[w].version, value |-> exec[w].value]
  <1>3. /\ task[proc[w].step].valid /\ task[proc[w].step].type = "idempotent_effect"
        /\ exec[w].value = effect[proc[w].step] /\ exec[w].value # 0 /\ exec[w].value \in Nat
    BY DEF ReturnEffect, EffectIInv, ExecutorShape, EffectTypeOK
  <1>4. answers' = answers \cup {answer} /\ answer \in Answer
    BY <1>1, <1>3, AnswersAreTyped DEF Leave
  <1>5. \A a \in answers' \ answers :
          task[a.step].type = "idempotent_effect" => a.value = effect[a.step] /\ a.value # 0
    BY <1>3, <1>4
  <1>6. Truthful(proc[w].step, "ok")
    BY DEF Truthful
  <1> QED
    BY <1>1, <1>2, <1>3, <1>4, <1>5, <1>6, LeavingPreserves DEF EffectIInv, EffectTypeOK, Outcomes

LEMMA EffectErrorsPreserves ==
  ASSUME EffectIInv, IInv', NEW w \in Workers, EffectErrors(w) PROVE Executions'
  <1>1. /\ FinishExecution(w) /\ proc'[w].outcome = "error" /\ SetExec(w, "off", 0)
        /\ UNCHANGED <<task, effect, answers>> /\ exec[w].at # "off"
        /\ late' \in {late, late \cup {<<proc[w].step, proc[w].version>>}}
    BY DEF EffectErrors
  <1>2. late' \subseteq Generations
    BY <1>1, ExecutesWhileExecuting DEF EffectIInv, EffectTypeOK
  <1>3. Truthful(proc[w].step, "error")
    BY DEF EffectErrors, EffectIInv, ExecutorShape, Truthful
  <1> QED BY <1>1, <1>2, <1>3, LeavingPreserves DEF EffectIInv, EffectTypeOK, Outcomes

\* The request and its answer leave the process where it is.
LEMMA ApplyingPreserves ==
  ASSUME EffectIInv, IInv', NEW w \in Workers, RequestEffect(w) \/ EffectCommits(w)
  PROVE  Executions'
  <1> USE DEF EffectIInv
  <1> DEFINE s == proc[w].step
  <1>1. UNCHANGED <<vars, task, late, answers>> /\ exec[w].at # "off"
    BY DEF RequestEffect, EffectCommits
  <1>2. /\ s \in Steps /\ proc[w].at = "executing"
        /\ task[s].valid /\ task[s].type = "idempotent_effect"
    BY <1>1, ExecutesWhileExecuting DEF RequestEffect, EffectCommits, ExecutorShape
  <1>3. PICK at \in {"applying", "delaying"}, value \in Nat :
          /\ SetExec(w, at, value)
          /\ effect' \in [Steps -> Nat]
          /\ \A t \in Steps : effect[t] # 0 => effect'[t] = effect[t]
          /\ at = "delaying" => value = effect'[s] /\ value # 0
    <2>1. CASE RequestEffect(w)
      BY <2>1 DEF RequestEffect, EffectTypeOK
    <2>2. CASE EffectCommits(w)
      <3>1. /\ effect' = Stored(s, proc[w].version) /\ proc[w].version \in Nat /\ proc[w].version # 0
            /\ SetExec(w, "delaying", effect'[s])
        BY <1>1, <2>2, ExecutesWhileExecuting DEF EffectCommits
      <3>2. /\ effect' \in [Steps -> Nat] /\ effect'[s] # 0
            /\ \A t \in Steps : effect[t] # 0 => effect'[t] = effect[t]
        BY <1>2, <3>1, StoredIsFinal
      <3> QED BY <1>2, <3>1, <3>2
    <2> QED BY <2>1, <2>2
  <1>4. /\ exec' \in [Workers -> [at : ExecAt, value : Nat]]
        /\ \A x \in Workers : exec'[x] = IF x = w THEN [at |-> at, value |-> value] ELSE exec[x]
    BY <1>3, SetExecAt DEF ExecAt
  <1>5. EffectTypeOK'
    BY <1>1, <1>3, <1>4 DEF EffectTypeOK, IInv, ExecAt
  <1>6. ExecutorShape'
    <2> SUFFICES ASSUME NEW x \in Workers
                 PROVE  (/\ exec[x].at # "off" <=> proc[x].at = "executing"
                         /\ exec[x].at \in {"applying", "delaying"} =>
                              task[proc[x].step].valid
                              /\ task[proc[x].step].type = "idempotent_effect"
                         /\ exec[x].at = "delaying" =>
                              exec[x].value = effect[proc[x].step] /\ exec[x].value # 0)'
      BY DEF ExecutorShape
    <2>1. proc'[x] = proc[x] /\ task' = task
      BY <1>1 DEF vars
    <2>2. CASE x = w
      BY <1>2, <1>3, <1>4, <2>1, <2>2
    <2>3. CASE x # w
      <3>1. exec'[x] = exec[x]
        BY <1>4, <2>3
      <3>2. exec[x].at = "delaying" => proc[x].step \in Steps
        BY ExecutesWhileExecuting
      <3> QED BY <1>3, <2>1, <3>1, <3>2 DEF ExecutorShape
    <2> QED BY <2>2, <2>3
  <1>7. (\A x \in Workers :
          proc[x].at \in {"draining", "reporting"} => Truthful(proc[x].step, proc[x].outcome))'
    BY <1>1 DEF vars, ReportsAreTrue, Truthful
  <1>8. ResultsAreEarned'
    BY <1>1 DEF vars, ResultsAreEarned
  <1>9. ExecutionsAgree'
    BY <1>1, <1>3 DEF ExecutionsAgree, EffectTypeOK, Answer
  <1> QED BY <1>5, <1>6, <1>7, <1>8, <1>9 DEF Executions

LEMMA DiePreserves == ASSUME EffectIInv, IInv', NEW w \in Workers, Die(w) PROVE Executions'
  <1> USE DEF EffectIInv
  <1>1. /\ UNCHANGED <<task, effect, answers, finished>>
        /\ proc' = [proc EXCEPT ![w] = Down] /\ SetExec(w, "off", 0)
        /\ late' = late \/ (exec[w].at = "applying" /\ late' = late \cup {<<proc[w].step, proc[w].version>>})
    BY DEF Die, Crash, ghosts
  <1>2. late' \subseteq Generations
    BY <1>1, ExecutesWhileExecuting DEF EffectTypeOK
  <1>3. /\ exec' \in [Workers -> [at : ExecAt, value : Nat]]
        /\ \A x \in Workers : exec'[x] = IF x = w THEN [at |-> "off", value |-> 0] ELSE exec[x]
    BY <1>1, SetExecAt DEF ExecAt
  <1>4. \A x \in Workers : proc'[x] = IF x = w THEN Down ELSE proc[x]
    BY <1>1 DEF IInv, TypeOK
  <1>5. EffectTypeOK'
    BY <1>1, <1>2, <1>3 DEF EffectTypeOK, IInv, ExecAt
  <1>6. ExecutorShape'
    BY <1>1, <1>3, <1>4 DEF ExecutorShape, Down
  <1>7. (\A x \in Workers :
          proc[x].at \in {"draining", "reporting"} => Truthful(proc[x].step, proc[x].outcome))'
    BY <1>1, <1>4 DEF ReportsAreTrue, Truthful, Down
  <1>8. ResultsAreEarned' /\ ExecutionsAgree'
    BY <1>1 DEF ResultsAreEarned, ExecutionsAgree
  <1> QED BY <1>5, <1>6, <1>7, <1>8 DEF Executions

\* A late request meets what is stored, and never changes it.
LEMMA LateEffectPreserves == ASSUME EffectIInv, IInv', LateEffect PROVE Executions'
  <1> USE DEF EffectIInv
  <1>1. PICK r \in late :
          /\ late' = late \ {r}
          /\ effect' \in {effect, Stored(r[1], r[2])}
          /\ UNCHANGED <<vars, task, exec, answers>>
    BY DEF LateEffect
  <1>2. r[1] \in Steps /\ r[2] \in Nat
    BY GenerationsAreNumbered DEF EffectTypeOK
  <1>3. effect' \in [Steps -> Nat] /\ \A t \in Steps : effect[t] # 0 => effect'[t] = effect[t]
    <2>1. /\ Stored(r[1], r[2]) \in [Steps -> Nat]
          /\ \A t \in Steps : effect[t] # 0 => Stored(r[1], r[2])[t] = effect[t]
      BY <1>2, StoredIsFinal
    <2>2. effect \in [Steps -> Nat]
      BY DEF EffectTypeOK
    <2> QED BY <1>1, <2>1, <2>2
  <1>4. EffectTypeOK'
    BY <1>1, <1>3 DEF EffectTypeOK, IInv
  <1>5. \A x \in Workers : exec[x].at = "delaying" => proc[x].step \in Steps
    BY ExecutesWhileExecuting
  <1>6. ExecutorShape'
    BY <1>1, <1>3, <1>5 DEF vars, ExecutorShape
  <1>7. (\A x \in Workers :
          proc[x].at \in {"draining", "reporting"} => Truthful(proc[x].step, proc[x].outcome))'
    BY <1>1 DEF vars, ReportsAreTrue, Truthful
  <1>8. ResultsAreEarned'
    BY <1>1 DEF vars, ResultsAreEarned
  <1>9. ExecutionsAgree'
    BY <1>1, <1>3 DEF ExecutionsAgree, EffectTypeOK, Answer
  <1> QED BY <1>4, <1>6, <1>7, <1>8, <1>9 DEF Executions

-----------------------------------------------------------------------------
(* The theorems                                                            *)

LEMMA EffectNextPreserves == EffectIInv /\ [EffectNext]_<<vars, effects>> => EffectIInv'
  <1> SUFFICES ASSUME EffectIInv, [EffectNext]_<<vars, effects>> PROVE EffectIInv'
    OBVIOUS
  <1>1. [Next]_vars
    BY EffectStepsAreSteps
  <1>2. IInv'
    BY <1>1, NextPreserves DEF EffectIInv
  <1>3. task' = task
    BY DEF EffectNext, Elsewhere, LateEffect, Executor, Enter, RejectTask, FailsDeterministically,
           ReturnHash, Leave, RequestEffect, EffectCommits, EffectErrors, ReturnEffect, Die, effects
  <1>4. GivenUpForAReason'
    BY <1>1, <1>3, ReasonPreserved
  <1>5. (\A r \in orphans : r.op = "report" => Truthful(r.step, r.outcome))'
    BY <1>1, <1>3, OrphanReportsTrue DEF Truthful
  <1>6. CASE EffectNext
    <2>1. Executions'
      BY <1>2, <1>6, ElsewherePreserves, EnterPreserves, RejectTaskPreserves,
         FailsDeterministicallyPreserves, ReturnHashPreserves, ApplyingPreserves,
         EffectErrorsPreserves, ReturnEffectPreserves, DiePreserves, LateEffectPreserves
         DEF EffectNext, Executor
    <2> QED BY <1>2, <1>4, <1>5, <2>1 DEF EffectIInv, Executions, ReportsAreTrue
  <1>7. CASE UNCHANGED <<vars, effects>>
    <2>1. EffectTypeOK'
      BY <1>2, <1>7 DEF effects, EffectIInv, EffectTypeOK, IInv
    <2>2. (ExecutorShape /\ ReportsAreTrue)'
      BY <1>7 DEF vars, effects, EffectIInv, ExecutorShape, ReportsAreTrue, Truthful
    <2>3. (ResultsAreEarned /\ ExecutionsAgree)'
      BY <1>7 DEF vars, effects, EffectIInv, ResultsAreEarned, ExecutionsAgree
    <2> QED BY <1>2, <1>4, <2>1, <2>2, <2>3 DEF EffectIInv
  <1> QED BY <1>6, <1>7

\* Executors, effects, reports and rows always fit together.
THEOREM EffectInvariance == EffectSpec => []EffectIInv
  BY EffectInitEstablishes, EffectNextPreserves, PTL DEF EffectSpec

\* Every execution of a step with an effect returns the one effect that is
\* stored, whoever applied it and whatever was killed or late.
THEOREM ReexecutionsAgree == EffectSpec => []ExecutionsAgree
  <1>1. EffectIInv => ExecutionsAgree
    BY DEF EffectIInv
  <1> QED BY <1>1, EffectInvariance, PTL

\* A step succeeds only where its task may, after the failures it asks for.
THEOREM SuccessNeedsItsTask == EffectSpec => []SuccessIsEarned
  <1>1. EffectIInv => SuccessIsEarned
    <2> SUFFICES ASSUME EffectIInv, NEW s \in Steps, step[s].status = "SUCCEEDED"
                 PROVE  /\ task[s].valid
                        /\ task[s].type = "fail_then_hash" => step[s].attempts > task[s].failures
      BY DEF EffectIInv, IInv, SuccessIsEarned
    <2>1. <<s, step[s].result>> \in finished /\ step[s].result = step[s].attempts
      BY DEF EffectIInv, IInv, SuccessWasExecuted, AttemptsAreClaims
    <2> QED BY <2>1 DEF EffectIInv, ResultsAreEarned
  <1> QED BY <1>1, EffectInvariance, PTL

\* A step is given up for invalid input or for a budget that is used up.
THEOREM ReasonIsGiven == EffectSpec => []GivenUpForAReason
  <1>1. EffectIInv => GivenUpForAReason
    BY DEF EffectIInv
  <1> QED BY <1>1, EffectInvariance, PTL

-----------------------------------------------------------------------------
(* The register behind the executors                                       *)

RegisterView == <<[s \in Steps |-> RegisterRow(s)], [c \in Generations |-> ToldTo(c)]>>

LEMMA StandingRegister ==
  ASSUME UNCHANGED <<task, effect>>, answers' = answers
  PROVE  UNCHANGED RegisterView
  BY DEF RegisterView, RegisterRow, ToldTo, Handed

\* A request that commits first sets the register of its step, and one that
\* commits later leaves it alone.
LEMMA StoringSetsTheRegister ==
  ASSUME EffectIInv, NEW c \in Generations, effect' = Stored(c[1], c[2]),
         UNCHANGED <<task, answers>>
  PROVE  Register!Apply(c) \/ UNCHANGED RegisterView
  <1> USE DEF EffectIInv, EffectTypeOK
  <1> DEFINE s == c[1]
             held == [t \in Steps |-> RegisterRow(t)]
  <1>1. c = <<s, c[2]>> /\ s \in Steps /\ c[2] \in Nat \ {0}
    BY GenerationsAreNumbered
  <1>2. CASE effect[s] # 0
    <2>1. effect' = effect
      BY <1>2 DEF Stored
    <2> QED BY <2>1, StandingRegister
  <1>3. CASE effect[s] = 0
    <2>1. effect' = [effect EXCEPT ![s] = c[2]]
      BY <1>3 DEF Stored
    <2>2. held[s] = Register!NoRow
      BY <1>1, <1>3 DEF RegisterRow, NoEffect, Register!NoRow
    <2>3. \A t \in Steps : RegisterRow(t)' = IF t = s THEN [request |-> s, result |-> c] ELSE RegisterRow(t)
      BY <1>1, <2>1 DEF RegisterRow
    <2>4. held' = [held EXCEPT ![s] = Register!MyRow(c)]
      BY <1>1, <2>3 DEF Register!MyRow
    <2>5. UNCHANGED [g \in Generations |-> ToldTo(g)]
      BY DEF ToldTo, Handed
    <2> QED BY <1>1, <2>2, <2>4, <2>5 DEF Register!Apply
  <1> QED BY <1>2, <1>3


LEMMA OneOfOne == \A v : OneOf({v}) = v
  BY DEF OneOf

\* An answer is no other generation's.
LEMMA HandedElsewhere ==
  ASSUME NEW a \in Answer, answers' = answers \cup {a}, task' = task,
         NEW c \in Generations, c # <<a.step, a.version>>
  PROVE  ToldTo(c)' = ToldTo(c)
  <1>1. c = <<c[1], c[2]>>
    BY GenerationsAreNumbered
  <1>2. Handed(c)' = Handed(c)
    BY <1>1 DEF Handed
  <1> QED BY <1>2 DEF ToldTo

\* What an executor returns is what the register of its step says to its
\* generation.
LEMMA ReturningAnswers ==
  ASSUME EffectIInv, NEW w \in Workers, ReturnEffect(w)
  PROVE  \/ \E c \in Generations : Register!Answer(c)
         \/ UNCHANGED RegisterView
  <1> USE DEF EffectIInv, EffectTypeOK
  <1> DEFINE s == proc[w].step
             v == proc[w].version
             a == [step |-> s, version |-> v, value |-> effect[s]]
             held == [t \in Steps |-> RegisterRow(t)]
             told == [g \in Generations |-> ToldTo(g)]
  <1>1. /\ exec[w].at = "delaying" /\ exec[w].value = effect[s] /\ effect[s] # 0
        /\ task[s].type = "idempotent_effect"
    BY DEF ReturnEffect, ExecutorShape
  <1>2. s \in Steps /\ v \in Nat \ {0} /\ <<s, v>> \in Generations /\ effect[s] \in Nat
    BY <1>1, ExecutesWhileExecuting
  <1>c. PICK c \in Generations : c = <<s, v>>
    BY <1>2
  <1>3. a \in Answer /\ answers' = answers \cup {a} /\ UNCHANGED <<task, effect>>
    BY <1>1, <1>2 DEF ReturnEffect, Leave, Answer
  <1>4. \A g \in Generations : g # c => ToldTo(g)' = ToldTo(g)
    BY <1>c, <1>3, HandedElsewhere
  <1>5. Handed(c)' = {effect[s]}
    <2>1. \A x \in answers : x.step = s => x.value = effect[s]
      BY <1>1, <1>2 DEF ExecutionsAgree
    <2>2. \A x \in Handed(c)' : x = effect[s]
      BY <1>c, <1>3, <2>1 DEF Handed
    <2>3. effect[s] \in Handed(c)'
      <3>1. a \in {x \in answers : /\ x.step = c[1] /\ x.version = c[2]
                                 /\ task[x.step].type = "idempotent_effect"}'
        BY <1>c, <1>1, <1>3
      <3> QED BY <3>1 DEF Handed
    <2> QED BY <2>2, <2>3
  <1>6. held' = held
    BY <1>3 DEF RegisterRow
  <1>7. CASE Handed(c) = {}
    <2>1. told[c] = Register!Pending
      BY <1>7 DEF ToldTo, Register!Pending
    <2>2. held[s] = [request |-> s, result |-> <<s, effect[s]>>]
      BY <1>1, <1>2 DEF RegisterRow
    <2>3. held[s] # Register!NoRow
      BY <1>2, <2>2, WorkerRuntimeAssumption DEF Register!NoRow
    <2>4. ToldTo(c)' = Register!Told(c, held[s])
      <3>1. ToldTo(c)' = [outcome |-> IF effect[s] = v THEN "applied" ELSE "reused",
                          result |-> <<s, effect[s]>>]
        <4>1. Handed(c)' # {} /\ OneOf(Handed(c)') = effect[s]
          BY <1>5, OneOfOne
        <4> QED BY <1>c, <4>1 DEF ToldTo
      <3>2. Register!MyRow(c) = [request |-> s, result |-> c]
        BY <1>c DEF Register!MyRow
      <3>3. CASE effect[s] = v
        <4>1. held[s] = Register!MyRow(c)
          BY <1>c, <2>2, <3>2, <3>3
        <4>2. Register!Told(c, held[s]) = [outcome |-> "applied", result |-> c]
          BY <4>1 DEF Register!Told
        <4> QED BY <1>c, <3>1, <3>3, <4>2
      <3>4. CASE effect[s] # v
        <4>1. held[s] # Register!MyRow(c) /\ held[s].request = s
          BY <1>c, <2>2, <3>2, <3>4
        <4>2. Register!Told(c, held[s]) = [outcome |-> "reused", result |-> <<s, effect[s]>>]
          BY <1>c, <2>2, <4>1 DEF Register!Told
        <4> QED BY <3>1, <3>4, <4>2
      <3> QED BY <3>3, <3>4
    <2>5. told' = [told EXCEPT ![c] = Register!Told(c, held[s])]
      BY <1>4, <2>4
    <2>6. Register!Answer(c)
      BY <1>c, <1>6, <2>1, <2>3, <2>5 DEF Register!Answer
    <2> QED BY <2>6
  <1>8. CASE Handed(c) # {}
    <2>1. Handed(c) = {effect[s]}
      BY <1>c, <1>1, <1>2, <1>8 DEF Handed, ExecutionsAgree
    <2>2. ToldTo(c)' = ToldTo(c)
      <3>1. Handed(c)' = Handed(c)
        BY <1>5, <2>1
      <3> QED BY <3>1 DEF ToldTo
    <2>3. told' = told
      BY <1>4, <2>2
    <2> QED BY <1>6, <2>3 DEF RegisterView
  <1> QED BY <1>7, <1>8

\* The answer of a task without an effect is no answer of a register.
LEMMA HashesLeaveTheRegister ==
  ASSUME NEW w \in Workers, ReturnHash(w)
  PROVE  UNCHANGED RegisterView
  <1> DEFINE a == [step |-> proc[w].step, version |-> proc[w].version, value |-> 0]
  <1>1. /\ answers' = answers \cup {a} /\ UNCHANGED <<task, effect>>
        /\ task[a.step].type # "idempotent_effect"
    BY DEF ReturnHash, Leave
  <1>2. \A g \in Generations : Handed(g)' = Handed(g)
    BY <1>1 DEF Handed
  <1>3. \A t \in Steps : RegisterRow(t)' = RegisterRow(t)
    BY <1>1 DEF RegisterRow
  <1>4. \A g \in Generations : ToldTo(g)' = ToldTo(g)
    BY <1>2 DEF ToldTo
  <1> QED BY <1>3, <1>4 DEF RegisterView

\* Executors get their effects from registers as IdempotentEffect provides
\* them: whatever workers are killed and whatever requests are late, the first
\* to commit sets the register of the step, and every executor returns what it
\* holds (execute-step.ts, runIdempotentEffect).
THEOREM ExecutorsKeepTheRegister == EffectSpec => ExecutorsUseARegister
  <1>1. EffectInit => Register!RegisterInit
    BY DEF EffectInit, Register!RegisterInit, RegisterRow, NoEffect, Register!NoRow,
           ToldTo, Handed, Register!Pending
  <1>2. ASSUME EffectIInv, [EffectNext]_<<vars, effects>>
        PROVE  [Register!RegisterNext]_RegisterView
    <2> USE <1>2 DEF EffectIInv, EffectTypeOK
    <2>1. CASE UNCHANGED <<vars, effects>> \/ Elsewhere
      <3>1. UNCHANGED <<task, effect>> /\ answers' = answers
        BY <2>1 DEF effects, Elsewhere
      <3> QED BY <3>1, StandingRegister
    <2>2. CASE LateEffect
      <3>1. PICK c \in late : effect' \in {effect, Stored(c[1], c[2])} /\ UNCHANGED <<task, answers>>
        BY <2>2 DEF LateEffect
      <3>2. CASE effect' = effect
        BY <3>1, <3>2, StandingRegister
      <3>3. CASE effect' = Stored(c[1], c[2])
        BY <3>1, <3>3, StoringSetsTheRegister DEF Register!RegisterNext
      <3> QED BY <3>1, <3>2, <3>3
    <2>3. ASSUME NEW w \in Workers, Executor(w)
          PROVE  [Register!RegisterNext]_RegisterView
      <3>1. CASE EffectCommits(w)
        <4> DEFINE c == <<proc[w].step, proc[w].version>>
        <4>1. c \in Generations
          BY <3>1, ExecutesWhileExecuting DEF EffectCommits
        <4>2. effect' = Stored(c[1], c[2]) /\ UNCHANGED <<task, answers>>
          BY <3>1 DEF EffectCommits
        <4> QED BY <4>1, <4>2, StoringSetsTheRegister DEF Register!RegisterNext
      <3>2. CASE ReturnEffect(w)
        BY <3>2, ReturningAnswers DEF Register!RegisterNext
      <3>3. CASE ReturnHash(w)
        BY <3>3, HashesLeaveTheRegister
      <3>4. CASE \/ Enter(w) \/ RejectTask(w) \/ FailsDeterministically(w)
                 \/ RequestEffect(w) \/ EffectErrors(w) \/ Die(w)
        <4>1. UNCHANGED <<task, effect>> /\ answers' = answers
          BY <3>4 DEF Enter, RejectTask, FailsDeterministically, Leave, RequestEffect,
                      EffectErrors, Die
        <4> QED BY <4>1, StandingRegister
      <3> QED BY <2>3, <3>1, <3>2, <3>3, <3>4 DEF Executor
    <2> QED BY <2>1, <2>2, <2>3 DEF EffectNext
  <1> QED
    BY <1>1, <1>2, EffectInvariance, PTL
       DEF EffectSpec, ExecutorsUseARegister, Register!RegisterSpec, RegisterView

=============================================================================
