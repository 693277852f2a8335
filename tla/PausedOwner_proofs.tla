------------------------- MODULE PausedOwner_proofs -------------------------
(* Machine-checked proofs about PausedOwner, for any lease, backoff and         *)
(* attempt budget above one, and for either way of halting the owner.           *)
EXTENDS PausedOwner, StepStore_proofs

-----------------------------------------------------------------------------
(* The processes and their sessions                                        *)

LEMMA Cast ==
  /\ a \in Workers /\ b \in Workers /\ a # b /\ Workers = {a, b}
  /\ Step \in Steps /\ Steps = {Step} /\ MaxAttempts[Step] > 1
  /\ Coord \in Sessions /\ Probe \in Sessions /\ Coord # Probe /\ Coord \notin Workers
  BY PausedOwnerAssumption

LEMMA Connections ==
  ASSUME NEW w \in Workers
  PROVE  /\ Work(w) \in Sessions /\ Renewal(w) \in Sessions /\ Work(w) # Renewal(w)
         /\ Work(w) \notin {Coord, Probe} /\ Renewal(w) \notin {Coord, Probe}
         /\ \A x \in Workers : /\ Work(x) = Work(w) => x = w
                               /\ Renewal(x) = Renewal(w) => x = w
                               /\ Work(x) # Renewal(w)
         /\ Work(w) \in Workers \X {"work"} /\ Work(w)[1] = w
         /\ Renewal(w) \notin Workers \X {"work"} /\ Renewal(w)[1] = w
  BY PausedOwnerAssumption DEF Work, Renewal

LEMMA EverySession ==
  ASSUME NEW c \in Sessions
  PROVE  \/ c \in {Coord, Probe} /\ c \notin Workers \X {"work", "renewal"}
         \/ \E w \in Workers : c \in {Work(w), Renewal(w)}
  BY PausedOwnerAssumption DEF Work, Renewal

LEMMA WhoSends ==
  ASSUME NEW w \in Workers, NEW c \in {Work(w), Renewal(w)}, Sends(c)
  PROVE  child[w] = "up"
  BY Connections DEF Sends

-----------------------------------------------------------------------------
(* The program is a run of the store                                       *)

LEMMA ExecuteIsAStep ==
  ASSUME NEW c \in Sessions, Execute(c)
  PROVE  LockRow(c) \/ Run(c)
  BY DEF Execute, Run

LEMMA PresentedGeneration ==
  ASSUME HistoryInv, NEW c \in Sessions, NEW op \in OwnerOps, NEW w \in Workers, NEW v,
         NEW retryable \in BOOLEAN, BeginOwnerWrite(c, op, Step, w, v, retryable)
  PROVE  Begin(c)
  <1>1. v \in 1 .. row[Step].version
    BY Cast, IssuedIsReached DEF BeginOwnerWrite
  <1> QED BY <1>1, Cast DEF Begin

LEMMA DemoStepsAreSteps ==
  ASSUME HistoryInv, DemoNext
  PROVE  [Next]_vars
  <1>1. CASE Tick
    BY <1>1 DEF Next
  <1>2. ASSUME NEW w \in Workers, Poll(w) PROVE Next
    BY <1>2, Connections DEF Poll, Begin, Next
  <1>3. ASSUME NEW w \in Workers, ApplyEffect(w) PROVE UNCHANGED vars
    BY <1>3 DEF ApplyEffect
  <1>4. ASSUME NEW w \in Workers, RenewLease(w) PROVE Next
    <2>1. Begin(Renewal(w))
      BY <1>4, Connections, PresentedGeneration DEF RenewLease, OwnerOps
    <2> QED BY <2>1, Connections DEF Next
  <1>5. ASSUME NEW w \in Workers, ReportResult(w) PROVE Next
    <2>1. Begin(Work(w))
      BY <1>5, Connections, PresentedGeneration DEF ReportResult, OwnerOps
    <2> QED BY <2>1, Connections DEF Next
  <1>6. ASSUME NEW w \in Workers, DropConnection(w) PROVE Next
    BY <1>6, Connections DEF DropConnection, Next
  <1>7. ASSUME NEW c \in Sessions, Execute(c) \/ EndTransaction(c) PROVE Next
    BY <1>7, ExecuteIsAStep DEF EndTransaction, Run, Next
  <1>8. ASSUME NEW x \in Children, Exit(x) PROVE UNCHANGED vars
    BY <1>8 DEF Exit
  <1>9. CASE Sweep
    BY <1>9, Cast DEF Sweep, Sweeps, Begin, Next
  <1>10. CASE SendProbe
    <2>1. PICK op \in {"complete", "fail"} : BeginOwnerWrite(Probe, op, Step, a, 1, op = "fail")
      BY <1>10 DEF SendProbe
    <2>2. Begin(Probe)
      BY <2>1, Cast, PresentedGeneration DEF OwnerOps
    <2> QED BY <2>2, Cast DEF Next
  <1>11. CASE ProbeAnswered
    BY <1>11, Cast DEF ProbeAnswered, Run, Next
  <1>12. CASE GiveUp
    BY <1>12, Cast DEF GiveUp, Next
  <1>13. CASE Main /\ ~SendProbe /\ ~ProbeAnswered /\ ~GiveUp
    BY <1>13 DEF Main, Same, SeeEffect, Halt, LockProbe, SampleStopped, SampleV1, SeeB,
                 SampleV2, SeeCompleted, SeeRejected, Final, StopChildren, Watchdog, End
  <1> QED BY <1>1, <1>2, <1>3, <1>4, <1>5, <1>6, <1>7, <1>8, <1>9, <1>10, <1>11, <1>12,
             <1>13 DEF DemoNext

\* What is known of a step of the program, whatever it is.
LEMMA StoreInvariants ==
  ASSUME DemoIInv, DemoNext
  PROVE  [Next]_vars /\ RefinementInv' /\ HistoryInv' /\ Advances(Step)
  <1>1. [Next]_vars
    BY DemoStepsAreSteps DEF DemoIInv
  <1> QED BY <1>1, Cast, RefinementInvPreserved, HistoryInvPreserved, StepAdvances
          DEF DemoIInv, HistoryInv

-----------------------------------------------------------------------------
(* Who can change the row                                                  *)

\* A session's transaction commits: of a worker or the coordinator, or the probe.
Ends(c) == EndTransaction(c) \/ (c = Probe /\ ProbeAnswered)

LEMMA OnlyCommitsChangeTheRow ==
  ASSUME DemoNext, \A c \in Sessions : ~Ends(c)
  PROVE  UNCHANGED <<row, history>>
  <1>1. CASE Tick \/ Sweep
    BY <1>1 DEF Tick, Sweep, BeginSweep
  <1>2. ASSUME NEW w \in Workers,
               Poll(w) \/ ApplyEffect(w) \/ RenewLease(w) \/ ReportResult(w) \/ DropConnection(w)
        PROVE  UNCHANGED <<row, history>>
    BY <1>2 DEF Poll, ApplyEffect, RenewLease, ReportResult, DropConnection, BeginClaim,
                BeginOwnerWrite, Abort, vars
  <1>3. ASSUME NEW c \in Sessions, Execute(c) PROVE UNCHANGED <<row, history>>
    BY <1>3 DEF Execute, SkipLocked, LockCandidate, SelectCandidate, ClaimNothing, ClaimUpdate,
                LockRow, Reject, Renew, Complete, Fail, OwnerWrite, ResolveExpired
  <1>4. ASSUME NEW x \in Children, Exit(x) PROVE UNCHANGED <<row, history>>
    BY <1>4 DEF Exit, vars
  <1>5. CASE SendProbe \/ GiveUp
    BY <1>5 DEF SendProbe, GiveUp, BeginOwnerWrite, Abort, vars
  <1>6. CASE Main /\ ~SendProbe /\ ~ProbeAnswered /\ ~GiveUp
    BY <1>6 DEF Main, Same, SeeEffect, Halt, LockProbe, SampleStopped, SampleV1, SeeB,
                SampleV2, SeeCompleted, SeeRejected, Final, StopChildren, Watchdog, End, vars
  <1> QED BY <1>1, <1>2, <1>3, <1>4, <1>5, <1>6, Cast DEF DemoNext, Ends, Main

LEMMA RowChange ==
  ASSUME DemoIInv, DemoNext, row'[Step] # row[Step]
  PROVE  \E c \in Sessions : /\ Ends(c) /\ Commit(c)
                             /\ lock[Step] = c /\ row'[Step] = draft[Step]
  <1>1. PICK c \in Sessions : Ends(c)
    BY OnlyCommitsChangeTheRow
  <1>2. Commit(c)
    BY <1>1 DEF Ends, EndTransaction, ProbeAnswered
  <1>3. lock[Step] = c /\ row'[Step] = draft[Step]
    BY <1>2, Cast DEF Commit
  <1> QED BY <1>1, <1>2, <1>3

\* A session that commits is not idle.
LEMMA CommitIsOpen ==
  ASSUME DemoIInv, NEW c \in Sessions, Commit(c)
  PROVE  tx[c].op # "idle"
  BY DEF Commit, DemoIInv, HistoryInv, IInv, TransactionShape

\* The probe's transaction runs in the two stages that send it.
LEMMA ProbeIsDue ==
  ASSUME DemoIInv, Commit(Probe)
  PROVE  at \in {"complete", "fail"} /\ tx[Probe].op = at /\ tx[Probe].version = 1
  BY Cast, CommitIsOpen DEF DemoIInv, ProgramInv, SessionsServeTheirProcess

\* Once the lock probe has passed, a halted worker can no longer commit a change.
LEMMA HaltedOwnerIsSilent ==
  ASSUME OwnerIsHalted, child[a] \in {"stopped", "dead"}, at \notin {"lock"} \cup Over,
         NEW c \in {Work(a), Renewal(a)}, Ends(c), Commit(c), lock[Step] = c
  PROVE  FALSE
  <1>1. EndTransaction(c)
    BY Cast, Connections DEF Ends
  <1>2. ~Sends(c)
    BY Cast, WhoSends
  <1>3. tx[c].at = "visit"
    BY <1>1, <1>2 DEF EndTransaction, OwnerIsHalted
  <1> QED BY <1>3 DEF Commit

\* A change that a transaction commits is a legal one, recorded under the
\* generation that an owner presented.
LEMMA CommittedChange ==
  ASSUME DemoIInv, NEW c \in Sessions, lock[Step] = c, note[Step] # Null
  PROVE  /\ IsLegal(row[Step].status, draft[Step].status) /\ draft[Step] # row[Step]
         /\ Decided(tx[c].op, row[Step], draft[Step], Step)
         /\ tx[c].op \in OwnerOps => draft[Step].version = tx[c].version
  <1>1. Records(note[Step], row[Step], draft[Step])
        /\ (tx[c].op \in OwnerOps => note[Step].version = tx[c].version)
    BY Cast DEF DemoIInv, HistoryInv, NotesExplainDrafts
  <1>2. row[Step].status \in Status
    BY Cast DEF DemoIInv, HistoryInv, IInv, TypeOK, Row
  <1>3. draft[Step].status # row[Step].status
    BY <1>1, <1>2 DEF Records, IsLegal, LegalTransitions, Status
  <1>4. Step \in Changed(c)
    BY <1>3, Cast DEF Changed
  <1> QED BY <1>1, <1>3, <1>4 DEF Records, DemoIInv, RefinementInv, WritesAreDecided

-----------------------------------------------------------------------------
(* The invariant is preserved, part by part                                *)

LEMMA LearnTypes ==
  ASSUME DemoTypeOK, TypeOK, TypeOK', NEW c \in Sessions, Learn(c)
  PROVE  /\ worker' \in [Workers -> [at : {"idle", "claiming", "executing", "holding", "reporting"},
                                     version : Nat, got : Nat]]
         /\ logs' \in SUBSET (Workers \X {"completed", "rejected"} \X Nat)
  <1>1. CASE c \notin Workers \X {"work"}
    BY <1>1 DEF Learn, DemoTypeOK
  <1>2. CASE c \in Workers \X {"work"}
    <2>1. c[1] \in Workers
      BY <1>2
    <2>2. row'[Step].version \in Nat /\ tx[c].version \in Nat
      BY Cast DEF TypeOK, Row, Transaction
    <2> QED BY <1>2, <2>1, <2>2 DEF Learn, Move, DemoTypeOK
  <1> QED BY <1>1, <1>2

LEMMA TypesPreserved ==
  ASSUME DemoIInv, DemoNext
  PROVE  DemoTypeOK'
  <1> USE DEF DemoTypeOK
  <1>t. DemoTypeOK /\ TypeOK /\ TypeOK' /\ row[Step] \in Row
    BY StoreInvariants, Cast DEF DemoIInv, ProgramInv, HistoryInv, IInv, TypeOK
  <1>1. CASE Tick /\ UNCHANGED <<script, processes>>
    BY <1>t, <1>1 DEF script, processes
  <1>2. ASSUME NEW w \in Workers,
               Poll(w) \/ ApplyEffect(w) \/ RenewLease(w) \/ ReportResult(w) \/ DropConnection(w)
        PROVE  DemoTypeOK'
    <2>1. CASE Poll(w) \/ ReportResult(w)
      BY <1>t, <2>1 DEF Poll, ReportResult, Move, script
    <2>2. CASE ApplyEffect(w)
      <3>1. effect' \in Nat
        BY <1>t, <2>2 DEF ApplyEffect
      <3>2. worker' = [worker EXCEPT ![w].at = "holding", ![w].got = effect']
        BY <2>2 DEF ApplyEffect
      <3>3. worker' \in [Workers -> [at : {"idle", "claiming", "executing", "holding", "reporting"},
                                     version : Nat, got : Nat]]
        BY <1>t, <3>1, <3>2
      <3>4. UNCHANGED <<at, kill, verdict, seen, applied, child, told, sent, logs>>
        BY <2>2 DEF ApplyEffect, script
      <3> QED BY <1>t, <3>1, <3>3, <3>4
    <2>3. CASE RenewLease(w) \/ DropConnection(w)
      BY <1>t, <2>3 DEF RenewLease, DropConnection, script, processes
    <2> QED BY <1>2, <2>1, <2>2, <2>3
  <1>3. ASSUME NEW c \in Sessions, Execute(c) PROVE DemoTypeOK'
    BY <1>t, <1>3 DEF Execute, script
  <1>4. ASSUME NEW c \in Sessions, EndTransaction(c) PROVE DemoTypeOK'
    BY <1>t, <1>4, LearnTypes DEF EndTransaction, script
  <1>5. ASSUME NEW x \in Children, Exit(x) PROVE DemoTypeOK'
    BY <1>t, <1>5 DEF Exit, script
  <1>6. CASE Sweep \/ SendProbe
    BY <1>t, <1>6 DEF Sweep, SendProbe, script, processes
  <1>7. CASE ProbeAnswered \/ GiveUp
    BY <1>t, <1>7 DEF ProbeAnswered, GiveUp, Goto, Broken, processes, Stage
  <1>8. CASE SeeEffect \/ LockProbe \/ SampleStopped \/ SeeB \/ SampleV2
    BY <1>t, <1>8 DEF SeeEffect, LockProbe, SampleStopped, SeeB, SampleV2, Same, Goto,
                      processes, Stage
  <1>9. CASE Halt
    <2>1. sent' \in SUBSET Sessions
      BY <1>9, Cast, Connections DEF Halt
    <2>2. child' \in [Children -> {"off", "up", "stopped", "dead"}]
      BY <1>t, <1>9 DEF Halt
    <2> QED BY <1>t, <1>9, <2>1, <2>2 DEF Halt, Goto, Stage
  <1>10. CASE SampleV1
    BY <1>t, <1>10 DEF SampleV1, Goto, Broken, Stage
  <1>11. CASE SeeCompleted
    BY <1>t, <1>11 DEF SeeCompleted, Goto, Broken, Stage
  <1>12. CASE SeeRejected \/ Final \/ End
    BY <1>t, <1>12 DEF SeeRejected, Final, End, Same, Goto, Broken, processes, Stage
  <1>13. CASE StopChildren \/ Watchdog
    BY <1>t, <1>13 DEF StopChildren, Watchdog, script
  <1> QED BY <1>1, <1>2, <1>3, <1>4, <1>5, <1>6, <1>7, <1>8, <1>9, <1>10, <1>11, <1>12, <1>13
          DEF DemoNext, Main

LEMMA OpenPreserved ==
  ASSUME DemoIInv, DemoNext
  PROVE  OpenUntilOver'
  <1> USE DEF OpenUntilOver, Over
  <1>t. OpenUntilOver
    BY DEF DemoIInv, ProgramInv
  <1>1. CASE ~Main
    <2>1. UNCHANGED <<at, verdict, told>>
      BY <1>1 DEF DemoNext, Poll, ApplyEffect, RenewLease, ReportResult, DropConnection, Execute,
                  EndTransaction, Exit, Sweep, script, processes
    <2> QED BY <1>t, <2>1
  <1>2. CASE SendProbe \/ ProbeAnswered \/ GiveUp
    <2>1. CASE SendProbe
      BY <1>t, <2>1 DEF SendProbe, script, processes
    <2>2. CASE ProbeAnswered
      BY <1>t, <2>2, ProbeIsDue DEF ProbeAnswered, Goto, Broken, processes
    <2>3. CASE GiveUp
      BY <1>t, <2>3 DEF GiveUp, processes
    <2> QED BY <1>2, <2>1, <2>2, <2>3
  <1>3. CASE SeeEffect \/ LockProbe \/ SampleStopped \/ SeeB \/ SampleV2 \/ Halt \/ SampleV1
    BY <1>t, <1>3 DEF SeeEffect, LockProbe, SampleStopped, SeeB, SampleV2, Halt, SampleV1,
                      Same, Goto, Broken, processes
  <1>4. CASE SeeCompleted \/ SeeRejected \/ Final \/ End \/ StopChildren \/ Watchdog
    BY <1>t, <1>4 DEF SeeCompleted, SeeRejected, Final, End, StopChildren, Watchdog,
                      Same, Goto, Broken, script, processes
  <1> QED BY <1>1, <1>2, <1>3, <1>4 DEF Main

\* A statement leaves every transaction its operation and its generation, and
\* concerns no other session.
LEMMA ExecuteKeeps ==
  ASSUME DemoIInv, NEW c \in Sessions, Execute(c)
  PROVE  /\ \A d \in Sessions : tx'[d].op = tx[d].op /\ tx'[d].version = tx[d].version
         /\ \A d \in Sessions : d # c => tx'[d] = tx[d]
         /\ lock'[Step] # lock[Step] => lock'[Step] = c /\ tx'[c].at \in {"visit", "authorize"}
         /\ tx[c].op # "idle"
  <1>t. /\ tx \in [Sessions -> Transaction] /\ lock \in [Steps -> Sessions \cup {Null}]
        /\ \A d \in Sessions : tx[d].op = "idle" <=> tx[d].at = "idle"
    BY DEF DemoIInv, HistoryInv, IInv, TypeOK, TransactionShape
  <1>1. CASE SkipLocked(c) \/ LockCandidate(c)
    BY <1>t, <1>1, Cast DEF SkipLocked, LockCandidate, Transaction
  <1>2. CASE SelectCandidate(c)
    BY <1>t, <1>2 DEF SelectCandidate, Snapshot, Transaction
  <1>3. CASE \/ ClaimNothing(c) \/ ClaimUpdate(c) \/ Reject(c) \/ ResolveExpired(c)
             \/ Renew(c) \/ Complete(c) \/ Fail(c)
    <2>1. /\ tx' = [tx EXCEPT ![c].at = "commit"] /\ lock' = lock
          /\ tx[c].at \in {"visit", "authorize"}
      BY <1>3 DEF ClaimNothing, ClaimUpdate, Reject, ResolveExpired, ScanDone,
                  Renew, Complete, Fail, OwnerWrite
    <2> QED BY <1>t, <2>1 DEF Transaction
  <1>4. CASE LockRow(c)
    BY <1>t, <1>4, Cast DEF LockRow, Transaction
  <1> QED BY <1>1, <1>2, <1>3, <1>4 DEF Execute

\* A session that ends its transaction, and one that begins one.
LEMMA EndClears ==
  ASSUME DemoIInv, NEW c \in Sessions, Commit(c) \/ Abort(c)
  PROVE  /\ tx'[c].op = "idle" /\ \A d \in Sessions : d # c => tx'[d] = tx[d]
         /\ lock'[Step] # c
         /\ lock'[Step] # lock[Step] => lock'[Step] = Null
  <1>t. /\ tx \in [Sessions -> Transaction] /\ lock \in [Steps -> Sessions \cup {Null}]
        /\ c # Null
    BY StepStoreAssumption DEF DemoIInv, HistoryInv, IInv, TypeOK
  <1> QED BY <1>t, Cast DEF Commit, Abort, Release, Idle

LEMMA ClaimOpens ==
  ASSUME DemoIInv, NEW c \in Sessions, NEW w, BeginClaim(c, w)
  PROVE  tx'[c].op = "claim" /\ \A d \in Sessions : d # c => tx'[d] = tx[d]
  <1>t. tx \in [Sessions -> Transaction]
    BY DEF DemoIInv, HistoryInv, IInv, TypeOK
  <1> QED BY <1>t DEF BeginClaim, Idle

LEMMA OwnerWriteOpens ==
  ASSUME DemoIInv, NEW c \in Sessions, NEW op, NEW s, NEW w, NEW v, NEW retryable,
         BeginOwnerWrite(c, op, s, w, v, retryable)
  PROVE  /\ tx'[c].op = op /\ tx'[c].version = v
         /\ \A d \in Sessions : d # c => tx'[d] = tx[d]
  <1>t. tx \in [Sessions -> Transaction]
    BY DEF DemoIInv, HistoryInv, IInv, TypeOK
  <1> QED BY <1>t DEF BeginOwnerWrite, Idle

LEMMA SweepOpens ==
  ASSUME DemoIInv, NEW c \in Sessions, NEW op, BeginSweep(c, op)
  PROVE  tx'[c].op = op /\ \A d \in Sessions : d # c => tx'[d] = tx[d]
  <1>t. tx \in [Sessions -> Transaction]
    BY DEF DemoIInv, HistoryInv, IInv, TypeOK
  <1> QED BY <1>t DEF BeginSweep, Snapshot, Idle

\* What a worker learns concerns that worker alone, and it learns it on the
\* connection it works on.
LEMMA LearnConcernsOne ==
  ASSUME DemoTypeOK, NEW c \in Sessions, Learn(c), NEW w \in Workers, c # Work(w)
  PROVE  worker'[w] = worker[w]
  <1>1. CASE c \notin Workers \X {"work"}
    BY <1>1 DEF Learn
  <1>2. CASE c \in Workers \X {"work"}
    <2>1. c[1] \in Workers /\ c[1] # w
      BY <1>2 DEF Work
    <2> QED BY <1>2, <2>1 DEF Learn, Move, DemoTypeOK
  <1> QED BY <1>1, <1>2

LEMMA LearnedByWorker ==
  ASSUME DemoTypeOK, NEW w \in Workers, Learn(Work(w))
  PROVE  LET wrote == note[Step] # Null /\ lock[Step] = Work(w)
         IN  IF tx[Work(w)].op = "claim"
             THEN /\ worker'[w] = IF wrote THEN [at |-> "executing", version |-> row'[Step].version,
                                                 got |-> 0]
                                  ELSE [worker[w] EXCEPT !.at = "idle"]
                  /\ logs' = logs
             ELSE /\ worker'[w] = [worker[w] EXCEPT !.at = "idle"]
                  /\ logs' = logs \cup {<<w, IF wrote THEN "completed" ELSE "rejected",
                                          tx[Work(w)].version>>}
  BY Connections DEF Learn, Move, DemoTypeOK

\* What SessionsServeTheirProcess says of one worker's connections.
Serves(w) ==
  /\ tx[Work(w)].op \in {"idle", "claim", "complete"}
  /\ tx[Work(w)].op = "claim" => worker[w].at = "claiming"
  /\ tx[Work(w)].op = "complete" => worker[w].at = "reporting"
  /\ tx[Renewal(w)].op \in {"idle", "renew"}

ProbeServes ==
  tx[Probe].op # "idle" =>
    tx[Probe].op = at /\ at \in {"complete", "fail"} /\ tx[Probe].version = 1

LEMMA ServesPreserved ==
  ASSUME DemoIInv, DemoNext, NEW w \in Workers
  PROVE  Serves(w)'
  <1>t. /\ DemoTypeOK /\ Serves(w)
        /\ Work(w) \in Sessions /\ Renewal(w) \in Sessions /\ Work(w) # Renewal(w)
        /\ {Work(w), Renewal(w)} \cap {Coord, Probe} = {}
    BY Connections DEF DemoIInv, ProgramInv, SessionsServeTheirProcess, Serves
  <1> HIDE DEF Work, Renewal
  <1> USE DEF Serves
  <1>1. ASSUME tx' = tx, worker' = worker PROVE Serves(w)'
    BY <1>t, <1>1
  <1>2. CASE Tick /\ UNCHANGED <<script, processes>>
    BY <1>1, <1>2 DEF Tick, processes
  <1>3. ASSUME NEW x \in Workers, Poll(x) PROVE Serves(w)'
    <2>1. /\ worker[x].at = "idle" /\ worker' = [worker EXCEPT ![x].at = "claiming"]
          /\ tx'[Work(x)].op = "claim" /\ \A d \in Sessions : d # Work(x) => tx'[d] = tx[d]
      BY <1>3, Connections, ClaimOpens DEF Poll, Move
    <2> QED BY <1>t, <2>1, Connections DEF DemoTypeOK
  <1>4. ASSUME NEW x \in Workers, ApplyEffect(x) PROVE Serves(w)'
    BY <1>t, <1>4 DEF ApplyEffect, vars, DemoTypeOK
  <1>5. ASSUME NEW x \in Workers, RenewLease(x) PROVE Serves(w)'
    <2>1. /\ worker' = worker /\ Renewal(x) \in Sessions
          /\ BeginOwnerWrite(Renewal(x), "renew", Step, x, worker[x].version, FALSE)
      BY <1>5, Connections DEF RenewLease, processes
    <2>2. tx'[Renewal(x)].op = "renew" /\ \A d \in Sessions : d # Renewal(x) => tx'[d] = tx[d]
      BY <2>1, OwnerWriteOpens, Zenon
    <2> QED BY <1>t, <2>1, <2>2, Connections
  <1>6. ASSUME NEW x \in Workers, ReportResult(x) PROVE Serves(w)'
    <2>1. /\ worker[x].at = "holding" /\ worker' = [worker EXCEPT ![x].at = "reporting"]
          /\ Work(x) \in Sessions
          /\ BeginOwnerWrite(Work(x), "complete", Step, x, worker[x].version, FALSE)
      BY <1>6, Connections DEF ReportResult, Move
    <2>2. tx'[Work(x)].op = "complete" /\ \A d \in Sessions : d # Work(x) => tx'[d] = tx[d]
      BY <2>1, OwnerWriteOpens, Zenon
    <2> QED BY <1>t, <2>1, <2>2, Connections DEF DemoTypeOK
  <1>7. ASSUME NEW x \in Workers, DropConnection(x) PROVE Serves(w)'
    <2>1. PICK c \in {Work(x), Renewal(x)} : Abort(c)
      BY <1>7 DEF DropConnection
    <2>2. c \in Sessions /\ worker' = worker
      BY <1>7, Connections DEF DropConnection
    <2> QED BY <1>t, <2>1, <2>2, EndClears
  <1>8. ASSUME NEW c \in Sessions, Execute(c) PROVE Serves(w)'
    BY <1>t, <1>8, ExecuteKeeps DEF Execute
  <1>9. ASSUME NEW c \in Sessions, EndTransaction(c) PROVE Serves(w)'
    <2>1. tx'[c].op = "idle" /\ (\A d \in Sessions : d # c => tx'[d] = tx[d]) /\ Learn(c)
      BY <1>9, EndClears DEF EndTransaction
    <2> QED BY <1>t, <2>1, LearnConcernsOne
  <1>10. ASSUME NEW x \in Children, Exit(x) PROVE Serves(w)'
    BY <1>1, <1>10 DEF Exit, vars
  <1>11. CASE Sweep
    <2>1. worker' = worker /\ \A d \in Sessions : d # Coord => tx'[d] = tx[d]
      BY <1>11, Cast, SweepOpens DEF Sweep, processes
    <2> QED BY <1>t, <2>1
  <1>12. CASE SendProbe
    <2>1. worker' = worker /\ \A d \in Sessions : d # Probe => tx'[d] = tx[d]
      BY <1>12, Cast, OwnerWriteOpens DEF SendProbe, processes
    <2> QED BY <1>t, <2>1
  <1>13. CASE ProbeAnswered \/ GiveUp
    <2>1. worker' = worker /\ \A d \in Sessions : d # Probe => tx'[d] = tx[d]
      BY <1>13, Cast, EndClears DEF ProbeAnswered, GiveUp, processes, vars
    <2> QED BY <1>t, <2>1
  <1>14. CASE Main /\ ~SendProbe /\ ~ProbeAnswered /\ ~GiveUp
    <2>1. tx' = tx /\ worker' = worker
      BY <1>14 DEF Main, Same, SeeEffect, Halt, LockProbe, SampleStopped, SampleV1, SeeB,
                   SampleV2, SeeCompleted, SeeRejected, Final, StopChildren, Watchdog, End,
                   vars, processes
    <2> QED BY <1>1, <2>1
  <1> QED BY <1>2, <1>3, <1>4, <1>5, <1>6, <1>7, <1>8, <1>9, <1>10, <1>11, <1>12, <1>13, <1>14
          DEF DemoNext, Main

LEMMA OthersServePreserved ==
  ASSUME DemoIInv, DemoNext
  PROVE  ProbeServes' /\ tx'[Coord].op \in {"idle", "recover"}
  <1> DEFINE Goal == ProbeServes' /\ tx'[Coord].op \in {"idle", "recover"}
  <1>t. ProbeServes /\ tx[Coord].op \in {"idle", "recover"}
        /\ Coord \in Sessions /\ Probe \in Sessions /\ Coord # Probe
    BY Cast DEF DemoIInv, ProgramInv, SessionsServeTheirProcess, ProbeServes
  <1> USE DEF ProbeServes
  <1>1. ASSUME tx'[Coord] = tx[Coord], tx'[Probe] = tx[Probe], at' = at PROVE Goal
    BY <1>t, <1>1
  <1>2. CASE Tick /\ UNCHANGED <<script, processes>>
    BY <1>1, <1>2 DEF Tick, script
  <1>3. ASSUME NEW w \in Workers, Poll(w) PROVE Goal
    <2>1. Work(w) \in Sessions /\ Work(w) \notin {Coord, Probe}
      BY Connections
    <2>2. \A d \in Sessions : d # Work(w) => tx'[d] = tx[d]
      BY <1>3, <2>1, ClaimOpens DEF Poll
    <2> QED BY <1>t, <1>1, <1>3, <2>1, <2>2 DEF Poll, script
  <1>4. ASSUME NEW w \in Workers, ApplyEffect(w) PROVE Goal
    BY <1>1, <1>4 DEF ApplyEffect, vars, script
  <1>5. ASSUME NEW w \in Workers, RenewLease(w) \/ ReportResult(w) PROVE Goal
    <2>1. PICK c \in {Work(w), Renewal(w)}, op \in OwnerOps :
            BeginOwnerWrite(c, op, Step, w, worker[w].version, FALSE)
      BY <1>5 DEF RenewLease, ReportResult, OwnerOps
    <2>2. c \in Sessions /\ c \notin {Coord, Probe}
      BY Connections
    <2>3. \A d \in Sessions : d # c => tx'[d] = tx[d]
      BY <2>1, <2>2, OwnerWriteOpens, Zenon
    <2> QED BY <1>t, <1>1, <1>5, <2>2, <2>3 DEF RenewLease, ReportResult, script
  <1>6. ASSUME NEW w \in Workers, DropConnection(w) PROVE Goal
    <2>1. PICK c \in {Work(w), Renewal(w)} : Abort(c)
      BY <1>6 DEF DropConnection
    <2>2. c \in Sessions /\ c \notin {Coord, Probe}
      BY Connections
    <2> QED BY <1>t, <1>1, <1>6, <2>1, <2>2, EndClears DEF DropConnection, script
  <1>7. ASSUME NEW c \in Sessions, Execute(c) PROVE Goal
    BY <1>t, <1>7, ExecuteKeeps DEF Execute, script
  <1>8. ASSUME NEW c \in Sessions, EndTransaction(c) PROVE Goal
    BY <1>t, <1>8, EndClears DEF EndTransaction, script
  <1>9. ASSUME NEW x \in Children, Exit(x) PROVE Goal
    BY <1>1, <1>9 DEF Exit, vars, script
  <1>10. CASE Sweep
    BY <1>t, <1>10, SweepOpens DEF Sweep, script
  <1>11. CASE SendProbe
    <2>1. /\ at \in {"complete", "fail"} /\ at' = at
          /\ BeginOwnerWrite(Probe, at, Step, a, 1, at = "fail")
      BY <1>11 DEF SendProbe, script
    <2>2. /\ tx'[Probe].op = at /\ tx'[Probe].version = 1
          /\ \A d \in Sessions : d # Probe => tx'[d] = tx[d]
      BY <1>t, <2>1, OwnerWriteOpens, Zenon
    <2> QED BY <1>t, <2>1, <2>2
  <1>12. CASE ProbeAnswered \/ GiveUp
    <2>1. CASE tx[Probe].op = "idle"
      BY <1>t, <1>12, <2>1, CommitIsOpen DEF ProbeAnswered, GiveUp, vars
    <2>2. CASE tx[Probe].op # "idle"
      BY <1>t, <1>12, <2>2, EndClears DEF ProbeAnswered, GiveUp
    <2> QED BY <2>1, <2>2
  <1>13. CASE Main /\ ~SendProbe /\ ~ProbeAnswered /\ ~GiveUp
    <2>1. tx' = tx /\ (at \in {"complete", "fail"} => at' = at)
      BY <1>13 DEF Main, Same, SeeEffect, Halt, LockProbe, SampleStopped, SampleV1, SeeB,
                   SampleV2, SeeCompleted, SeeRejected, Final, StopChildren, Watchdog, End, vars
    <2> QED BY <1>t, <2>1
  <1> QED BY <1>2, <1>3, <1>4, <1>5, <1>6, <1>7, <1>8, <1>9, <1>10, <1>11, <1>12, <1>13
          DEF DemoNext, Main

LEMMA SessionsPreserved ==
  ASSUME DemoIInv, DemoNext
  PROVE  SessionsServeTheirProcess'
  BY ServesPreserved, OthersServePreserved DEF SessionsServeTheirProcess, Serves, ProbeServes

\* Where the two workers stand at each stage.
LEMMA ChildrenPreserved ==
  ASSUME DemoIInv, DemoNext
  PROVE  /\ at' \in {"effect", "halt"} => child'[a] = "up"
         /\ at' \in {"lock", "stopped", "before", "expiry", "ready"} =>
              child'[a] \in {"stopped", "dead"}
         /\ at' \in {"effect", "halt", "lock", "stopped", "before", "expiry", "ready"} =>
              child'[b] = "off"
  <1>t. /\ at \in {"effect", "halt"} => child[a] = "up"
        /\ at \in {"lock", "stopped", "before", "expiry", "ready"} =>
             child[a] \in {"stopped", "dead"}
        /\ at \in {"effect", "halt", "lock", "stopped", "before", "expiry", "ready"} =>
             child[b] = "off"
        /\ OpenUntilOver /\ DemoTypeOK /\ a \in Children /\ b \in Children /\ a # b
    BY Cast DEF DemoIInv, ProgramInv, OwnerIsHalted, SecondIsOff, Children
  <1>1. CASE ~Main /\ ~(\E x \in Children : Exit(x))
    <2>1. UNCHANGED <<at, child>>
      BY <1>1 DEF DemoNext, Poll, ApplyEffect, RenewLease, ReportResult, DropConnection, Execute,
                  EndTransaction, Sweep, script, processes
    <2> QED BY <1>t, <2>1
  <1>2. ASSUME NEW x \in Children, Exit(x)
        PROVE  at' \in Over
    BY <1>t, <1>2 DEF Exit, OpenUntilOver, script
  <1>3. CASE SendProbe \/ ProbeAnswered \/ GiveUp
    <2>1. CASE SendProbe
      BY <1>t, <2>1 DEF SendProbe, script, processes
    <2>2. CASE ProbeAnswered
      BY <1>t, <2>2 DEF ProbeAnswered, Goto, Broken, processes
    <2>3. CASE GiveUp
      BY <1>t, <2>3 DEF GiveUp, processes
    <2> QED BY <1>3, <2>1, <2>2, <2>3
  <1>4. CASE SeeEffect \/ LockProbe \/ SampleStopped \/ SeeB \/ SampleV2 \/ Halt \/ SampleV1
    BY <1>t, <1>4 DEF SeeEffect, LockProbe, SampleStopped, SeeB, SampleV2, Halt, SampleV1,
                      Same, Goto, Broken, processes, DemoTypeOK
  <1>5. CASE SeeCompleted \/ SeeRejected \/ Final \/ End \/ StopChildren \/ Watchdog
    BY <1>t, <1>5 DEF SeeCompleted, SeeRejected, Final, End, StopChildren, Watchdog,
                      Same, Goto, Broken, script, processes
  <1> QED BY <1>1, <1>2, <1>3, <1>4, <1>5 DEF Main, Over

\* A statement that a halted worker has sent may still take the lock; the commit
\* that would follow was never sent.
LEMMA HaltedPreserved ==
  ASSUME DemoIInv, DemoNext, NEW c \in {Work(a), Renewal(a)},
         child'[a] \in {"stopped", "dead"}, at' \notin {"lock"} \cup Over,
         lock'[Step] = c, c \in sent'
  PROVE  tx'[c].at = "visit"
  <1> USE DEF Over
  <1>t. /\ child[a] \in {"stopped", "dead"} /\ at \notin {"lock"} \cup Over =>
             (lock[Step] = c /\ c \in sent => tx[c].at = "visit")
        /\ at \in {"effect", "halt"} => child[a] = "up"
        /\ a \in Workers /\ a \in Children /\ c \in Sessions /\ c \notin {Coord, Probe}
        /\ c # Null /\ a # b /\ DemoTypeOK
    BY Cast, Connections, StepStoreAssumption DEF DemoIInv, ProgramInv, OwnerIsHalted, Children
  <1>b. \A w \in Workers : w # a => c \notin {Work(w), Renewal(w)}
    BY Cast, Connections
  <1>1. ASSUME at' = at, child' = child, sent' \subseteq sent, tx'[c] = tx[c],
               lock[Step] = c
        PROVE  tx'[c].at = "visit"
    BY <1>t, <1>1
  <1>2. CASE Tick /\ UNCHANGED <<script, processes>>
    BY <1>1, <1>2 DEF Tick, script, processes
  <1>3. ASSUME NEW w \in Workers, Poll(w) \/ RenewLease(w) \/ ReportResult(w)
        PROVE  tx'[c].at = "visit"
    <2>1. child[w] = "up" /\ UNCHANGED <<at, child, sent>> /\ lock' = lock
      BY <1>3 DEF Poll, RenewLease, ReportResult, BeginClaim, BeginOwnerWrite, script, processes
    <2>2. w # a
      BY <2>1
    <2>3. PICK d \in {Work(w), Renewal(w)} : \E t : tx' = [tx EXCEPT ![d] = t]
      BY <1>3 DEF Poll, RenewLease, ReportResult, BeginClaim, BeginOwnerWrite
    <2>4. tx'[c] = tx[c]
      BY <1>t, <1>b, <2>2, <2>3 DEF DemoIInv, HistoryInv, IInv, TypeOK
    <2> QED BY <1>1, <2>1, <2>4
  <1>4. ASSUME NEW w \in Workers, ApplyEffect(w) PROVE tx'[c].at = "visit"
    BY <1>1, <1>4 DEF ApplyEffect, vars, script
  <1>5. ASSUME NEW w \in Workers, DropConnection(w) PROVE tx'[c].at = "visit"
    <2>1. PICK d \in {Work(w), Renewal(w)} : Abort(d) /\ sent' = sent \ {d}
      BY <1>5 DEF DropConnection
    <2>2. d \in Sessions
      BY Connections
    <2>3. d # c /\ tx'[c] = tx[c] /\ lock[Step] = c
      BY <1>t, <2>1, <2>2, EndClears
    <2> QED BY <1>1, <1>5, <2>1, <2>3 DEF DropConnection, script
  <1>6. ASSUME NEW d \in Sessions, Execute(d) PROVE tx'[c].at = "visit"
    <2>1. sent' = IF tx'[d].at # "visit" \/ tx[d].at = "select" THEN sent \ {d} ELSE sent
      BY <1>6 DEF Execute
    <2>2. CASE d = c
      BY <2>1, <2>2
    <2>3. CASE d # c
      <3>1. tx'[c] = tx[c] /\ lock[Step] = c
        BY <1>t, <1>6, <2>3, ExecuteKeeps
      <3> QED BY <1>1, <1>6, <2>1, <3>1 DEF Execute, script
    <2> QED BY <2>2, <2>3
  <1>7. ASSUME NEW d \in Sessions, EndTransaction(d) PROVE tx'[c].at = "visit"
    <2>1. d # c /\ tx'[c] = tx[c] /\ lock[Step] = c
      BY <1>t, <1>7, EndClears DEF EndTransaction
    <2> QED BY <1>1, <1>7, <2>1 DEF EndTransaction, script
  <1>8. ASSUME NEW x \in Children, Exit(x) PROVE FALSE
    BY <1>8 DEF Exit, DemoIInv, ProgramInv, OpenUntilOver, script
  <1>9. CASE Sweep
    <2>1. tx'[c] = tx[c] /\ lock' = lock
      BY <1>t, <1>9, Cast, SweepOpens DEF Sweep, BeginSweep
    <2> QED BY <1>1, <1>9, <2>1 DEF Sweep, script, processes
  <1>10. CASE SendProbe
    <2>1. BeginOwnerWrite(Probe, at, Step, a, 1, at = "fail")
      BY <1>10 DEF SendProbe
    <2>2. tx'[c] = tx[c]
      BY <1>t, <2>1, Cast, OwnerWriteOpens, Zenon
    <2>3. lock' = lock
      BY <2>1 DEF BeginOwnerWrite
    <2> QED BY <1>1, <1>10, <2>2, <2>3 DEF SendProbe, script, processes
  <1>11. CASE ProbeAnswered
    <2>1. tx'[c] = tx[c] /\ lock[Step] = c
      BY <1>t, <1>11, Cast, EndClears DEF ProbeAnswered
    <2>2. at \in {"complete", "fail"}
      BY <1>11, ProbeIsDue DEF ProbeAnswered
    <2> QED BY <1>t, <1>11, <2>1, <2>2 DEF ProbeAnswered, processes
  <1>12. CASE GiveUp
    BY <1>12 DEF GiveUp
  <1>13. CASE Main /\ ~SendProbe /\ ~ProbeAnswered /\ ~GiveUp
    <2>1. tx' = tx /\ lock' = lock
      BY <1>13 DEF Main, Same, SeeEffect, Halt, LockProbe, SampleStopped, SampleV1, SeeB,
                   SampleV2, SeeCompleted, SeeRejected, Final, StopChildren, Watchdog, End, vars
    <2>2. CASE SeeEffect \/ Halt
      BY <1>t, <2>2 DEF SeeEffect, Halt, Same, Goto, processes
    <2>3. CASE LockProbe
      BY <1>t, <2>1, <2>3 DEF LockProbe
    <2>4. CASE SampleStopped \/ SeeB \/ SampleV2 \/ SeeRejected \/ Final
      BY <1>t, <2>1, <2>4 DEF SampleStopped, SeeB, SampleV2, SeeRejected, Final, Same, processes
    <2>5. CASE SampleV1
      BY <1>t, <2>1, <2>5 DEF SampleV1, DemoTypeOK
    <2>6. CASE SeeCompleted
      BY <1>t, <2>1, <2>6 DEF SeeCompleted, DemoTypeOK
    <2>7. CASE StopChildren \/ Watchdog \/ End
      BY <2>7 DEF StopChildren, Watchdog, End, script
    <2> QED BY <1>13, <2>2, <2>3, <2>4, <2>5, <2>6, <2>7 DEF Main
  <1> QED BY <1>2, <1>3, <1>4, <1>5, <1>6, <1>7, <1>8, <1>9, <1>10, <1>11, <1>12, <1>13
          DEF DemoNext, Main

LEMMA OwnerIsHaltedPreserved ==
  ASSUME DemoIInv, DemoNext
  PROVE  OwnerIsHalted'
  <1>1. ASSUME child'[a] \in {"stopped", "dead"}, at' \notin {"lock"} \cup Over,
               NEW c \in {Work(a), Renewal(a)}, lock'[Step] = c, c \in sent'
        PROVE  tx'[c].at = "visit"
    BY <1>1, HaltedPreserved
  <1> QED BY <1>1, ChildrenPreserved DEF OwnerIsHalted, Work, Renewal

\* A process that is not up begins nothing.
LEMMA OffStaysIdle ==
  ASSUME DemoIInv, DemoNext, NEW w \in Workers, child[w] # "up",
         NEW c \in {Work(w), Renewal(w)}, tx[c].op = "idle"
  PROVE  tx'[c].op = "idle"
  <1>t. /\ c \in Sessions /\ c \notin {Coord, Probe} /\ Coord \in Sessions /\ Probe \in Sessions
        /\ \A x \in Workers : x # w => c \notin {Work(x), Renewal(x)}
        /\ \A x \in Workers : Work(x) \in Sessions /\ Renewal(x) \in Sessions
    BY Cast, Connections
  <1>1. ASSUME tx'[c] = tx[c] PROVE tx'[c].op = "idle"
    BY <1>1
  <1>2. ASSUME NEW x \in Workers, Poll(x) PROVE tx'[c].op = "idle"
    <2>1. x # w /\ BeginClaim(Work(x), x)
      BY <1>2 DEF Poll
    <2> QED BY <1>1, <1>t, <2>1, ClaimOpens
  <1>3. ASSUME NEW x \in Workers, RenewLease(x) \/ ReportResult(x) PROVE tx'[c].op = "idle"
    <2>1. PICK d \in {Work(x), Renewal(x)}, op \in OwnerOps :
            BeginOwnerWrite(d, op, Step, x, worker[x].version, FALSE)
      BY <1>3 DEF RenewLease, ReportResult, OwnerOps
    <2>2. x # w
      BY <1>3 DEF RenewLease, ReportResult
    <2>3. d \in Sessions /\ d # c
      BY <1>t, <2>2
    <2>4. tx'[c] = tx[c]
      BY <1>t, <2>1, <2>3, OwnerWriteOpens, Zenon
    <2> QED BY <1>1, <2>4
  <1>4. ASSUME NEW x \in Workers, DropConnection(x) PROVE tx'[c].op = "idle"
    BY <1>t, <1>1, <1>4, EndClears DEF DropConnection
  <1>5. ASSUME NEW d \in Sessions, Execute(d) PROVE tx'[c].op = "idle"
    BY <1>t, <1>5, ExecuteKeeps
  <1>6. ASSUME NEW d \in Sessions, EndTransaction(d) PROVE tx'[c].op = "idle"
    BY <1>t, <1>1, <1>6, EndClears DEF EndTransaction
  <1>7. CASE Sweep
    BY <1>t, <1>1, <1>7, SweepOpens DEF Sweep
  <1>8. CASE SendProbe
    <2>1. BeginOwnerWrite(Probe, at, Step, a, 1, at = "fail")
      BY <1>8 DEF SendProbe
    <2>2. tx'[c] = tx[c]
      BY <1>t, <2>1, OwnerWriteOpens, Zenon
    <2> QED BY <1>1, <2>2
  <1>9. CASE ProbeAnswered \/ GiveUp
    BY <1>t, <1>1, <1>9, EndClears DEF ProbeAnswered, GiveUp, vars
  <1>10. CASE \/ Tick
              \/ \E x \in Workers : ApplyEffect(x)
              \/ \E x \in Children : Exit(x)
              \/ Main /\ ~SendProbe /\ ~ProbeAnswered /\ ~GiveUp
    <2>1. tx' = tx
      BY <1>10 DEF Tick, ApplyEffect, Exit, Main, Same, SeeEffect, Halt, LockProbe, SampleStopped,
                   SampleV1, SeeB, SampleV2, SeeCompleted, SeeRejected, Final, StopChildren,
                   Watchdog, End, vars
    <2> QED BY <1>1, <2>1
  <1> QED BY <1>2, <1>3, <1>4, <1>5, <1>6, <1>7, <1>8, <1>9, <1>10 DEF DemoNext, Main

LEMMA SecondIsOffPreserved ==
  ASSUME DemoIInv, DemoNext
  PROVE  SecondIsOff'
  <1> DEFINE Early == {"effect", "halt", "lock", "stopped", "before", "expiry", "ready"}
  <1> SUFFICES ASSUME at' \in Early
               PROVE  /\ child'[b] = "off" /\ tx'[Work(b)].op = "idle"
                      /\ tx'[Renewal(b)].op = "idle" /\ worker'[b].at = "idle"
    BY DEF SecondIsOff, Work, Renewal
  <1>1. child'[b] = "off"
    BY ChildrenPreserved
  <1>2. at \in Early
    <2>1. CASE ~Main
      BY <2>1 DEF DemoNext, Poll, ApplyEffect, RenewLease, ReportResult, DropConnection, Execute,
                  EndTransaction, Exit, Sweep, script
    <2>2. CASE SeeEffect \/ Halt \/ LockProbe \/ SampleStopped \/ SampleV1
      BY <2>2 DEF SeeEffect, Halt, LockProbe, SampleStopped, SampleV1
    <2>3. CASE SeeB \/ SampleV2 \/ SeeCompleted \/ SeeRejected \/ Final
      BY <2>3 DEF SeeB, SampleV2, SeeCompleted, SeeRejected, Final, Goto, Broken
    <2>4. CASE SendProbe \/ GiveUp \/ StopChildren \/ Watchdog \/ End
      BY <2>4 DEF SendProbe, GiveUp, StopChildren, Watchdog, End, script
    <2>5. CASE ProbeAnswered
      BY <2>5, ProbeIsDue DEF ProbeAnswered, Goto, Broken
    <2> QED BY <2>1, <2>2, <2>3, <2>4, <2>5 DEF Main
  <1>3. /\ child[b] = "off" /\ tx[Work(b)].op = "idle" /\ tx[Renewal(b)].op = "idle"
        /\ worker[b].at = "idle" /\ DemoTypeOK /\ b \in Workers
        /\ Work(b) \in Sessions /\ Renewal(b) \in Sessions
    BY <1>2, Cast, Connections DEF DemoIInv, ProgramInv, SecondIsOff
  <1>5. \A c \in {Work(b), Renewal(b)} : ~Ends(c)
    <2>1. \A c \in {Work(b), Renewal(b)} : ~Commit(c)
      BY <1>3, CommitIsOpen
    <2> QED BY <2>1 DEF Ends, EndTransaction, ProbeAnswered
  <1>6. worker'[b] = worker[b]
    <2>1. ASSUME NEW w \in Workers, Poll(w) \/ ApplyEffect(w) \/ ReportResult(w)
          PROVE  worker'[b] = worker[b]
      <3>1. w # b
        BY <1>3, <2>1 DEF Poll, ApplyEffect, ReportResult
      <3> QED BY <1>3, <2>1, <3>1 DEF Poll, ApplyEffect, ReportResult, Move, DemoTypeOK
    <2>2. ASSUME NEW c \in Sessions, EndTransaction(c) PROVE worker'[b] = worker[b]
      BY <1>3, <1>5, <2>2, LearnConcernsOne DEF EndTransaction, Ends
    <2>3. CASE \/ Tick /\ UNCHANGED <<script, processes>>
               \/ Sweep \/ SendProbe \/ ProbeAnswered \/ GiveUp
               \/ \E w \in Workers : RenewLease(w) \/ DropConnection(w)
               \/ \E c \in Sessions : Execute(c)
               \/ \E x \in Children : Exit(x)
      BY <2>3 DEF Sweep, SendProbe, ProbeAnswered, GiveUp, RenewLease, DropConnection, Execute,
                  Exit, processes
    <2>4. CASE Main /\ ~SendProbe /\ ~ProbeAnswered /\ ~GiveUp
      BY <2>4 DEF Main, Same, SeeEffect, Halt, LockProbe, SampleStopped, SampleV1, SeeB,
                  SampleV2, SeeCompleted, SeeRejected, Final, StopChildren, Watchdog, End, processes
    <2> QED BY <2>1, <2>2, <2>3, <2>4 DEF DemoNext, Main
  <1>7. tx'[Work(b)].op = "idle" /\ tx'[Renewal(b)].op = "idle"
    BY <1>3, OffStaysIdle
  <1> QED BY <1>1, <1>3, <1>6, <1>7

\* While the program samples v1, nobody but the coordinator commits a change,
\* and what it commits is the recovery of an expired lease.
LEMMA OnlyRecoveryBeforeB ==
  ASSUME DemoIInv, DemoNext, at \in {"stopped", "before", "expiry", "ready"},
         row'[Step] # row[Step]
  PROVE  /\ row[Step].status = "RUNNING" /\ row[Step].deadline <= now
         /\ row'[Step].version = row[Step].version
         /\ row[Step].attempts < MaxAttempts[Step] => row'[Step].status = "READY"
  <1>1. PICK c \in Sessions :
          Ends(c) /\ Commit(c) /\ lock[Step] = c /\ row'[Step] = draft[Step]
    BY RowChange
  <1>2. c \notin {Work(a), Renewal(a)}
    <2>1. OwnerIsHalted /\ child[a] \in {"stopped", "dead"} /\ at \notin {"lock"} \cup Over
      BY DEF DemoIInv, ProgramInv, OwnerIsHalted, Over
    <2> QED BY <1>1, <2>1, HaltedOwnerIsSilent
  <1>3. c \notin {Work(b), Renewal(b)}
    BY <1>1, CommitIsOpen DEF DemoIInv, ProgramInv, SecondIsOff
  <1>4. c # Probe
    BY <1>1, ProbeIsDue
  <1>5. c = Coord
    BY <1>2, <1>3, <1>4, EverySession, Cast
  <1>6. tx[c].op = "recover"
    BY <1>1, <1>5, CommitIsOpen DEF DemoIInv, ProgramInv, SessionsServeTheirProcess
  <1>7. Step \in Changed(c)
    BY <1>1, Cast DEF Changed
  <1>8. Decided("recover", row[Step], draft[Step], Step)
    BY <1>6, <1>7 DEF DemoIInv, RefinementInv, WritesAreDecided
  <1> QED BY <1>1, <1>8 DEF Decided

LEMMA ClockAdvances ==
  ASSUME DemoIInv, DemoNext
  PROVE  now \in Nat /\ now' \in Nat /\ now' >= now
  <1>1. now \in Nat /\ [Next]_vars
    BY StoreInvariants DEF DemoIInv, HistoryInv, IInv, TypeOK
  <1>2. now' = now \/ now' = now + 1
    <2>1. CASE Tick
      BY <2>1 DEF Tick
    <2>2. ASSUME NEW c \in Sessions, Begin(c) PROVE now' = now
      BY <2>2 DEF Begin, BeginClaim, BeginSweep, BeginOwnerWrite
    <2>3. ASSUME NEW c \in Sessions, LockRow(c) \/ Run(c) \/ Abort(c) PROVE now' = now
      BY <2>3 DEF LockRow, Run, SelectCandidate, SkipLocked, LockCandidate, ClaimNothing,
                  ClaimUpdate, Reject, Renew, Complete, Fail, OwnerWrite, ResolveExpired,
                  PromoteDue, Commit, Abort
    <2>4. CASE UNCHANGED vars
      BY <2>4 DEF vars
    <2> QED BY <1>1, <2>1, <2>2, <2>3, <2>4 DEF Next
  <1> QED BY <1>1, <1>2

LEMMA FirstGenerationPreserved ==
  ASSUME DemoIInv, DemoNext
  PROVE  FirstGenerationStands'
  <1> DEFINE V1 == {"before", "expiry", "ready"}
  <1> SUFFICES ASSUME at' \in V1
               PROVE  /\ seen'.status = "RUNNING" /\ seen'.owner = a /\ seen'.version = 1
                      /\ seen'.deadline \in Nat
                      /\ row'[Step] = seen' \/ /\ row'[Step].status = "READY"
                                               /\ row'[Step].version = 1
                                               /\ seen'.deadline <= now'
    BY DEF FirstGenerationStands
  <1>1. CASE SampleStopped
    <2>1. row[Step].deadline \in Nat
      BY <1>1, Cast DEF SampleStopped, OwnedBy, DemoIInv, HistoryInv, IInv, RowsAreSound, RowShape
    <2> QED BY <1>1, <2>1 DEF SampleStopped, OwnedBy, Same, vars
  <1>2. CASE ~SampleStopped
    <2>1. at \in V1 /\ seen' = seen
      <3>1. CASE ~Main
        BY <3>1 DEF DemoNext, Poll, ApplyEffect, RenewLease, ReportResult, DropConnection, Execute,
                    EndTransaction, Exit, Sweep, script
      <3>2. CASE SampleV1
        BY <3>2 DEF SampleV1
      <3>3. CASE SeeEffect \/ Halt \/ LockProbe \/ SeeB \/ SampleV2 \/ SeeCompleted \/ SeeRejected
                 \/ Final
        BY <3>3 DEF SeeEffect, Halt, LockProbe, SeeB, SampleV2, SeeCompleted, SeeRejected, Final,
                    Goto, Broken
      <3>4. CASE SendProbe \/ GiveUp \/ StopChildren \/ Watchdog \/ End
        BY <3>4 DEF SendProbe, GiveUp, StopChildren, Watchdog, End, script
      <3>5. CASE ProbeAnswered
        BY <3>5, ProbeIsDue DEF ProbeAnswered, Goto, Broken
      <3> QED BY <1>2, <3>1, <3>2, <3>3, <3>4, <3>5 DEF Main
    <2>2. /\ seen.status = "RUNNING" /\ seen.owner = a /\ seen.version = 1 /\ seen.deadline \in Nat
          /\ row[Step] = seen \/ /\ row[Step].status = "READY" /\ row[Step].version = 1
                                 /\ seen.deadline <= now
      BY <2>1 DEF DemoIInv, ProgramInv, FirstGenerationStands
    <2>3. CASE row'[Step] = row[Step]
      BY <2>1, <2>2, <2>3, ClockAdvances
    <2>4. CASE row'[Step] # row[Step]
      <3>1. /\ row[Step].status = "RUNNING" /\ row[Step].deadline <= now
            /\ row'[Step].version = row[Step].version
            /\ row[Step].attempts < MaxAttempts[Step] => row'[Step].status = "READY"
        BY <2>1, <2>4, OnlyRecoveryBeforeB
      <3>2. row[Step] = seen
        BY <2>2, <3>1
      <3>3. row[Step].attempts = 1
        BY <2>2, <3>2, Cast DEF DemoIInv, HistoryInv, NotesExplainDrafts, GenerationsAgree
      <3>4. row[Step].attempts < MaxAttempts[Step]
        BY <3>3, Cast
      <3> QED BY <2>1, <2>2, <3>1, <3>2, <3>4, ClockAdvances
    <2> QED BY <2>3, <2>4
  <1> QED BY <1>1, <1>2

\* Whatever is not a move of the program leaves the program where it is.
LEMMA OthersLeaveTheScript ==
  ASSUME DemoNext, ~Main
  PROVE  UNCHANGED <<script, told>>
  BY DEF DemoNext, Poll, ApplyEffect, RenewLease, ReportResult, DropConnection, Execute,
         EndTransaction, Exit, Sweep, processes

\* A worker moves when it polls, works, reports or is answered, and not otherwise.
LEMMA OthersLeaveTheWorkers ==
  ASSUME DemoNext,
         \A w \in Workers : ~Poll(w) /\ ~ApplyEffect(w) /\ ~ReportResult(w),
         \A c \in Sessions : ~EndTransaction(c)
  PROVE  UNCHANGED <<worker, effect, logs>>
  <1>1. CASE ~Main
    BY <1>1 DEF DemoNext, RenewLease, DropConnection, Execute, Exit, Sweep, processes
  <1>2. CASE SendProbe \/ ProbeAnswered \/ GiveUp
    BY <1>2 DEF SendProbe, ProbeAnswered, GiveUp, processes
  <1>3. CASE Main /\ ~SendProbe /\ ~ProbeAnswered /\ ~GiveUp
    BY <1>3 DEF Main, Same, SeeEffect, Halt, LockProbe, SampleStopped, SampleV1, SeeB,
                SampleV2, SeeCompleted, SeeRejected, Final, StopChildren, Watchdog, End, processes
  <1> QED BY <1>1, <1>2, <1>3

LEMMA SecondGenerationPreserved ==
  ASSUME DemoIInv, DemoNext
  PROVE  SecondGenerationReached'
  <1> DEFINE V2 == {"complete", "fail", "probed", "completed", "stale", "final"}
  <1> SUFFICES ASSUME at' \in V2 PROVE row'[Step].version >= 2
    BY DEF SecondGenerationReached
  <1>t. row'[Step].version >= row[Step].version /\ row[Step].version \in Nat
        /\ row'[Step].version \in Nat
    BY StoreInvariants, Cast DEF Advances, DemoIInv, HistoryInv, IInv, TypeOK, Row
  <1>1. CASE SeeB
    BY <1>t, <1>1 DEF SeeB, OwnedBy
  <1>2. CASE ~SeeB
    <2>1. at \in V2
      <3>1. CASE ~Main \/ SendProbe
        BY <3>1, OthersLeaveTheScript DEF SendProbe, script
      <3>2. CASE ProbeAnswered
        BY <3>2, ProbeIsDue DEF ProbeAnswered
      <3>3. CASE SeeEffect \/ Halt \/ LockProbe \/ SampleStopped \/ SampleV1
        BY <3>3 DEF SeeEffect, Halt, LockProbe, SampleStopped, SampleV1, Goto, Broken
      <3>4. CASE SampleV2 \/ SeeCompleted \/ SeeRejected \/ Final
        BY <3>4 DEF SampleV2, SeeCompleted, SeeRejected, Final
      <3>5. CASE GiveUp \/ StopChildren \/ Watchdog \/ End
        BY <3>5 DEF GiveUp, StopChildren, Watchdog, End, script
      <3> QED BY <1>2, <3>1, <3>2, <3>3, <3>4, <3>5 DEF Main
    <2> QED BY <1>t, <2>1 DEF DemoIInv, ProgramInv, SecondGenerationReached
  <1> QED BY <1>1, <1>2

\* The effect, once stored, is stored for good.
LEMMA EffectIsStable ==
  ASSUME DemoIInv, DemoNext, effect # 0
  PROVE  effect' = effect
  <1>1. ASSUME NEW w \in Workers, Poll(w) \/ ApplyEffect(w) \/ ReportResult(w)
        PROVE  effect' = effect
    BY <1>1 DEF Poll, ApplyEffect, ReportResult
  <1>2. ASSUME NEW c \in Sessions, EndTransaction(c) PROVE effect' = effect
    BY <1>2 DEF EndTransaction
  <1> QED BY <1>1, <1>2, OthersLeaveTheWorkers

\* What a claim tells a worker, and what an accepted completion tells it.
LEMMA ClaimIsTold ==
  ASSUME DemoIInv, NEW w \in Workers, EndTransaction(Work(w)), tx[Work(w)].op = "claim",
         note[Step] # Null, lock[Step] = Work(w)
  PROVE  row[Step].status = "READY" /\ row'[Step].version > 0
  <1>1. Decided("claim", row[Step], draft[Step], Step)
    BY CommittedChange, Connections
  <1>2. row'[Step] = draft[Step] /\ row[Step].version \in Nat
    BY Cast, Connections DEF EndTransaction, Commit, DemoIInv, HistoryInv, IInv, TypeOK, Row
  <1> QED BY <1>1, <1>2 DEF Decided

LEMMA CompletionIsTold ==
  ASSUME DemoIInv, NEW w \in Workers, EndTransaction(Work(w)), tx[Work(w)].op = "complete",
         note[Step] # Null, lock[Step] = Work(w)
  PROVE  row'[Step].status = "SUCCEEDED" /\ row'[Step].version = tx[Work(w)].version
  <1>1. Decided("complete", row[Step], draft[Step], Step)
        /\ draft[Step].version = tx[Work(w)].version
    BY CommittedChange, Connections DEF OwnerOps
  <1>2. row'[Step] = draft[Step]
    BY Cast, Connections DEF EndTransaction, Commit
  <1> QED BY <1>1, <1>2 DEF Decided

LEMMA OneEffectPreserved ==
  ASSUME DemoIInv, DemoNext
  PROVE  OneEffect'
  <1>t. DemoTypeOK /\ OneEffect
    BY DEF DemoIInv, ProgramInv
  <1>1. ASSUME at' \notin {"effect"} \cup Over PROVE effect' # 0 /\ applied' = effect'
    <2>1. CASE SeeEffect
      BY <2>1 DEF SeeEffect, Same, processes
    <2>2. CASE ~SeeEffect
      <3>1. at \notin {"effect"} \cup Over /\ applied' = applied
        <4>1. CASE ~Main \/ SendProbe
          BY <1>1, <4>1, OthersLeaveTheScript DEF SendProbe, script
        <4>2. CASE ProbeAnswered
          BY <4>2, ProbeIsDue DEF ProbeAnswered, Over
        <4>3. CASE Halt \/ LockProbe \/ SampleStopped \/ SampleV1 \/ SeeB
          BY <4>3 DEF Halt, LockProbe, SampleStopped, SampleV1, SeeB, Over
        <4>4. CASE SampleV2 \/ SeeCompleted \/ SeeRejected \/ Final
          BY <4>4 DEF SampleV2, SeeCompleted, SeeRejected, Final, Over
        <4>5. CASE GiveUp \/ StopChildren \/ Watchdog \/ End
          BY <1>1, <4>5 DEF GiveUp, StopChildren, Watchdog, End, script, Over
        <4> QED BY <2>2, <4>1, <4>2, <4>3, <4>4, <4>5 DEF Main
      <3> QED BY <1>t, <3>1, EffectIsStable DEF OneEffect
    <2> QED BY <2>1, <2>2
  <1>2. ASSUME NEW w \in Workers
        PROVE  /\ worker'[w].at = "executing" => worker'[w].version > 0
               /\ worker'[w].at \in {"holding", "reporting"} =>
                    effect' # 0 /\ worker'[w].got = effect'
    <2>t. /\ worker[w].at = "executing" => worker[w].version > 0
          /\ worker[w].at \in {"holding", "reporting"} => effect # 0 /\ worker[w].got = effect
          /\ worker[w].version \in Nat
      BY <1>t DEF OneEffect, DemoTypeOK
    <2>1. ASSUME worker'[w] = worker[w]
          PROVE  /\ worker'[w].at = "executing" => worker'[w].version > 0
                 /\ worker'[w].at \in {"holding", "reporting"} =>
                      effect' # 0 /\ worker'[w].got = effect'
      BY <2>t, <2>1, EffectIsStable
    <2>2. CASE Poll(w) \/ ReportResult(w)
      <3>1. /\ effect' = effect
            /\ \/ worker' = [worker EXCEPT ![w].at = "claiming"]
               \/ worker[w].at = "holding" /\ worker' = [worker EXCEPT ![w].at = "reporting"]
        BY <2>2 DEF Poll, ReportResult, Move
      <3> QED BY <1>t, <2>t, <3>1 DEF DemoTypeOK
    <2>3. CASE ApplyEffect(w)
      BY <1>t, <2>t, <2>3 DEF ApplyEffect, DemoTypeOK
    <2>4. ASSUME NEW x \in Workers, x # w, Poll(x) \/ ApplyEffect(x) \/ ReportResult(x)
          PROVE  worker'[w] = worker[w]
      BY <1>t, <2>4 DEF Poll, ApplyEffect, ReportResult, Move, DemoTypeOK
    <2>5. CASE EndTransaction(Work(w))
      <3>1. Learn(Work(w)) /\ effect' = effect
        BY <2>5 DEF EndTransaction
      <3>2. CASE tx[Work(w)].op = "claim" /\ note[Step] # Null /\ lock[Step] = Work(w)
        <4>1. worker'[w] = [at |-> "executing", version |-> row'[Step].version, got |-> 0]
          BY <1>t, <3>1, <3>2, LearnedByWorker
        <4> QED BY <2>5, <3>2, <4>1, ClaimIsTold
      <3>3. CASE ~(tx[Work(w)].op = "claim" /\ note[Step] # Null /\ lock[Step] = Work(w))
        <4>1. worker'[w] = [worker[w] EXCEPT !.at = "idle"]
          BY <1>t, <3>1, <3>3, LearnedByWorker
        <4> QED BY <1>t, <4>1 DEF DemoTypeOK
      <3> QED BY <3>2, <3>3
    <2>6. ASSUME NEW c \in Sessions, c # Work(w), EndTransaction(c) PROVE worker'[w] = worker[w]
      BY <1>t, <2>6, LearnConcernsOne DEF EndTransaction
    <2>7. CASE /\ \A x \in Workers : ~Poll(x) /\ ~ApplyEffect(x) /\ ~ReportResult(x)
               /\ \A c \in Sessions : ~EndTransaction(c)
      BY <2>1, <2>7, OthersLeaveTheWorkers
    <2> QED BY <2>1, <2>2, <2>3, <2>4, <2>5, <2>6, <2>7
  <1> QED BY <1>1, <1>2 DEF OneEffect

LEMMA CompletionPreserved ==
  ASSUME DemoIInv, DemoNext, NEW e \in logs', e[2] = "completed"
  PROVE  /\ row'[Step].status = "SUCCEEDED" /\ row'[Step].version = e[3]
         /\ effect' # 0 /\ worker'[e[1]].got = effect' /\ worker'[e[1]].at \in {"idle", "claiming"}
  <1> DEFINE Holds == /\ row'[Step].status = "SUCCEEDED" /\ row'[Step].version = e[3] /\ effect' # 0
                      /\ worker'[e[1]].got = effect' /\ worker'[e[1]].at \in {"idle", "claiming"}
  <1>t. DemoTypeOK /\ OneEffect /\ \A w \in Workers : Work(w) \in Sessions
    BY Connections DEF DemoIInv, ProgramInv
  <1>1. CASE e \in logs
    <2> DEFINE w == e[1]
    <2>t. /\ row[Step].status = "SUCCEEDED" /\ row[Step].version = e[3]
          /\ effect # 0 /\ worker[w].got = effect /\ worker[w].at \in {"idle", "claiming"}
          /\ w \in Workers
      BY <1>1, <1>t DEF DemoIInv, ProgramInv, CompletionIsFinal, DemoTypeOK
    <2> HIDE DEF w
    <2>1. row'[Step] = row[Step] /\ effect' = effect
      BY <2>t, StoreInvariants, EffectIsStable DEF Advances, Terminal
    <2>2. worker'[w].got = worker[w].got /\ worker'[w].at \in {"idle", "claiming"}
      <3>1. CASE Poll(w)
        BY <1>t, <2>t, <3>1 DEF Poll, Move, DemoTypeOK
      <3>2. CASE ApplyEffect(w) \/ ReportResult(w)
        BY <2>t, <3>2 DEF ApplyEffect, ReportResult
      <3>3. ASSUME NEW x \in Workers, x # w, Poll(x) \/ ApplyEffect(x) \/ ReportResult(x)
            PROVE  worker'[w] = worker[w]
        BY <1>t, <2>t, <3>3 DEF Poll, ApplyEffect, ReportResult, Move, DemoTypeOK
      <3>4. CASE EndTransaction(Work(w))
        <4>1. Learn(Work(w))
          BY <3>4 DEF EndTransaction
        <4>2. ~(tx[Work(w)].op = "claim" /\ note[Step] # Null /\ lock[Step] = Work(w))
          BY <2>t, <3>4, ClaimIsTold
        <4>3. worker'[w] = [worker[w] EXCEPT !.at = "idle"]
          BY <1>t, <2>t, <4>1, <4>2, LearnedByWorker
        <4> QED BY <1>t, <2>t, <4>3 DEF DemoTypeOK
      <3>5. ASSUME NEW c \in Sessions, c # Work(w), EndTransaction(c)
            PROVE  worker'[w] = worker[w]
        BY <1>t, <2>t, <3>5, LearnConcernsOne DEF EndTransaction
      <3>6. CASE /\ \A x \in Workers : ~Poll(x) /\ ~ApplyEffect(x) /\ ~ReportResult(x)
                 /\ \A c \in Sessions : ~EndTransaction(c)
        BY <2>t, <3>6, OthersLeaveTheWorkers
      <3> QED BY <2>t, <3>1, <3>2, <3>3, <3>4, <3>5, <3>6
    <2> QED BY <2>t, <2>1, <2>2 DEF w
  <1>2. CASE e \notin logs
    <2>1. PICK c \in Sessions : EndTransaction(c)
      <3>1. ASSUME NEW w \in Workers, Poll(w) \/ ApplyEffect(w) \/ ReportResult(w)
            PROVE  logs' = logs
        BY <3>1 DEF Poll, ApplyEffect, ReportResult
      <3> QED BY <1>2, <3>1, OthersLeaveTheWorkers
    <2>2. Learn(c) /\ Commit(c) /\ effect' = effect
      BY <2>1 DEF EndTransaction
    <2>3. PICK w \in Workers : c = Work(w)
      <3>1. c \in Workers \X {"work"}
        BY <1>2, <2>2 DEF Learn
      <3> QED BY <3>1 DEF Work
    <2>4. /\ tx[c].op # "claim" /\ worker'[w] = [worker[w] EXCEPT !.at = "idle"]
          /\ note[Step] # Null /\ lock[Step] = c /\ e = <<w, "completed", tx[c].version>>
      <3>1. logs' # logs
        BY <1>2
      <3>2. tx[c].op # "claim" /\ worker'[w] = [worker[w] EXCEPT !.at = "idle"]
            /\ e = <<w, IF note[Step] # Null /\ lock[Step] = c THEN "completed" ELSE "rejected",
                     tx[c].version>>
        BY <1>t, <1>2, <2>2, <2>3, <3>1, LearnedByWorker
      <3> QED BY <3>2
    <2>5. tx[c].op = "complete" /\ worker[w].at = "reporting"
      BY <2>2, <2>3, <2>4, CommitIsOpen DEF DemoIInv, ProgramInv, SessionsServeTheirProcess
    <2>6. row'[Step].status = "SUCCEEDED" /\ row'[Step].version = tx[c].version
      BY <2>1, <2>3, <2>4, <2>5, CompletionIsTold
    <2>7. effect # 0 /\ worker[w].got = effect
      BY <1>t, <2>5 DEF OneEffect
    <2>8. worker'[w].got = effect /\ worker'[w].at = "idle"
      BY <1>t, <2>4, <2>7 DEF DemoTypeOK
    <2> QED BY <2>2, <2>4, <2>6, <2>7, <2>8
  <1> QED BY <1>1, <1>2

LEMMA LastSamplePreserved ==
  ASSUME DemoIInv, DemoNext, at' \in {"stale", "final"} \/ verdict' = "passed"
  PROVE  row'[Step] = seen' /\ seen'.status = "SUCCEEDED" /\ row'[Step].version >= 2
  <1>t. OpenUntilOver /\ verdict \in {"open", "passed", "failed", "broken"}
    BY DEF DemoIInv, ProgramInv, DemoTypeOK
  <1>1. CASE SeeCompleted
    <2>1. row' = row /\ seen' = row[Step] /\ row[Step].status = "SUCCEEDED" /\ at = "completed"
      BY <1>1 DEF SeeCompleted, vars
    <2> QED BY <2>1 DEF DemoIInv, ProgramInv, SecondGenerationReached
  <1>2. CASE ~SeeCompleted
    <2>1. (at \in {"stale", "final"} \/ verdict = "passed") /\ seen' = seen
      <3>1. CASE ~Main \/ SendProbe
        BY <3>1, OthersLeaveTheScript DEF SendProbe, script
      <3>2. CASE ProbeAnswered
        BY <1>t, <3>2, ProbeIsDue DEF ProbeAnswered, Goto, Broken, OpenUntilOver, Over
      <3>3. CASE SeeEffect \/ Halt \/ LockProbe \/ SampleStopped \/ SampleV1 \/ SeeB \/ SampleV2
        BY <1>t, <3>3 DEF SeeEffect, Halt, LockProbe, SampleStopped, SampleV1, SeeB, SampleV2,
                          Goto, Broken, OpenUntilOver, Over
      <3>4. CASE SeeRejected \/ Final
        BY <3>4 DEF SeeRejected, Final
      <3>5. CASE GiveUp \/ StopChildren \/ Watchdog \/ End
        BY <3>5 DEF GiveUp, StopChildren, Watchdog, End, script
      <3> QED BY <1>2, <3>1, <3>2, <3>3, <3>4, <3>5 DEF Main
    <2>2. row[Step] = seen /\ seen.status = "SUCCEEDED" /\ row[Step].version >= 2
      BY <2>1 DEF DemoIInv, ProgramInv, LastSampleStands
    <2>3. row'[Step] = row[Step]
      BY <2>2, StoreInvariants DEF Advances, Terminal
    <2> QED BY <2>1, <2>2, <2>3
  <1> QED BY <1>1, <1>2

\* No comparison that the program makes comes out against the store.
LEMMA SamplesHold ==
  ASSUME DemoIInv, SampleV1
  PROVE  verdict' # "broken"
  <1>1. at \in {"before", "expiry", "ready"} /\ verdict = "open"
    BY DEF SampleV1, DemoIInv, ProgramInv, OpenUntilOver, Over
  <1>2. /\ seen.status = "RUNNING" /\ seen.owner = a /\ seen.version = 1 /\ seen.deadline \in Nat
        /\ row[Step] = seen \/ /\ row[Step].status = "READY" /\ row[Step].version = 1
                               /\ seen.deadline <= now
    BY <1>1 DEF DemoIInv, ProgramInv, FirstGenerationStands
  <1>3. now \in Nat /\ applied = effect
    BY <1>1 DEF DemoIInv, ProgramInv, HistoryInv, IInv, TypeOK, OneEffect, Over
  <1>4. ~TooEarly /\ ~Renewed
    BY <1>2, <1>3 DEF TooEarly, Renewed, OwnedBy
  <1>5. row[Step].status # "RUNNING" => row[Step].status = "READY" /\ row[Step].version = 1
    BY <1>2
  <1> QED BY <1>1, <1>3, <1>4, <1>5 DEF SampleV1, Goto

LEMMA ProbeIsRejected ==
  ASSUME DemoIInv, ProbeAnswered
  PROVE  ~(lock[Step] = Probe /\ note[Step] # Null)
  <1> SUFFICES ASSUME lock[Step] = Probe, note[Step] # Null PROVE FALSE
    OBVIOUS
  <1>1. at \in {"complete", "fail"} /\ tx[Probe].op = at /\ tx[Probe].version = 1
    BY ProbeIsDue DEF ProbeAnswered
  <1>2. draft[Step].version = 1 /\ Decided(at, row[Step], draft[Step], Step)
    BY <1>1, CommittedChange, Cast DEF OwnerOps
  <1>3. row[Step].version = 1
    BY <1>1, <1>2 DEF Decided
  <1> QED BY <1>1, <1>3 DEF DemoIInv, ProgramInv, SecondGenerationReached

LEMMA AssertionsPreserved ==
  ASSUME DemoIInv, DemoNext
  PROVE  verdict' # "broken"
  <1>t. verdict # "broken"
    BY DEF DemoIInv, ProgramInv, AssertionsHold
  <1>1. CASE ~Main \/ SendProbe
    BY <1>t, <1>1, OthersLeaveTheScript DEF SendProbe, script
  <1>2. CASE ProbeAnswered
    BY <1>t, <1>2, ProbeIsRejected DEF ProbeAnswered, Goto
  <1>3. CASE SeeEffect \/ Halt \/ LockProbe \/ SampleStopped \/ SeeB \/ SampleV2
    BY <1>t, <1>3 DEF SeeEffect, Halt, LockProbe, SampleStopped, SeeB, SampleV2, Goto
  <1>4. CASE SampleV1
    BY <1>4, SamplesHold
  <1>5. CASE SeeCompleted
    <2>1. effect = applied
      BY <1>5 DEF SeeCompleted, DemoIInv, ProgramInv, OneEffect, Over
    <2>2. worker[b].got = effect
      <3>1. <<b, "completed", 2>> \in logs
        BY <1>5 DEF SeeCompleted
      <3> QED BY <3>1 DEF DemoIInv, ProgramInv, CompletionIsFinal
    <2> QED BY <1>t, <1>5, <2>1, <2>2 DEF SeeCompleted, Goto
  <1>6. ASSUME <<a, "completed", 1>> \in logs PROVE row[Step].version = 1
    BY <1>6 DEF DemoIInv, ProgramInv, CompletionIsFinal
  <1>7. CASE SeeRejected
    BY <1>t, <1>6, <1>7 DEF SeeRejected, Goto, DemoIInv, ProgramInv, SecondGenerationReached
  <1>8. CASE Final
    BY <1>8 DEF Final, DemoIInv, ProgramInv, LastSampleStands, OneEffect, Over
  <1>9. CASE End
    BY <1>t, <1>6, <1>9 DEF End, DemoIInv, ProgramInv, LastSampleStands
  <1>10. CASE GiveUp \/ StopChildren \/ Watchdog
    BY <1>t, <1>10 DEF GiveUp, StopChildren, Watchdog, script
  <1> QED BY <1>1, <1>2, <1>3, <1>4, <1>5, <1>7, <1>8, <1>9, <1>10 DEF Main

-----------------------------------------------------------------------------
(* The invariant                                                           *)

LEMMA DemoBegins == DemoInit => DemoIInv
  <1> SUFFICES ASSUME DemoInit PROVE DemoIInv
    OBVIOUS
  <1>1. RefinementInv /\ HistoryInv
    BY InitEstablishes, InitDecidesNothing, InitExplains DEF DemoInit, RefinementInv, HistoryInv
  <1>2. /\ row[Step] \in Row /\ \A c \in Sessions : tx[c].op = "idle"
        /\ a \in Children /\ b \in Children /\ a # b
    BY <1>1, Cast DEF DemoInit, Init, Idle, HistoryInv, IInv, TypeOK, Children
  <1>3. DemoTypeOK
    BY <1>2 DEF DemoInit, DemoTypeOK, Stage, Fresh
  <1>4. OpenUntilOver /\ SessionsServeTheirProcess /\ AssertionsHold
    BY <1>2, Cast, Connections
       DEF DemoInit, OpenUntilOver, SessionsServeTheirProcess, AssertionsHold
  <1>5. OwnerIsHalted /\ SecondIsOff
    BY <1>2, Cast, Connections DEF DemoInit, OwnerIsHalted, SecondIsOff, Fresh
  <1>6. FirstGenerationStands /\ SecondGenerationReached /\ CompletionIsFinal /\ LastSampleStands
    BY DEF DemoInit, FirstGenerationStands, SecondGenerationReached, CompletionIsFinal,
           LastSampleStands
  <1>7. OneEffect
    BY DEF DemoInit, OneEffect, Fresh
  <1> QED BY <1>1, <1>3, <1>4, <1>5, <1>6, <1>7 DEF DemoIInv, ProgramInv

LEMMA DemoIInvPreserved == DemoIInv /\ [DemoNext]_vars_ => DemoIInv'
  <1> SUFFICES ASSUME DemoIInv, [DemoNext]_vars_ PROVE DemoIInv'
    OBVIOUS
  <1>1. CASE DemoNext
    <2>1. RefinementInv' /\ HistoryInv'
      BY <1>1, StoreInvariants
    <2>2. DemoTypeOK' /\ OpenUntilOver' /\ SessionsServeTheirProcess' /\ OwnerIsHalted'
      BY <1>1, TypesPreserved, OpenPreserved, SessionsPreserved, OwnerIsHaltedPreserved
    <2>3. SecondIsOff' /\ FirstGenerationStands' /\ SecondGenerationReached' /\ OneEffect'
      BY <1>1, SecondIsOffPreserved, FirstGenerationPreserved, SecondGenerationPreserved,
         OneEffectPreserved
    <2>4. CompletionIsFinal'
      BY <1>1, CompletionPreserved DEF CompletionIsFinal
    <2>5. LastSampleStands' /\ AssertionsHold'
      BY <1>1, LastSamplePreserved, AssertionsPreserved DEF LastSampleStands, AssertionsHold
    <2> QED BY <2>1, <2>2, <2>3, <2>4, <2>5 DEF DemoIInv, ProgramInv
  <1>2. CASE UNCHANGED vars_
    <2>1. UNCHANGED <<vars, script, processes>>
      BY <1>2 DEF vars_
    <2>2. RefinementInv' /\ HistoryInv'
      <3>1. [Next]_vars
        BY <2>1
      <3> QED BY <3>1, RefinementInvPreserved, HistoryInvPreserved DEF DemoIInv
    <2>3. DemoTypeOK' /\ OpenUntilOver' /\ SessionsServeTheirProcess' /\ OwnerIsHalted'
          /\ SecondIsOff'
      BY <2>1 DEF DemoIInv, ProgramInv, vars, script, processes, DemoTypeOK, OpenUntilOver,
                  SessionsServeTheirProcess, OwnerIsHalted, SecondIsOff
    <2>4. /\ FirstGenerationStands' /\ SecondGenerationReached' /\ OneEffect'
          /\ CompletionIsFinal' /\ LastSampleStands' /\ AssertionsHold'
      BY <2>1 DEF DemoIInv, ProgramInv, vars, script, processes, FirstGenerationStands,
                  SecondGenerationReached, OneEffect, CompletionIsFinal, LastSampleStands,
                  AssertionsHold
    <2> QED BY <2>2, <2>3, <2>4 DEF DemoIInv, ProgramInv
  <1> QED BY <1>1, <1>2

\* The invariant of the programs: what their stages know of the store, of the
\* processes and of the effect (run-idempotency-demo.ts, main).
THEOREM DemoInvariance == DemoSpec => []DemoIInv
  <1> QED BY DemoBegins, DemoIInvPreserved, PTL DEF DemoSpec

\* The part of it that the run checks: the stages, sessions and processes agree
\* (run-idempotency-demo.ts and run-fencing-demo.ts, main).
THEOREM ProgramInvariance == DemoSpec => []ProgramInv
  <1>1. DemoIInv => ProgramInv
    BY DEF DemoIInv
  <1> QED BY <1>1, DemoInvariance, PTL

\* Every run of the programs is a run of the store, so that what is proved of
\* the store, the queue it implements included, holds while they run: they talk
\* to it through its transactions alone (run-fencing-demo.ts, main).
THEOREM DemoIsARun == DemoSpec => Spec
  <1>1. DemoInit => Init
    BY DEF DemoInit
  <1>2. DemoIInv /\ [DemoNext]_vars_ => [Next]_vars
    <2> SUFFICES ASSUME DemoIInv, [DemoNext]_vars_ PROVE [Next]_vars
      OBVIOUS
    <2>1. CASE DemoNext
      BY <2>1, StoreInvariants
    <2>2. CASE UNCHANGED vars_
      BY <2>2 DEF vars_
    <2> QED BY <2>1, <2>2
  <1> QED BY <1>1, <1>2, DemoInvariance, PTL DEF DemoSpec, Spec

\* The assertions of run-idempotency-demo.ts and run-fencing-demo.ts never fail
\* on account of the store, however the processes and the database interleave.
THEOREM AssertionsAlwaysHold == DemoSpec => []AssertionsHold
  <1>1. DemoIInv => AssertionsHold
    BY DEF DemoIInv, ProgramInv
  <1> QED BY <1>1, DemoInvariance, PTL

\* A stopped or killed owner that the lock probe found outside the row changes
\* its step no more, whatever of its was under way (run-idempotency-demo.ts,
\* "Fail promptly if orchestration stopped A inside a step transaction").
THEOREM StoppedOwnerStaysSilent == DemoSpec => StoppedOwnerIsSilent
  <1> DEFINE Silent ==
        child[a] \in {"stopped", "dead"} /\ at \notin {"lock", "stopping", "ended"}
          /\ row'[Step] # row[Step] => lock[Step] \notin {Work(a), Renewal(a)}
  <1>1. DemoIInv /\ [DemoNext]_vars_ => [Silent]_vars_
    <2> SUFFICES ASSUME DemoIInv, DemoNext, child[a] \in {"stopped", "dead"},
                        at \notin {"lock", "stopping", "ended"}, row'[Step] # row[Step]
                 PROVE  lock[Step] \notin {Work(a), Renewal(a)}
      OBVIOUS
    <2>1. PICK c \in Sessions : Ends(c) /\ Commit(c) /\ lock[Step] = c
      BY RowChange
    <2>2. OwnerIsHalted /\ at \notin {"lock"} \cup Over
      BY DEF DemoIInv, ProgramInv, Over
    <2> QED BY <2>1, <2>2, HaltedOwnerIsSilent
  <1> QED BY <1>1, DemoInvariance, PTL DEF DemoSpec, StoppedOwnerIsSilent

=============================================================================
