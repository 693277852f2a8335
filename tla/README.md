# Durable runner: formal specification

TLA+ modules for the durable step runner in `server/src`: workers claim steps from PostgreSQL
under a lease, execute them, renew and complete them; a coordinator recovers expired leases and
promotes due retries; an API serves the history of all this as a resumable event stream. TLC
checks the modules on small instances; TLAPS proves the invariants, and the refinements between
the layers, for every instance. Paths below are relative to the repository, `S/` stands for
`server/src/`.

    tlc -workers 2 -config MCStepStore_one.cfg MCStepStore.tla
    tlapm StepStore_proofs.tla

## 1. The system

| component | state | operations | hard because | correct when |
|---|---|---|---|---|
| Step lifecycle `S/domain` | none | table of legal transitions | several statements hardcode edges of it | every committed change is an edge of the table |
| Step store `S/db/{claim-step, renew-step-lease, complete-step, record-step-failure, recover-expired-steps, promote-due-retries}.ts` | `steps` rows, row locks, open transactions, database clock | claim, renew, complete, fail, recover, promote | READ COMMITTED: a decision can be older than the lock it is carried out under; `SKIP LOCKED`; two different time functions; batches | one owner per generation, authority ends at the deadline, budget is respected, transactions act as if atomic |
| Event history `S/db/step-events.ts`, `S/api/events.ts` | `step_events`, transaction ids, cursors of clients and streams | append in the transition's transaction, read a page, resume | ids are allocated in one order and commit in another; rollbacks leave gaps; connections break | no reader misses an event or gets one twice or out of order |
| API process `S/api/events.ts`, `S/index.ts` | open handlers, abort controllers, server | open, poll, disconnect, shut down | a handler can be overtaken at each `await` | a loop ends with its client; shutdown ends |
| Worker process `S/worker/{worker-loop, worker}.ts` | the step in hand, the renewal loop, the stop signal, the exit code | register, claim, execute, renew, drain, report, stop | killed and restarted under the same id; a write whose outcome is unknown commits later; three loops share a pool | each generation runs once, what is stored was executed, the loops end in the right order, a stop is heeded |
| Registration and heartbeat `S/db/worker-heartbeat.ts`, `S/worker/heartbeat-loop.ts` | the `workers` row | register, beat | its write may be waiting for a connection when the process stops | it outlives the work loop and is over before the pool is ended |
| Connections `S/db/pool-config.ts` | pool of limited size, the password | hand out, open, evict, report a rejected password | the password rotates under a running process | a process that can open no connection is replaced |
| Coordinator `S/coordinator` | the place in its loop | recovery sweep, promotion sweep, sleep | either sweep may fail, at any time; restarts | no step stays behind |
| Executor `S/worker/execute-step.ts` | the await it is at | validate, hash, fail by attempt count, apply an effect | executed again after a crash, beside late requests of dead executions | every execution gives the same answer; failures are of the kind they are reported as |
| Idempotent effects `S/db/idempotent-effect.ts` | `idempotent_effects` rows | INSERT ON CONFLICT DO NOTHING, then SELECT | waits on an uncommitted row; statement snapshots; crash between effect and completion | one effect per key, one answer for all |
| Demo programs `S/worker/run-{idempotency, fencing}-demo.ts` | the stage reached, samples of the row, child processes | stop or kill the owner, sample, resume, clean up | the owner may be stopped inside a transaction | their assertions hold of the store; no child is left behind |

Components interact only through rows. A worker knows the `lease_version` its claim returned, and
every later write presents it together with the worker id; the coordinator knows no workers; the
API only reads. The step store writes each event in the transaction of the transition it
describes, and the event readers depend on that and on transaction ids alone.

`PROJECT.json` lists the hazards one by one at their lines. By theme: decisions taken before a lock
wait; the deadline's exact instant; a paused owner under a reused worker id; three places that
test the attempt budget; commit order against id order and against xid order; abandoned writes that
commit late; crashes between any two statements; starvation of one sweep by the failure of the
other; loops of one process that end in the wrong order; a password that changes under a running
process; and `await`s of the API's handlers at which a disconnect or a shutdown can strike.

## 2. Modules

| module | models | composed of | theorems |
|---|---|---|---|
| `StepLifecycle` | statuses, legal edges, event types, backoff factor | | |
| `StepQueue` | what the store promises: each operation as one atomic step | `StepLifecycle` | |
| `StepStore` | the transactions of the store, statement by statement | `StepLifecycle`, refines `StepQueue` | `StepStore_proofs` |
| `StepEvents` | the store's transactions with the xid and id of every event | extends `StepStore`, refines the writers of `EventStream` | `StepEvents_proofs` |
| `EventStream` | writers, watermark, pages, streams, clients | | `EventStream_proofs` |
| `WorkerRuntime` | what worker processes and the coordinator do with steps | on top of `StepQueue` | `WorkerRuntime_proofs` |
| `EffectRuntime` | tasks, executors and their effects in those workers | extends `WorkerRuntime`, uses `EffectRegister` | `WorkerRuntime_proofs` |
| `WorkerProcess` | one process from start to exit: loops, heartbeat, pool | | `WorkerProcess_proofs` |
| `EffectRegister` | what an idempotent effect promises: a register per key, set once | | |
| `IdempotentEffect` | concurrent calls of `applyIdempotentEffect` | refines `EffectRegister` | `IdempotentEffect_proofs` |
| `PausedOwner` | the demo programs that stop a worker, around the real transactions | extends `StepStore` | `PausedOwner_proofs` |
| `ApiStreams` | SSE handlers as processes, and shutdown | | `ApiStreams_proofs` |
| `MC*` | instances for TLC | | |

Two chains hold the project together. Upwards from the store: `StepStore` shows that interleaved
transactions change the table only as the atomic operations of `StepQueue` would;
`WorkerRuntime` takes those operations and adds the processes that call them, with their crashes
and lost replies; `EffectRuntime` puts the executor inside those processes. Without the middle layer
none of it could be explored: a transaction has five steps, and a worker a dozen. Sideways to the
readers: `StepEvents` gives the store's transactions their numbers and shows that they are the
writers `EventStream` supposes, so what is proved of readers there holds of readers of this table.
A third, short one joins the executors to their effects: `IdempotentEffect` implements the register
of `EffectRegister`, and the executors of `EffectRuntime` use that same register.

### StepLifecycle

The status enum, the terminal statuses, `LEGAL_TRANSITIONS`, the event vocabulary and
`power(2, least(greatest(attempt_count - 1, 0), 3))`. PENDING and CANCELLED are in the table and no
code path writes them.

### StepStore

A row has the columns a decision reads: status, owner, version, attempts, deadline, availableAt,
result. `row` is the newest committed version of each row, `draft` the version of the transaction
that holds its lock, `lock` the row locks, `note` the uncommitted event, `history` the committed
events of each step, `tx` each session's open transaction, `now` the database clock.

* A **claim** takes its snapshot (`SelectCandidate`), visits candidates in the statement's order,
  skips a locked one (`SkipLocked`), locks a free one and re-applies the WHERE clause to its newest
  version (`LockCandidate`), writes the row and event (`ClaimUpdate`) and commits. `now()` is the
  transaction's begin, the new deadline uses the clock at the write, as in the code.
* An **owner write** (renew, complete, fail) locks its row by id, waiting if need be (`LockRow`),
  and only then decides, on the newest version and the current clock (`Authorized`). A rejected one
  commits without a change. What it presents is any generation that was ever issued, for any
  worker: a paused process, a restarted one, a late retry.
* A **sweep** is one statement: snapshot, skip or lock and re-check up to `BatchLimit` rows, then
  all updates and events at once.
* `Abort` may end any open transaction at any point: a failed statement, a killed process, a lost
  connection. Rows and events go back together.
* `Tick` advances the clock between any two of these, so a wait can outlast a lease.

### StepEvents and EventStream

In `StepEvents` every action is one of `StepStore`, with the numbers PostgreSQL gives: the first
lock gets a transaction its xid (`Lock`), each event gets its id when it is inserted
(`InsertEvent`), `CommitEvents` publishes both together, and `RollBack` burns them. A transaction
that found nothing, such as a claim without a candidate, never has an xid. `log` keeps, for each
committed event of `history`, its xid, its id and the operation it came from.

`EventStream` has the same writers reduced to their numbers, and the readers. `BelowWatermark(e)` is
`xid < pg_snapshot_xmin(pg_current_snapshot())`. A client
fetches pages over REST and opens streams, with a step filter or none; a stream reads a page,
writes it to the wire and moves its cursor; the client receives events one at a time and remembers
the last; a disconnect loses the wire. Resuming translates the last id back into a position.

### StepQueue and WorkerRuntime

The queue's time is what is left of a deadline; `Tick` takes one away everywhere. A worker process
is `down`, `polling`, `claiming`, `claimed`, `executing`, `draining` (awaiting `renewal.stop()`) or
`reporting`; its renewal loop is `off`, `waiting` or `writing`. `Crash` takes the process at any
point, and the write it was awaiting lives on in `orphans`, to commit later or never.
`ReportErrors` and `RenewalErrors` are the catch blocks: the worker goes on, not knowing; the
abandoned write can still commit. The process restarts under the same id. A claim that throws ends
`main`, which is the same `Crash`. `Terminate` is SIGTERM, SIGINT and a rejected password.

The coordinator runs recovery, promotion, sleep; each sweep may do nothing (it found nothing or
failed), and it may be restarted. `finished` and `runs` are history variables: which outcomes
executors returned, and how often each generation was started.

### EffectRuntime

Each step has a `task`: its type, whether its payload parses, and how many failures it asks for.
The executor of a worker is `started`, `applying` (awaiting `context.applyEffect`) or `delaying`
(after the effect); it leaves with a result, an ordinary error or invalid input, and that decides
which write the loop sends. `effect` is the register per step key that `IdempotentEffect` shows
`applyIdempotentEffect` to be: the first request to commit is stored. A worker that dies, or whose
request fails with its outcome unknown, may leave the request in `late`, to commit after the step
has been claimed again. `answers` is a history of what executors returned.

### WorkerProcess

`main` is `down`, `registering`, `serving` (the work loop runs), `draining` (it has returned or
thrown; the heartbeat is awaited) or `closing` (`pool.end()`). Work loop, renewal loop and heartbeat
loop are chains of awaits, each with at most one `query`: waiting for a connection, running,
answered or failed. `Reuse` and `Connect` are the pool; `Connect` fails once the password has been
rotated, and then calls `onCredentialRejected` (`Rejected`). `Signal`, `Kill`, `Break` and `Rotate`
are the environment's, and take from `faults`. A process that ends is replaced, with the password of
the day. What the work loop does with a step is left to `WorkerRuntime`.

### IdempotentEffect

Each call is one execution of `applyIdempotentEffect`: the INSERT (which waits while another call
has the key uncommitted), its commit, the SELECT as a statement of its own with its own snapshot,
and the answer: applied, reused, conflict, missing. A call may be lost before its commit, with the
row rolled back, or after it.

### PausedOwner

The transactions of `StepStore` driven by two workers with two connections each, a coordinator's
recovery sweeps, and the program, whose stages follow `main` of `run-idempotency-demo.ts`
line by line. `Halt` is SIGSTOP or SIGKILL at any place where the program may send it: a
statement the worker has already sent on a connection is still executed (`sent`), nothing after it
is, and its connections keep their row locks until the process runs again; those of a killed
process are dropped. `LockProbe`, the samples, the two probes with the stale generation, and the
clean-up with its watchdog are the program's. `verdict` tells an assertion the store owes the program
(`broken`) from one that fails for want of time (`failed`).

### ApiStreams

A handler is awaiting `cursorFor`, awaiting a page, sleeping or ended. It registers its controller
and its close listener in the same turn that ends the first await. Shutdown aborts the registered
controllers, waits for open responses, ends the pool and exits. Requests are refused once
`app.close()` has been called, and a query on an ended pool fails; both are external behaviour.

## 3. What the runs show

| run | instance | what happens in it | shows |
|---|---|---|---|
| `store_one` | 1 step, 2 workers, 2 connections, 2 attempts, lease 2, clock to 4 | all interleavings of 2 transactions on a row | `StoreInv`, `LeaseBoundary`, `ExpiryIsFinal`, `GenerationsOnlyAdvance`, `HistoryExplainsRow`, `BudgetNeverStrands` |
| `store_events` | 2 steps with different priority and budget, 2 connections, 4 xids, 3 events | scans that order, skip, re-check and hold several rows, with the numbers of every event | `ImplementsQueue`, `ClaimUpdateFindsItsRow`, `IdsFollowTransitions`, `WaitersHoldNothing`, `FeedsTheStream` |
| `event_order` | the same, 4 events | counterexample | the third disagreement below |
| `stream` | 2 writers, 4 transactions, 3 events, 2 steps, pages of 2 | commits out of order, gaps, paging, streaming, reconnects | `NothingSkipped`, `OneAscendingHistory`, `EveryEventArrives`, `IInv` |
| `runtime_live` | 1 step, 1 worker id, lease 2 | kills and lost writes for ever | `EveryStepResolves` |
| `effect_runtime` | 1 step of any of the tasks, 2 workers, 2 attempts, 1 orphan | kills, restarts, late writes and late effects | `EachGenerationRunsOnce`, `LeaseGrowsByItsGeneration`, `ExecutionsAgree`, `SuccessIsEarned`, `GivenUpForAReason`, `ExecutorsUseARegister`, `EffectIInv` |
| `effect` | 3 executions of a step and a call for another request on the same key | races, losses, misuse | `CallersAgree`, `ConflictIsReal`, `ImplementsRegister`, `CallsReturn`, `IInv` |
| `worker_process` | pool of 2 for 3 users, 4 faults | signals, kills, broken queries, a rotated password, replacement | `HeartbeatOutlivesWork`, `PoolEndsLast`, `RejectionIsReported`, `StopIsHeeded`, `EvidenceStaysFresh`, `IInv` |
| `demo` | 1 step, 2 workers, lease 2, clock to 4 | the owner is stopped or killed anywhere and resumed | `AssertionsHold`, `StoppedOwnerIsSilent`, `DemoEnds` |
| `api_streams` | 3 streams | | `RegisteredStreamsArePolling`, `ShutdownCompletesOnceAborted` |
| `api_disconnect`, `api_shutdown` | 1 stream | counterexamples | the first two disagreements below |

Every property has a mutant of the code that breaks it: among them an owner write
judged by `now()`, fixed before the lock wait (`AuthorizedAtBegin`), an off-by-one at the deadline
(`AuthorizedAtDeadline`), a claim that does not re-check (`LockCandidateUnchecked`), an event
outside its transaction (`AbortKeepsEvents`), a scan that waits for a locked row (`WaitForLocked`), a
recovery that ignores the budget
(`RecoveredRowAlwaysReady`), a cursor on ids alone (`PositionById`), a failed recovery that skips
promotion (`SweepFailureEndsTick`), a SELECT in the INSERT's snapshot (`SelectInSameStatement`), a
report that does not wait for the renewal (`FinishWithoutDraining`), a renewal keyed on the reused
worker id (`OwnsByName`), an effect key with the
generation in it (`StoredAnew`, `ApplyEffectPerGeneration`), a signal that stops the heartbeat too (`SignalBoth`)
and a pool ended under the heartbeat (`FinishWithoutHeartbeat`).

### Bounds, and why they are enough

* **Steps.** Row decisions look at one row, so one step shows every contention on a row; two, of
  unequal priority and budget, show order, skipping and scans that hold several rows. The theorems hold for any number.
* **Connections.** Two show each pair of operations. A queue of several behind one lock is covered
  by the theorems, which hold for any number.
* **`MaxNow`** ends the clock when two leases of a step have expired one after the other, or one
  after a failure and its backoff; in `store_events` a lease is 1 long and one expiry is enough. In
  `demo` it is long enough for a's lease to expire and for b to finish within its own.
  `LeaseDuration` 2 leaves an instant inside a lease that is neither its start nor its end. The
  theorems hold for every `MaxNow`, so for behaviours of any length.
* **Attempts.** Two: one that leaves budget and one that exhausts it. `BackoffUnit` is 1, and the
  factor of later attempts is not reached in the runs; nothing depends on its size.
* **`BatchLimit`** stands for the literal 100; 2 in `store_events`, where a batch may hold
  both rows or the one that others have left it. With three events no batch there commits two rows,
  and none is cut by the limit: that such a batch is one operation of the queue too is left to the
  theorem `StoreImplementsQueue`.
* **`MaxOrphans`** bounds the abandoned writes at once; 1 in the runs. Several that overtake one
  another are covered by the theorems about `WorkerRuntime` and `EffectRuntime`, which hold for any
  bound. Without a bound a worker that is killed again and again would leave any number.
* **`MaxXid`, `MaxId`** end the writers. Four transactions and three events let one that starts
  first end last, and the rest overlap. Clients do not affect one another, so one is enough.
* **`MaxFaults`** is 4: enough for a rotation, a broken query that meets it, a signal and a kill in
  one life, in any order. **`MaxConns`** is 2, less than the three loops that want a connection.

`CHECK_DEADLOCK FALSE` appears where the modelled system really ends: all calls have returned, the
API process has exited, or the demo program has. Writers that have used up their ids leave readers
that poll for ever, and a clock at its bound leaves sessions that begin and abort, so the other runs
check deadlock.

### Fairness, and why the code justifies it

* `WorkerRuntime`: time passes; each `await` returns or throws (statements finish or their
  connection fails); timers fire; a killed process is restarted by its supervisor (`infra`). Strong
  fairness of a sweep for each step says that the row is not locked by somebody else at every
  single sweep and that not every sweep fails; of claims, that some process now and then lives
  long enough to claim. Nothing is assumed about `Crash`, `Terminate`, `ReportErrors` or
  `RenewalFires`: a worker may be killed for ever and no renewal ever be sent, and every step is
  still resolved, because each claim uses up an attempt.
* `EventStream`: open transactions end, closed clients reconnect, and a stream is not cut off at
  every poll: strong fairness of read, write and receive. Nothing forces a writer to begin, or a
  client to page.
* `WorkerProcess`: each loop takes its next step when it can, a running query is answered or
  breaks, a process that has exited is started again. Strong fairness of the pool for each waiter is
  its first-come-first-served queue: a connection that is freed again and again is in the end handed
  to everyone who waits. Nothing is assumed of the executor's effect, of renewals, or of idle
  connections being closed.
* `PausedOwner`: the program's own timers fire (`waitFor` has a limit, `stopChildren` a watchdog).
  Nothing is assumed of the children or the database.
* `IdempotentEffect`: a statement ends, also when its caller is gone: PostgreSQL finishes or rolls
  back the statement of a dead connection.
* `ApiStreams`: queries are answered, timers fire, `close()` and `end()` resolve when they can.
  Clients may stay or leave at will and nobody has to stop the process.

## 4. What is proved

For every number of steps, workers, connections, clients, calls and keys, every budget, priority,
lease and batch size, from the assumptions named in the modules (positive durations and limits,
`Null` outside the other sets, finite sets where cardinality matters):

**`StepStore_proofs`.** `Invariance` is `Spec => []IInv`. The safety properties are not inductive:
to show that a claim's UPDATE finds its row, one must know that the row cannot have changed since
it was locked; that rests on who can hold which lock. `IInv` therefore has

1. `LocksAreHeldByTransactions`: a locked row belongs to an open transaction at a stage where it
   may hold locks, and an owner write locks only its own row;
2. `DraftsAreLocked`: only a transaction about to commit has uncommitted changes, and on rows it
   has locked;
3. `TransactionShape`: which stages belong to which operation;
4. `PickedStillMatch`: the rows a scan has picked are its own and still match. This needs the clock
   only to advance, which is the code's wall-clock assumption (`recover-expired-steps.ts:64`);
5. `RowsAreSound`: the CHECK constraints, the budget, the owner and deadline of RUNNING rows only,
   of the committed and of the uncommitted version;
6. `DraftsFollowRows`: an uncommitted version follows its committed one.

From it follow `BudgetSafety`, `ClaimConsistency` (`ClaimConsistencyError` is unreachable),
`NoLockCycle`, and the action properties `LeaseBoundaryHolds`, `ExpiryIsFinalHolds` and
`GenerationsOnlyAdvanceHolds`.

**The refinement** (`StepStore_proofs`). `StoreImplementsQueue`: `Spec => ImplementsQueue`. Each
commit is one operation of `StepQueue` (a claim, an owner write, or a whole sweep as one batch), a commit without
a change and every other step of a transaction is invisible, and `Tick` is the queue's `Tick`. `IInv`
does not say enough for this: at COMMIT the decision is in the past. `WritesAreDecided`
adds what has survived of it: the change in `draft` is one the operation may make to the *committed*
row, which the lock has kept as it was; what was due or expired still is, because the clock only
advances; a deadline or a backoff granted at the write can only have shrunk since; a claim and an
owner write have changed one row and a sweep rows of its batch, at most `Limit` of them. A renewal
or a claim may commit when its lease is over already, and the queue may do the same.

**The history** (`StepStore_proofs`). `HistoryExplainsRowHolds`: the committed events of a step are
legal transitions from READY that end in the committed row, and there is one `CLAIMED` for each
attempt. A transaction that is about to commit breaks this for a moment (its event is a draft, too),
so the invariant has to say what the event in preparation will add: `NotesExplainDrafts` says that
it names the very change of status, generation and attempts that its row's draft makes, and that
where there is no event there is no such change (a renewal). As `DraftsAreLocked` keeps everybody
else from the row, the committed history still ends where the change begins, and appending the
event preserves the claim. Claims are counted by the cardinality of their positions, so that an
appended event adds one position or none. The assumption is that `Null` is no event
(`EventAssumption`). `StoreInv` is all of it together: locks, decisions and history; the run
`store_one` checks exactly what is proved.

**`StepEvents_proofs`.** `EventsImplementStore` (`EventsSpec => Spec`): the numbers allow nothing
new, so all theorems above hold of transactions that write events. `EventsInvariance` adds to `IInv`
that a transaction has an xid from its first lock to its end (`XidsAreTakenWithLocks`), that an
uncommitted event belongs to the row's lock holder and is newer than every committed one of its step
(`NumbersAreFresh`), and that an owner write that holds its row got its xid after everything
committed for it (`OwnersAreLate`; for one that is accepted an xid taken at BEGIN would do as well,
as the claim of its generation had committed by then). From it: `IdsAreOrdered`, `OwnerEventsAreNewest` and
`EventsFeedTheStream`, the refinement to the writers of `EventStream`.

**`EventStream_proofs`.** `Invariance`, and from it `NothingIsSkipped`, `NoCommitBehindAReader` and
`HistoryIsAscending`. The strengthening says that ids are handed out once and a committed event's
transaction is over (`IdsAreUnique`), that what a client has, what is on the wire and what the
server has read follow one another (`ReadersAreOrdered`), and that a page in the server's hands has
no gap even if more has committed since it was read (`PagesHaveNoGap`). The argument is the one of
the comment in `step-events.ts:136`, made complete: everything still to commit has an xid at or
above the watermark, and everything read has one below.

**`WorkerRuntime_proofs`.** `GenerationsRunOnce`, `SuccessIsOfAnExecution`,
`LeasesGrowByTheirGeneration`. That no generation runs twice needs: every claim is an attempt and
issues a new generation (`AttemptsAreClaims`), what a process holds at each place of its loop
(`ProcessShape`), that who has just claimed holds a generation nobody has executed or holds
(`ClaimsAreFresh`), and that what an abandoned write may still report was executed
(`OrphansAreSound`).

That a lease grows only by a
renewal of its own generation follows step by step: no other operation of the queue gives a running
generation time, a renewal that a process awaits goes out only while it executes or drains
(`ProcessShape`), and an abandoned one is accepted only while its generation still owns the row. The
abandoned one is why a stronger statement would be false: `renewal.stop()` waits for the write in
flight (`worker-loop.ts:61`), but a write that has failed with its outcome unknown is no longer
awaited (`worker-loop.ts:68`), and may extend the lease once more while the worker reports or after
its report was lost. That delays a recovery by one lease and no more.

`RuntimeUsesTheQueue` (`Spec => QueueSpec`) closes the first chain of section 2: whatever the processes do, in time or
after they are gone, they do to the rows what the queue allows, and `StoreImplementsQueue` says that
so do the transactions.

**The executors** (`WorkerRuntime_proofs`). `EffectImplementsWorker` (`EffectSpec => Spec`) carries
the theorems above over. `EffectInvariance` adds that an executor runs exactly while its process executes and
holds what is stored (`ExecutorShape`), that reports, also abandoned ones, name a failure for what it
is (`ReportsAreTrue`), and that results were earned (`ResultsAreEarned`). From it:
`ReexecutionsAgree`, `SuccessNeedsItsTask`, `ReasonIsGiven`, and `ExecutorsKeepTheRegister`: the
generations of a step are calls on one register, a commit (in time or late) sets it or finds it
set, and what an executor returns is what it holds. The mapping takes what a generation was told
from what its executor has returned, not from the store, so that a wrong answer would show.

**`WorkerProcess_proofs`.** `HeartbeatCoversWork`, `PoolIsEndedLast`,
`RejectionReachesTheSupervisor`, `PoolStaysBounded`, `BeatsFindTheirRow`
(`WorkerNotRegisteredError` is unreachable). The invariant says, for each stage of `main`, what is
running (`MainShape`), for each loop, what it awaits (`LoopShape`), and that the exit code follows
what stopped the process first (`CodeFollowsCause`). The pool is counted with `Cardinality`.

**`IdempotentEffect_proofs`.** `Invariance`, `Agreement`, `RowIsFound` (`EffectStateError` is
unreachable), `ConflictIsRealHolds`, `EffectsAreFinalHolds`. The strengthening: at most one row per
key, committed or not; a call past its INSERT finds its key committed, and its own row only if it
committed it; every answer agrees with the stored row. `CallsImplementRegister` is the refinement:
the commit of the INSERT sets the register, the reply reads it, every other step is invisible. That
a reply says "applied" only to the call whose row it is, and "reused" only to others, is what the
second half of the strengthening is for.

**`ApiStreams_proofs`.** `RegistryIsExact`: `RegisteredStreamsArePolling` is inductive with the
types, as registration and the end of a handler are each one turn of the event loop.

**`PausedOwner_proofs`.** `AssertionsAlwaysHold` and `StoppedOwnerStaysSilent`, for any lease,
backoff and budget above one (a row's default is 3, `schema.ts:61`), whichever way the owner is
halted. `DemoIsARun` shows first that a run of the programs is a run of the store, so that all
theorems above hold while they run. `DemoIInv` adds to `StoreInv` what the stages of the script know:

1. `OpenUntilOver`: no verdict before the clean-up, and nobody told to stop;
2. `SessionsServeTheirProcess`: what each connection does, and where its process is meanwhile;
3. `OwnerIsHalted`: a is up until it is halted and stays halted until it is resumed; once the lock
   probe has passed, a statement of its that is still under way may take the row lock but has yet to
   look at the row, so none of its changes can be about to commit;
4. `SecondIsOff`: b takes no part before the step is READY again;
5. `FirstGenerationStands`, `SecondGenerationReached`: until b starts, the row is the sampled one or
   was recovered at its deadline; once b has been seen to own it, its version is 2 or more;
6. `OneEffect`: the effect is stored once, and whoever is about to report has been given that one;
7. `CompletionIsFinal`, `LastSampleStands`: a completion that was logged is the step's last, and the
   row of the last sample is SUCCEEDED and stays.

The assertions follow stage by stage. That the program's two probes with the stale generation are
rejected needs 5 together with what `StoreInv` says of a write about to commit: it was decided for
the version of the committed row, and that is no longer 1.

**Only model-checked.** Liveness (`EveryStepResolves`, `StopIsHeeded`, `EvidenceStaysFresh`,
`EveryEventArrives`, `CallsReturn`, `DemoEnds`, `ShutdownCompletesOnceAborted`), which is outside
the prover's reach. Every invariant, action property and refinement of the passing runs is a
theorem. `BackoffFactor` is defined without recursion, so no proof needs induction over data.

## 5. Where code and documentation disagree

* **A disconnect does not always stop the loop** (`api_disconnect`). `request.raw.on("close")` is
  attached at `api/events.ts:208`, after `await cursorFor(...)` at line 186. A client that resumes
  from an id and leaves during that query is not heard; the handler then registers and polls until
  the process stops or a read fails. `docs/architecture.md:1228` says that a disconnect stops the
  loop. The test covers a client that leaves after the header.
* **Shutdown may wait for a client** (`api_shutdown`). `closeOpenEventStreams()` aborts what is
  registered at that instant (`index.ts:47`). A handler still in `cursorFor` registers later, with a
  controller that nobody aborts, and `app.close()` waits for its response for as long as the client
  stays. `index.ts:37` says that open streams are aborted first and that `close()` can complete.
  `ShutdownCompletesOnceAborted` shows that this is all there is to it: once the clients of such
  streams are gone, the exit follows.
* **One step's events may disagree between id order and reader order** (`event_order`).
  `step-events.ts:152` says that within one step the two orders agree, because every transition
  holds the row lock until commit. But a transaction gets its xid at its *first* row lock, and a
  claim or a sweep may go on to another row. The run: a claim with xid 3 locks step 1, finds at the
  re-check that it no longer qualifies, and keeps the lock; a recovery with xid 4 commits for step 2;
  the claim then takes step 2, which is READY again and was so in its snapshot too. Step 2's claim
  has the larger id and the smaller xid, and readers get it before the recovery it follows. It takes
  a statement that stalls between two row locks for as long as a lease or a backoff. No event is lost
  (`FeedsTheStream`), ids keep the order (`IdsFollowTransitions`), and an owner's completion or
  failure is never affected: its transaction begins after the claim it belongs to has committed
  (theorem `OwnerEventsAreNewest`).

## 6. Abstractions

* The database clock only advances, in units; the code states that assumption. The clock of the
  processes appears nowhere, as no decision uses it.
* Payload, `last_error`, `updated_at` and log text are left out, except for what `Task` keeps of a
  payload. A result is the generation whose executor returned it, or the stored effect, which is what
  the properties tell apart; a hash is a function of its input.
* Steps are there from the start and READY, as the programs that insert them write them
  (`run-demo.ts:39`); no code of the repository adds a step while others run except those.
* `StepEvents`: a sweep's statement may lock, update and insert row by row; the model locks all rows
  first, as in `StepStore`, and inserts events afterwards in any order. An id taken while a row is
  still unlocked would be smaller, of another step, and change no order within a step.
* `WorkerProcess`: a query that a loop awaits is one statement and one connection; the several
  statements of a transaction on one connection change nothing for the pool.
* `PausedOwner` begins when the step has been inserted. Statements of running children do not fail,
  the coordinator's promotion sweep finds nothing and is left out, and a worker may renew once more
  after a rejection. `SampleV2` compares whole rows, so b's own renewal between two samples makes the
  program fail without a cause (`run-idempotency-demo.ts:300`); that counts as `failed`, not `broken`.
  So does a child that the watchdog has to kill after a success, whose exit code is then not 0
  (`run-idempotency-demo.ts:172`).
* An isolation failure of PostgreSQL, a backward jump of its clock and a manual update of a row are
  outside the model.
* Deadlocks and waits on tables are outside. Pool slots are modelled in `WorkerProcess`; elsewhere
  the pool hands out connections eventually.
* Validation that throws before any statement (blank worker id, malformed key, cursor or limit)
  changes no state.

Not modelled: the health endpoint (stateless), reading configuration, TLS and the migration script,
the demo and benchmark programs that submit steps and wait for the outcome, the rendering of the web
page, and the infrastructure. An executor that blocks the event loop is a worker that is not
scheduled, which `WorkerRuntime` allows at any place (nothing forces `RenewalFires`).
`PROJECT.json` gives the reason for each.

## 7. Plan

Done, in this order: lifecycle, store and its proofs; queue and refinement; event stream and its
proofs; worker runtime; idempotent effects and their proofs; API streams; the store's events with
their numbers; the worker process with heartbeat and pool; executors and their effects; the demo
with a stopped owner; proofs of the runtime, the effects, the process, the event numbers and the
two refinements; the history, the registry of streams and the demo programs; the register.

Next: the effect of `PausedOwner` as one more user of the register; `run-recovery-demo.ts` and
`run-retries-demo.ts` as scripts over `WorkerRuntime`, if their checks say more than
`EveryStepResolves` does.
