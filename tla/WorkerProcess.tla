--------------------------- MODULE WorkerProcess ---------------------------
(***************************************************************************)
(* One worker process from start to exit, and its replacement: the main    *)
(* program (worker/worker.ts), the heartbeat loop beside the work loop     *)
(* (worker/heartbeat-loop.ts, db/worker-heartbeat.ts) and the connection   *)
(* pool under both (db/pool-config.ts).                                    *)
(*                                                                         *)
(* Each loop is a chain of awaits.  What it awaits from the database is a  *)
(* query: it waits for a connection, runs on it, and is answered; the loop *)
(* goes on later.  The work loop is reduced to its awaits: which step it   *)
(* works on is the business of WorkerRuntime.                              *)
(*                                                                         *)
(* The process knows the password it was started with.  Sessions survive a *)
(* rotation of the password, new connections do not.                       *)
(***************************************************************************)
EXTENDS Integers, FiniteSets

CONSTANTS
  MaxConns,   \* DB_POOL_MAX
  MaxFaults   \* bound: rotations, signals, kills and broken queries

ASSUME WorkerProcessAssumption ==
  /\ MaxConns \in Nat \ {0}
  /\ MaxFaults \in Nat

VARIABLES
  main,        \* where main() is; "down" between two processes
  threw,       \* runWorkerLoop has thrown
  exitCode,    \* the code the process will exit with if nothing throws
  lastExit,    \* how the last process ended: 0, 1, or 2 if it was killed
  first,       \* what asked the process to stop first
  workStop,    \* workController has been aborted
  beatStop,    \* heartbeatController has been aborted
  work,        \* where the work loop is
  renewing,    \* a lease is being renewed beside the execution
  beat,        \* where the heartbeat loop is
  query,       \* the query each of them awaits
  idle,        \* idle connections in the pool
  rotated,     \* the password has changed since the process was started
  registered,  \* the workers row exists
  faults       \* faults left

loops == <<work, renewing, beat, beatStop, threw>>
status == <<exitCode, lastExit, first, workStop>>
database == <<idle, rotated, registered>>
vars == <<main, loops, status, query, database, faults>>

\* Who may await a query: registration, the work loop with the execution it
\* awaits, the lease renewal beside it, and the heartbeat.
Users == {"main", "work", "renewal", "beat"}

TypeOK ==
  /\ main \in {"down", "registering", "serving", "draining", "closing"}
  /\ threw \in BOOLEAN
  /\ exitCode \in {0, 1} /\ lastExit \in {0, 1, 2}
  /\ first \in {"none", "signal", "rejected"}
  /\ workStop \in BOOLEAN /\ beatStop \in BOOLEAN
  /\ work \in {"off", "head", "claiming", "sleeping", "executing", "joining", "reporting"}
  /\ renewing \in BOOLEAN
  /\ beat \in {"off", "sleeping", "writing"}
  /\ query \in [Users -> {"none", "waiting", "running", "ok", "failed"}]
  /\ idle \in 0 .. MaxConns
  /\ rotated \in BOOLEAN /\ registered \in BOOLEAN
  /\ faults \in 0 .. MaxFaults

Init ==
  /\ main = "down"
  /\ threw = FALSE
  /\ exitCode = 0 /\ lastExit = 0
  /\ first = "none"
  /\ workStop = FALSE /\ beatStop = FALSE
  /\ work = "off" /\ renewing = FALSE /\ beat = "off"
  /\ query = [u \in Users |-> "none"]
  /\ idle = 0
  /\ rotated = FALSE /\ registered = FALSE
  /\ faults = MaxFaults

Fault == faults > 0 /\ faults' = faults - 1

-----------------------------------------------------------------------------
(* The pool                                                                *)

Ask(u) == query' = [query EXCEPT ![u] = "waiting"]

Done(u) == query' = [query EXCEPT ![u] = "none"]

Open == idle + Cardinality({u \in Users : query[u] = "running"})

\* An idle connection is used before a new one is opened.
Reuse(u) ==
  /\ query[u] = "waiting" /\ idle > 0
  /\ query' = [query EXCEPT ![u] = "running"]
  /\ idle' = idle - 1
  /\ UNCHANGED <<main, loops, status, rotated, registered, faults>>

\* Mutant: a rejected password stops the process like a signal.
RejectedLikeSignal ==
  /\ workStop' = TRUE
  /\ first' = IF first = "none" THEN "rejected" ELSE first
  /\ UNCHANGED <<exitCode, lastExit>>

\* Mutant: a rejected password is left to whoever asked for the connection.
RejectedQuietly ==
  /\ first' = IF first = "none" THEN "rejected" ELSE first
  /\ UNCHANGED <<exitCode, lastExit, workStop>>

\* onCredentialRejected
Rejected ==
  /\ exitCode' = IF workStop THEN exitCode ELSE 1
  /\ workStop' = TRUE
  /\ first' = IF first = "none" THEN "rejected" ELSE first
  /\ UNCHANGED lastExit

\* Mutant: connections are opened without a limit.
ConnectUnbounded(u) ==
  /\ query[u] = "waiting" /\ idle = 0
  /\ IF rotated
     THEN query' = [query EXCEPT ![u] = "failed"] /\ Rejected
     ELSE query' = [query EXCEPT ![u] = "running"] /\ UNCHANGED status
  /\ UNCHANGED <<main, loops, database, faults>>

\* A new connection is opened, or PostgreSQL rejects the password (28P01).
Connect(u) ==
  /\ query[u] = "waiting" /\ idle = 0 /\ Open < MaxConns
  /\ IF rotated
     THEN query' = [query EXCEPT ![u] = "failed"] /\ Rejected
     ELSE query' = [query EXCEPT ![u] = "running"] /\ UNCHANGED status
  /\ UNCHANGED <<main, loops, database, faults>>

\* The statement commits and its connection goes back to the pool.
Answer(u) ==
  /\ query[u] = "running"
  /\ query' = [query EXCEPT ![u] = "ok"]
  /\ idle' = idle + 1
  /\ registered' = (registered \/ u = "main")
  /\ UNCHANGED <<main, loops, status, rotated, faults>>

\* The connection breaks; the statement may have committed.
Break(u) ==
  /\ query[u] = "running" /\ Fault
  /\ query' = [query EXCEPT ![u] = "failed"]
  /\ registered' \in {registered, registered \/ u = "main"}
  /\ UNCHANGED <<main, loops, status, idle, rotated>>

\* An idle connection times out or is dropped: the pool evicts it.
IdleCloses ==
  /\ idle > 0
  /\ idle' = idle - 1
  /\ UNCHANGED <<main, loops, status, query, rotated, registered, faults>>

-----------------------------------------------------------------------------
(* main()                                                                  *)

\* A process is started, with the current password.
Start ==
  /\ main = "down"
  /\ main' = "registering"
  /\ Ask("main")
  /\ exitCode' = 0 /\ first' = "none" /\ workStop' = FALSE
  /\ beatStop' = FALSE /\ threw' = FALSE
  /\ rotated' = FALSE
  /\ UNCHANGED <<lastExit, work, renewing, beat, idle, registered, faults>>

Exit(code) ==
  /\ main' = "down" /\ lastExit' = code
  /\ work' = "off" /\ renewing' = FALSE /\ beat' = "off"
  /\ query' = [u \in Users |-> "none"]
  /\ idle' = 0
  /\ UNCHANGED <<exitCode, first, workStop, beatStop, threw, rotated, registered>>

Register ==
  /\ main = "registering" /\ query["main"] = "ok"
  /\ main' = "serving" /\ work' = "head" /\ beat' = "sleeping"
  /\ Done("main")
  /\ UNCHANGED <<threw, renewing, beatStop, status, database, faults>>

RegisterFails ==
  /\ main = "registering" /\ query["main"] = "failed"
  /\ Exit(1)
  /\ UNCHANGED faults

\* Mutant: the pool is ended without waiting for the heartbeat.
FinishWithoutHeartbeat ==
  /\ main = "draining"
  /\ \/ threw /\ Exit(1)
     \/ ~threw /\ main' = "closing" /\ UNCHANGED <<loops, status, query, database>>
  /\ UNCHANGED faults

\* The heartbeat loop has returned: pool.end(), unless the work loop threw.
Finish ==
  /\ main = "draining" /\ beat = "off"
  /\ \/ threw /\ Exit(1)
     \/ ~threw /\ main' = "closing" /\ UNCHANGED <<loops, status, query, database>>
  /\ UNCHANGED faults

\* pool.end() waits for the connections in use.
PoolEnds ==
  /\ main = "closing" /\ \A u \in Users : query[u] # "running"
  /\ Exit(exitCode)
  /\ UNCHANGED faults

Kill == main # "down" /\ Fault /\ Exit(2)

\* Mutant: the signal handler aborts both controllers.
SignalBoth ==
  /\ main # "down" /\ Fault
  /\ workStop' = TRUE /\ beatStop' = TRUE
  /\ first' = IF first = "none" THEN "signal" ELSE first
  /\ UNCHANGED <<main, work, renewing, beat, threw, exitCode, lastExit, query, database>>

\* SIGTERM or SIGINT.
Signal ==
  /\ main # "down" /\ Fault
  /\ workStop' = TRUE
  /\ first' = IF first = "none" THEN "signal" ELSE first
  /\ UNCHANGED <<main, loops, exitCode, lastExit, query, database>>

Rotate ==
  /\ main # "down" /\ ~rotated /\ Fault
  /\ rotated' = TRUE
  /\ UNCHANGED <<main, loops, status, query, idle, registered>>

-----------------------------------------------------------------------------
(* The work loop                                                           *)

\* The work loop returns or throws: `finally { heartbeatController.abort() }`.
WorkEnds(error) ==
  /\ main' = "draining" /\ work' = "off"
  /\ threw' = error /\ beatStop' = TRUE
  /\ UNCHANGED <<renewing, beat, status, database, faults>>

WorkStops == work = "head" /\ workStop /\ WorkEnds(FALSE) /\ UNCHANGED query

WorkMoves(to) ==
  /\ work' = to
  /\ UNCHANGED <<main, beat, beatStop, threw, status, database, faults>>

Claim ==
  /\ work = "head" /\ ~workStop
  /\ WorkMoves("claiming") /\ Ask("work")
  /\ UNCHANGED renewing

\* A failed claim is not caught.
ClaimThrows == work = "claiming" /\ query["work"] = "failed" /\ WorkEnds(TRUE) /\ Done("work")

Claimed ==
  /\ work = "claiming" /\ query["work"] = "ok"
  /\ Done("work")
  /\ \/ WorkMoves("sleeping") /\ UNCHANGED renewing
     \/ WorkMoves("executing") /\ renewing' = TRUE

PollAgain == work = "sleeping" /\ WorkMoves("head") /\ UNCHANGED <<renewing, query>>

\* The executor applies its effect.
ApplyEffect ==
  /\ work = "executing" /\ query["work"] = "none"
  /\ WorkMoves("executing") /\ Ask("work")
  /\ UNCHANGED renewing

\* The executor returns or throws; the renewal loop is told to stop.
Executed ==
  /\ work = "executing" /\ query["work"] \in {"none", "ok", "failed"}
  /\ WorkMoves("joining") /\ Done("work")
  /\ UNCHANGED renewing

\* The renewal interval is over.
RenewalFires ==
  /\ renewing /\ work = "executing" /\ query["renewal"] = "none"
  /\ Ask("renewal")
  /\ UNCHANGED <<main, loops, status, database, faults>>

\* Rejected, or told to stop: the renewal loop returns.  Else it waits again.
RenewalReturns ==
  /\ query["renewal"] \in {"ok", "failed"}
  /\ Done("renewal")
  /\ \/ UNCHANGED renewing
     \/ query["renewal"] = "ok" /\ renewing' = FALSE
  /\ UNCHANGED <<main, work, beat, beatStop, threw, status, database, faults>>

\* renewal.stop() has resolved.
Report ==
  /\ work = "joining" /\ query["renewal"] = "none"
  /\ WorkMoves("reporting") /\ Ask("work")
  /\ renewing' = FALSE

\* Whatever became of the report is logged.
Reported ==
  /\ work = "reporting" /\ query["work"] \in {"ok", "failed"}
  /\ WorkMoves("head") /\ Done("work")
  /\ UNCHANGED renewing

-----------------------------------------------------------------------------
(* runHeartbeatLoop                                                        *)

BeatMoves(to) ==
  /\ beat' = to
  /\ UNCHANGED <<main, work, renewing, beatStop, threw, status, database, faults>>

BeatFires == beat = "sleeping" /\ ~beatStop /\ BeatMoves("writing") /\ Ask("beat")

\* A failed heartbeat is logged and the loop carries on.
BeatReturns ==
  /\ beat = "writing" /\ query["beat"] \in {"ok", "failed"}
  /\ BeatMoves("sleeping") /\ Done("beat")

\* Mutant: the loop never looks at its signal.
BeatNeverEnds == beat = "sleeping" /\ beatStop /\ BeatMoves("writing") /\ Ask("beat")

BeatEnds == beat = "sleeping" /\ beatStop /\ BeatMoves("off") /\ UNCHANGED query

-----------------------------------------------------------------------------

Pool(u) == Reuse(u) \/ Connect(u) \/ Answer(u)

Main == Start \/ Register \/ RegisterFails \/ Finish \/ PoolEnds

Work ==
  \/ WorkStops \/ Claim \/ ClaimThrows \/ Claimed \/ PollAgain
  \/ Executed \/ Report \/ Reported

Beat == BeatFires \/ BeatReturns \/ BeatEnds

Next ==
  \/ \E u \in Users : Pool(u) \/ Break(u)
  \/ IdleCloses
  \/ Main \/ Work \/ Beat
  \/ ApplyEffect \/ RenewalFires \/ RenewalReturns
  \/ Signal \/ Kill \/ Rotate

Spec == Init /\ [][Next]_vars

\* A process that ends is replaced; loops that can go on do; queries are
\* answered, and the pool serves its waiters in turn.
Fairness ==
  /\ WF_vars(Main) /\ WF_vars(Work) /\ WF_vars(Beat) /\ WF_vars(RenewalReturns)
  /\ \A u \in Users : WF_vars(Answer(u)) /\ SF_vars(Reuse(u) \/ Connect(u))

FairSpec == Spec /\ Fairness

-----------------------------------------------------------------------------
(* Properties                                                              *)

\* "The heartbeat keeps running until the work loop has fully returned"
\* (worker.ts): a worker that finishes its last step, after a signal or a
\* rejected password, still shows up as alive.
HeartbeatOutlivesWork == work # "off" => beat # "off" /\ ~beatStop

\* The pool is ended when nothing in the process can ask it for a connection
\* any more (worker.ts, `await heartbeat` before pool.end()).
PoolEndsLast ==
  main = "closing" =>
    /\ work = "off" /\ beat = "off" /\ ~renewing
    /\ \A u \in Users : query[u] = "none"

\* A process that stops because its password was rejected exits non-zero, also
\* when a signal arrives while it finishes its step (worker.ts: "exits
\* non-zero and ECS starts a replacement").
RejectionIsReported == main = "down" /\ first = "rejected" => lastExit # 0

\* A process that has been asked to stop exits, whatever its loops await.
StopIsHeeded == workStop ~> main = "down"

\* What each stage of the process leaves running.
MainShape ==
  /\ main = "registering" <=> query["main"] # "none"
  /\ main \in {"down", "closing"} => beat = "off"
  /\ main = "serving" <=> work # "off"
  /\ main = "serving" => beat # "off" /\ ~beatStop /\ ~threw
  /\ main = "registering" => beat = "off" /\ ~beatStop /\ ~threw
  /\ query["main"] = "ok" => registered
  /\ main = "closing" => ~threw
  /\ main = "draining" => beatStop
  /\ main = "down" => idle = 0

\* What each loop awaits, and what nobody awaits.
LoopShape ==
  /\ beat = "writing" <=> query["beat"] # "none"
  /\ work \in {"claiming", "reporting"} => query["work"] # "none"
  /\ work \notin {"claiming", "executing", "reporting"} => query["work"] = "none"
  /\ work \notin {"executing", "joining"} => ~renewing
  /\ ~renewing => query["renewal"] = "none"

\* The pool never has more connections than it may.
PoolIsBounded == Open <= MaxConns

\* WorkerNotRegisteredError is unreachable (worker-heartbeat.ts): whoever beats
\* has registered.
HeartbeatFindsItsRow == beat # "off" => registered

\* What asked the process to stop first decides its exit code.
CodeFollowsCause ==
  /\ first = "none" <=> ~workStop
  /\ first = "rejected" => exitCode = 1
  /\ RejectionIsReported

\* Every stage of the process, by what it leaves running and awaited.
IInv ==
  /\ TypeOK
  /\ MainShape
  /\ LoopShape
  /\ PoolIsBounded
  /\ HeartbeatFindsItsRow
  /\ CodeFollowsCause

\* A heartbeat is recorded.
BeatCommits == query["beat"] = "running" /\ query'["beat"] = "ok"

\* Once the faults are over, heartbeats keep being recorded, whichever query
\* was the first to meet the new password: no process lives on that can work
\* but not be seen to (pool-config.ts: "would do that forever while ECS still
\* sees a running task").
EvidenceStaysFresh == []<><<BeatCommits>>_vars
=============================================================================
