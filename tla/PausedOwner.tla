----------------------------- MODULE PausedOwner -----------------------------
(***************************************************************************)
(* What worker/run-idempotency-demo.ts and worker/run-fencing-demo.ts      *)
(* stage with real processes: worker a is stopped by the operating system  *)
(* (or killed) after its effect and before its completion, its lease       *)
(* expires, worker b takes the step over, and a resumes.  The program      *)
(* drives this from outside and samples the row; its assertions are        *)
(* statements about the store.  The run without effects is a part of it.   *)
(*                                                                         *)
(* The transactions are those of StepStore.  A stopped process sends no    *)
(* further statement, but one it has sent on a connection is executed, and *)
(* its connections keep their locks.  The database drops those of a dead   *)
(* process.  The model begins when the step has been inserted.             *)
(***************************************************************************)
EXTENDS StepStore

CONSTANTS a, b, Coord, Probe, Step

ASSUME PausedOwnerAssumption ==
  /\ Workers = {a, b} /\ a # b
  /\ Steps = {Step} /\ MaxAttempts[Step] > 1
  /\ Coord # Probe /\ Coord \notin Workers
  /\ {Coord, Probe} \cap (Workers \X {"work", "renewal"}) = {}
  /\ Sessions = (Workers \X {"work", "renewal"}) \cup {Coord, Probe}

VARIABLES
  at,       \* how far the program is: what it waits for, or does, next
  kill,     \* --kill: a is killed, not stopped
  verdict,  \* "open", "passed", "failed", or "broken" by an assertion the store owes it
  seen,     \* the row it compares its samples with
  applied,  \* the effect it has seen committed
  child,    \* each child process: "off", "up", "stopped" or "dead"
  told,     \* children that were sent SIGTERM
  sent,     \* sessions of a stopped or dead process with a statement under way
  worker,   \* where each worker is, and the effect its executor was handed
  effect,   \* the generation whose effect is stored, 0 for none
  logs      \* what the workers have logged about their completions

script == <<at, kill, verdict, seen, applied>>
processes == <<child, told, sent, worker, effect, logs>>
vars_ == <<vars, script, processes>>

Work(w) == <<w, "work">>
Renewal(w) == <<w, "renewal">>
Children == Workers \cup {Coord}

Fresh == [at |-> "idle", version |-> 0, got |-> 0]

DemoInit ==
  /\ Init
  /\ at = "effect" /\ kill \in BOOLEAN /\ verdict = "open"
  /\ seen = row[Step] /\ applied = 0 /\ effect = 0
  /\ child = [x \in Children |-> IF x = b THEN "off" ELSE "up"]
  /\ told = {} /\ sent = {} /\ logs = {}
  /\ worker = [w \in Workers |-> Fresh]

-----------------------------------------------------------------------------
(* The children: what a worker does with its two connections               *)

Move(w, to) == worker' = [worker EXCEPT ![w].at = to]

Poll(w) ==
  /\ child[w] = "up" /\ w \notin told /\ worker[w].at = "idle"
  /\ BeginClaim(Work(w), w)
  /\ Move(w, "claiming")
  /\ UNCHANGED <<script, child, told, sent, effect, logs>>

\* Mutant: the key of the effect has the generation in it.
ApplyEffectPerGeneration(w) ==
  /\ child[w] = "up" /\ worker[w].at = "executing"
  /\ effect' = worker[w].version
  /\ worker' = [worker EXCEPT ![w].at = "holding", ![w].got = effect']
  /\ UNCHANGED <<vars, script, child, told, sent, logs>>

\* runIdempotentEffect up to its delay: the first effect is stored for good.
ApplyEffect(w) ==
  /\ child[w] = "up" /\ worker[w].at = "executing"
  /\ effect' = IF effect = 0 THEN worker[w].version ELSE effect
  /\ worker' = [worker EXCEPT ![w].at = "holding", ![w].got = effect']
  /\ UNCHANGED <<vars, script, child, told, sent, logs>>

RenewLease(w) ==
  /\ child[w] = "up" /\ worker[w].at \in {"executing", "holding"}
  /\ BeginOwnerWrite(Renewal(w), "renew", Step, w, worker[w].version, FALSE)
  /\ UNCHANGED <<script, processes>>

\* The delay is over and the renewal loop has stopped.
ReportResult(w) ==
  /\ child[w] = "up" /\ worker[w].at = "holding" /\ tx[Renewal(w)].op = "idle"
  /\ BeginOwnerWrite(Work(w), "complete", Step, w, worker[w].version, FALSE)
  /\ Move(w, "reporting")
  /\ UNCHANGED <<script, child, told, sent, effect, logs>>

\* What the client makes of a transaction that has committed.
Learn(c) ==
  IF c \notin Workers \X {"work"} THEN UNCHANGED <<worker, logs>>
  ELSE LET w == c[1]
           wrote == note[Step] # Null /\ lock[Step] = c
       IN  IF tx[c].op = "claim"
           THEN /\ worker' = [worker EXCEPT ![w] =
                                IF wrote THEN [at |-> "executing", version |-> row'[Step].version,
                                               got |-> 0]
                                ELSE [@ EXCEPT !.at = "idle"]]
                /\ UNCHANGED logs
           ELSE /\ Move(w, "idle")
                /\ logs' = logs \cup {<<w, IF wrote THEN "completed" ELSE "rejected",
                                        tx[c].version>>}

\* The processes a session belongs to; the probe's is the program itself.
Sends(c) ==
  \/ c = Probe
  \/ c = Coord /\ child[Coord] = "up"
  \/ c \in Workers \X {"work", "renewal"} /\ child[c[1]] = "up"

\* A statement is executed: of a live process, or sent before it was stopped.
\* What a scan does between its first row and its last is one statement.
Execute(c) ==
  /\ \/ SkipLocked(c) \/ LockCandidate(c)
     \/ /\ Sends(c) \/ c \in sent
        /\ \/ SelectCandidate(c) \/ ClaimNothing(c) \/ ClaimUpdate(c)
           \/ LockRow(c) \/ Reject(c) \/ Renew(c) \/ Complete(c) \/ Fail(c) \/ ResolveExpired(c)
  /\ sent' = IF tx'[c].at # "visit" \/ tx[c].at = "select" THEN sent \ {c} ELSE sent
  /\ UNCHANGED <<script, child, told, worker, effect, logs>>

EndTransaction(c) ==
  /\ Sends(c) \/ c \in sent
  /\ c # Probe
  /\ Commit(c)
  /\ Learn(c)
  /\ sent' = sent \ {c}
  /\ UNCHANGED <<script, child, told, effect>>

\* The database finds the client gone.
DropConnection(w) ==
  /\ child[w] = "dead"
  /\ \E c \in {Work(w), Renewal(w)} : Abort(c) /\ sent' = sent \ {c}
  /\ UNCHANGED <<script, child, told, worker, effect, logs>>

Sweep ==
  /\ child[Coord] = "up" /\ BeginSweep(Coord, "recover")
  /\ UNCHANGED <<script, processes>>

\* SIGTERM: a worker finishes its step, the coordinator its sweep.
Exit(x) ==
  /\ child[x] = "up" /\ x \in told
  /\ x \in Workers => worker[x].at = "idle"
  /\ child' = [child EXCEPT ![x] = "dead"]
  /\ UNCHANGED <<vars, script, told, sent, worker, effect, logs>>

-----------------------------------------------------------------------------
(* main                                                                    *)

Goto(stage) == at' = stage /\ UNCHANGED verdict

\* An assertion that the store owes the program has failed.
Broken == verdict' = "broken" /\ at' = "stopping"

\* Mutant: the wait for the owner's effect has no time limit.
GiveUpOnceStarted ==
  /\ at \notin {"effect", "stopping", "ended"}
  /\ verdict' = "failed" /\ at' = "stopping"
  /\ IF tx[Probe].op = "idle" THEN UNCHANGED vars ELSE Abort(Probe)
  /\ UNCHANGED <<kill, seen, applied, processes>>

\* Any other failure: too slow, too late, interrupted, a child gone.  A query
\* of the program that takes too long is cancelled.
GiveUp ==
  /\ at \notin {"stopping", "ended"}
  /\ verdict' = "failed" /\ at' = "stopping"
  /\ IF tx[Probe].op = "idle" THEN UNCHANGED vars ELSE Abort(Probe)
  /\ UNCHANGED <<kill, seen, applied, processes>>

Same == UNCHANGED <<vars, kill, processes>>

SeeEffect ==
  /\ at = "effect" /\ effect # 0
  /\ Goto("halt") /\ applied' = effect
  /\ UNCHANGED seen /\ Same

\* SIGSTOP or SIGKILL.  What a had sent is executed.
Halt ==
  /\ at = "halt"
  /\ Goto("lock")
  /\ child' = [child EXCEPT ![a] = IF kill THEN "dead" ELSE "stopped"]
  /\ \E busy \in SUBSET {c \in {Work(a), Renewal(a)} : tx[c].op # "idle"} : sent' = busy
  /\ UNCHANGED <<vars, kill, seen, applied, told, worker, effect, logs>>

\* Mutant: the program does not look whether a was stopped inside a transaction.
SkipLockProbe == at = "lock" /\ Goto("stopped") /\ UNCHANGED <<seen, applied>> /\ Same

\* SELECT ... FOR UPDATE NOWAIT, rolled back.
LockProbe ==
  /\ at = "lock" /\ lock[Step] = Null
  /\ Goto("stopped")
  /\ UNCHANGED <<seen, applied>> /\ Same

OwnedBy(w, v) == row[Step].status = "RUNNING" /\ row[Step].owner = w /\ row[Step].version = v

SampleStopped ==
  /\ at = "stopped" /\ OwnedBy(a, 1)
  /\ Goto("before") /\ seen' = row[Step]
  /\ UNCHANGED applied /\ Same

\* The two assertions of every sample while v1 may be running.
TooEarly == ~OwnedBy(a, 1) /\ now < seen.deadline
Renewed == row[Step].status = "RUNNING" /\ row[Step] # seen

\* The samples up to the moment the step is READY again.
SampleV1 ==
  /\ at \in {"before", "expiry", "ready"}
  /\ \/ (TooEarly \/ Renewed) /\ Broken
     \/ /\ ~TooEarly /\ ~Renewed
        /\ \/ at = "before" /\ now < seen.deadline /\ Goto("expiry")
           \/ at = "expiry" /\ now >= seen.deadline /\ Goto("ready")
           \/ /\ at = "ready" /\ row[Step].status # "RUNNING"
              /\ IF row[Step].status = "READY" /\ row[Step].version = 1 /\ effect = applied
                 THEN Goto("claimed") ELSE Broken
  /\ child' = IF at' = "claimed" THEN [child EXCEPT ![b] = "up"] ELSE child
  /\ UNCHANGED <<vars, kill, seen, applied, told, sent, worker, effect, logs>>

SeeB ==
  /\ at = "claimed" /\ OwnedBy(b, 2)
  /\ Goto("complete") /\ seen' = row[Step]
  /\ UNCHANGED applied /\ Same

\* completeStepSuccess and recordStepFailure with what a knew.
SendProbe ==
  /\ at \in {"complete", "fail"}
  /\ BeginOwnerWrite(Probe, at, Step, a, 1, at = "fail")
  /\ UNCHANGED <<script, processes>>

ProbeAnswered ==
  /\ Commit(Probe)
  /\ IF lock[Step] = Probe /\ note[Step] # Null THEN Broken
     ELSE Goto(IF at = "complete" THEN "fail" ELSE "probed")
  /\ UNCHANGED <<kill, seen, applied, processes>>

\* v2 is as it was; b's own renewal in between fails the program.
SampleV2 ==
  /\ at = "probed" /\ row[Step] = seen
  /\ Goto("completed")
  /\ UNCHANGED <<seen, applied>> /\ Same

\* b has completed v2, with the effect that a applied.
SeeCompleted ==
  /\ at = "completed" /\ row[Step].status = "SUCCEEDED" /\ <<b, "completed", 2>> \in logs
  /\ IF effect = applied /\ worker[b].got = applied
     THEN Goto(IF kill THEN "final" ELSE "stale") ELSE Broken
  /\ seen' = row[Step]
  /\ child' = IF kill THEN child ELSE [child EXCEPT ![a] = "up"]   \* SIGCONT
  /\ UNCHANGED <<vars, kill, applied, told, sent, worker, effect, logs>>

SeeRejected ==
  /\ at = "stale"
  /\ \/ <<a, "completed", 1>> \in logs /\ Broken
     \/ <<a, "rejected", 1>> \in logs /\ Goto("final")
  /\ UNCHANGED <<seen, applied>> /\ Same

Final ==
  /\ at = "final"
  /\ IF row[Step] = seen /\ effect = applied
     THEN verdict' = "passed" /\ at' = "stopping" ELSE Broken
  /\ UNCHANGED <<seen, applied>> /\ Same

\* stopChildren: SIGTERM after a success, else SIGKILL, which a stopped
\* process does not survive either.
StopChildren ==
  /\ at = "stopping" /\ told = {}
  /\ told' = Children
  /\ child' = [x \in Children |-> IF verdict = "passed" /\ child[x] # "off" THEN child[x] ELSE "dead"]
  /\ UNCHANGED <<vars, script, sent, worker, effect, logs>>

\* 5 seconds later.  A child that has to be killed after a success has not exited
\* with 0, which the program asserts.
Watchdog ==
  /\ at = "stopping" /\ told # {}
  /\ child' = [x \in Children |-> "dead"]
  /\ verdict' = IF verdict = "passed" /\ \E x \in Children : child[x] # "dead"
                THEN "failed" ELSE verdict
  /\ UNCHANGED <<vars, at, kill, seen, applied, told, sent, worker, effect, logs>>

End ==
  /\ at = "stopping" /\ told # {} /\ \A x \in Children : child[x] = "dead"
  /\ at' = "ended"
  /\ verdict' = IF verdict = "passed" /\ (<<a, "completed", 1>> \in logs \/ row[Step] # seen)
                THEN "broken" ELSE verdict
  /\ UNCHANGED <<seen, applied>> /\ Same

-----------------------------------------------------------------------------

Main ==
  \/ SeeEffect \/ Halt \/ LockProbe \/ SampleStopped \/ SampleV1 \/ SeeB
  \/ SendProbe \/ ProbeAnswered \/ SampleV2 \/ SeeCompleted \/ SeeRejected \/ Final
  \/ GiveUp \/ StopChildren \/ Watchdog \/ End

DemoNext ==
  \/ Tick /\ UNCHANGED <<script, processes>>
  \/ \E w \in Workers :
       Poll(w) \/ ApplyEffect(w) \/ RenewLease(w) \/ ReportResult(w) \/ DropConnection(w)
  \/ \E c \in Sessions : Execute(c) \/ EndTransaction(c)
  \/ \E x \in Children : Exit(x)
  \/ Sweep
  \/ Main

DemoSpec == DemoInit /\ [][DemoNext]_vars_

\* The program's own timers fire: a wait that lasts too long is given up.
DemoFairSpec == DemoSpec /\ WF_vars_(GiveUp \/ Final \/ StopChildren \/ Watchdog \/ End)

-----------------------------------------------------------------------------
(* Properties                                                              *)

\* Once the lock probe has passed, a stopped worker changes its step no more:
\* at most one statement was under way, and it takes two to commit a change
\* (run-idempotency-demo.ts, "Fail promptly if orchestration stopped A inside a
\* step transaction").
StoppedOwnerIsSilent ==
  [][child[a] \in {"stopped", "dead"} /\ at \notin {"lock", "stopping", "ended"}
       /\ row'[Step] # row[Step] => lock[Step] \notin {Work(a), Renewal(a)}]_vars_

\* No sample catches the store out: no recovery before the deadline, no
\* renewal by a stopped owner, no stale write accepted, no second effect, b's
\* result is a's effect, no change of a terminal row.  An assertion that fails
\* all the same fails for want of time (run-idempotency-demo.ts, the messages
\* of its assertions).
AssertionsHold == verdict # "broken"

\* The program ends, whatever has failed, and leaves no process behind.
DemoEnds == <>[](at = "ended" /\ \A x \in Children : child[x] = "dead")

-----------------------------------------------------------------------------
(* The inductive invariant                                                 *)

Stage ==
  {"effect", "halt", "lock", "stopped", "before", "expiry", "ready", "claimed",
   "complete", "fail", "probed", "completed", "stale", "final", "stopping", "ended"}

Over == {"stopping", "ended"}

DemoTypeOK ==
  /\ at \in Stage /\ kill \in BOOLEAN
  /\ verdict \in {"open", "passed", "failed", "broken"}
  /\ seen \in Row /\ applied \in Nat /\ effect \in Nat
  /\ child \in [Children -> {"off", "up", "stopped", "dead"}]
  /\ told \in SUBSET Children /\ sent \in SUBSET Sessions
  /\ worker \in [Workers -> [at : {"idle", "claiming", "executing", "holding", "reporting"},
                             version : Nat, got : Nat]]
  /\ logs \in SUBSET (Workers \X {"completed", "rejected"} \X Nat)

\* The program gives a verdict and stops its children only when it is done.
OpenUntilOver == at \notin Over => verdict = "open" /\ told = {}

\* Each connection serves one purpose, at the time its process has for it.
SessionsServeTheirProcess ==
  /\ \A w \in Workers :
       /\ tx[Work(w)].op \in {"idle", "claim", "complete"}
       /\ tx[Work(w)].op = "claim" => worker[w].at = "claiming"
       /\ tx[Work(w)].op = "complete" => worker[w].at = "reporting"
       /\ tx[Renewal(w)].op \in {"idle", "renew"}
  /\ tx[Coord].op \in {"idle", "recover"}
  /\ tx[Probe].op # "idle" =>
       tx[Probe].op = at /\ at \in {"complete", "fail"} /\ tx[Probe].version = 1

\* a is halted from its own stage on.  From the lock probe on, a statement of
\* its that is still under way can take the row lock, but not commit.
OwnerIsHalted ==
  /\ at \in {"effect", "halt"} => child[a] = "up"
  /\ child[a] \in {"stopped", "dead"} /\ at \notin {"lock"} \cup Over =>
       \A c \in {Work(a), Renewal(a)} : lock[Step] = c /\ c \in sent => tx[c].at = "visit"
  /\ at \in {"lock", "stopped", "before", "expiry", "ready"} => child[a] \in {"stopped", "dead"}

\* b takes no part before the step is READY again.
SecondIsOff ==
  at \in {"effect", "halt", "lock", "stopped", "before", "expiry", "ready"} =>
    child[b] = "off" /\ tx[Work(b)].op = "idle" /\ tx[Renewal(b)].op = "idle"
                     /\ worker[b].at = "idle"

\* Until b is started, a's first generation stands, or was recovered in time.
FirstGenerationStands ==
  at \in {"before", "expiry", "ready"} =>
    /\ seen.status = "RUNNING" /\ seen.owner = a /\ seen.version = 1 /\ seen.deadline \in Nat
    /\ row[Step] = seen \/ /\ row[Step].status = "READY" /\ row[Step].version = 1
                           /\ seen.deadline <= now

\* Once b has been seen to own the step, a's generation is gone for good.
SecondGenerationReached ==
  at \in {"complete", "fail", "probed", "completed", "stale", "final"} => row[Step].version >= 2

\* There is one effect, and whoever reports a success reports that one.
OneEffect ==
  /\ at \notin {"effect"} \cup Over => effect # 0 /\ applied = effect
  /\ \A w \in Workers :
       /\ worker[w].at = "executing" => worker[w].version > 0
       /\ worker[w].at \in {"holding", "reporting"} => effect # 0 /\ worker[w].got = effect

\* A completion that was logged is the step's last.
CompletionIsFinal ==
  \A e \in logs :
    e[2] = "completed" =>
      /\ row[Step].status = "SUCCEEDED" /\ row[Step].version = e[3]
      /\ effect # 0 /\ worker[e[1]].got = effect /\ worker[e[1]].at \in {"idle", "claiming"}

\* The row the program ends with is the one it has seen completed.
LastSampleStands ==
  at \in {"stale", "final"} \/ verdict = "passed" =>
    row[Step] = seen /\ seen.status = "SUCCEEDED" /\ row[Step].version >= 2

\* What the stages of the program know of the processes, the effect and the row.
ProgramInv ==
  /\ DemoTypeOK /\ OpenUntilOver /\ SessionsServeTheirProcess /\ OwnerIsHalted /\ SecondIsOff
  /\ FirstGenerationStands /\ SecondGenerationReached /\ OneEffect /\ CompletionIsFinal
  /\ LastSampleStands /\ AssertionsHold

DemoIInv == RefinementInv /\ HistoryInv /\ ProgramInv
=============================================================================
