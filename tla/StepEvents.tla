----------------------------- MODULE StepEvents -----------------------------
(***************************************************************************)
(* The steps table and the step_events table together: the transactions of *)
(* StepStore, with the transaction id (xid) and the event id that          *)
(* PostgreSQL gives them (db/schema.ts, db/step-events.ts).                *)
(*                                                                         *)
(* A transaction has no xid until it locks its first row.  An event gets   *)
(* its id from a sequence when it is inserted, in the transaction that     *)
(* changed the row; the xid column is that transaction's.  Both numberings *)
(* go up, and neither waits for a commit.                                  *)
(***************************************************************************)
EXTENDS StepStore

CONSTANTS
  MaxXid,   \* bound: transaction ids handed out
  MaxId     \* bound: event ids handed out

VARIABLES
  nextXid,  \* the next transaction id
  nextId,   \* the next value of the event id sequence
  xid,      \* xid of each session's transaction, 0 while it has none
  number,   \* id of the event inserted for each step and not committed, 0 if none
  log       \* for each committed event of `history`: its xid, its id, and by what

stamps == <<nextXid, nextId, xid, number, log>>

EventsInit ==
  /\ Init
  /\ nextXid = 1 /\ nextId = 1
  /\ xid = [c \in Sessions |-> 0]
  /\ number = [s \in Steps |-> 0]
  /\ log = [s \in Steps |-> << >>]

-----------------------------------------------------------------------------

\* The first lock or write gets the transaction its xid.
TakeXid(c) ==
  IF xid[c] # 0
  THEN UNCHANGED <<nextXid, xid>>
  ELSE /\ nextXid <= MaxXid
       /\ xid' = [xid EXCEPT ![c] = nextXid]
       /\ nextXid' = nextXid + 1

Start(c) == Begin(c) /\ UNCHANGED stamps

\* FOR UPDATE, waiting or skipping.
Lock(c) ==
  /\ LockCandidate(c) \/ LockRow(c)
  /\ TakeXid(c)
  /\ UNCHANGED <<nextId, number, log>>

\* Mutant: the event is numbered by its transaction.
InsertEventByXid(c, s) ==
  /\ lock[s] = c /\ note[s] # Null /\ number[s] = 0
  /\ number' = [number EXCEPT ![s] = xid[c]]
  /\ UNCHANGED <<vars, nextXid, nextId, xid, log>>

\* recordStepEvent, or one row of a sweep's INSERT.
InsertEvent(c, s) ==
  /\ lock[s] = c /\ note[s] # Null /\ number[s] = 0
  /\ nextId <= MaxId
  /\ number' = [number EXCEPT ![s] = nextId]
  /\ nextId' = nextId + 1
  /\ UNCHANGED <<vars, nextXid, xid, log>>

\* The statements that number nothing.
Statement(c) ==
  /\ \/ SelectCandidate(c) \/ SkipLocked(c) \/ ClaimNothing(c) \/ ClaimUpdate(c)
     \/ Reject(c) \/ Renew(c) \/ Complete(c) \/ Fail(c)
     \/ ResolveExpired(c) \/ PromoteDue(c)
  /\ UNCHANGED stamps

\* The steps an event of the session's transaction is about.
Noted(c) == {s \in Steps : lock[s] = c /\ note[s] # Null}

\* The session's transaction is over, and its numbers with it.
Forget(c) ==
  /\ xid' = [xid EXCEPT ![c] = 0]
  /\ number' = [s \in Steps |-> IF lock[s] = c THEN 0 ELSE number[s]]
  /\ UNCHANGED <<nextXid, nextId>>

\* COMMIT follows the last INSERT.
CommitEvents(c) ==
  /\ Commit(c)
  /\ \A s \in Noted(c) : number[s] # 0
  /\ log' = [s \in Steps |->
               IF s \in Noted(c)
               THEN Append(log[s], [xid |-> xid[c], id |-> number[s], op |-> tx[c].op])
               ELSE log[s]]
  /\ Forget(c)

\* Mutant: a rolled back insert stays in the table.
RollBackKeepsNumbers(c) ==
  /\ Abort(c)
  /\ xid' = [xid EXCEPT ![c] = 0]
  /\ UNCHANGED <<nextXid, nextId, number, log>>

\* A rollback burns the numbers.
RollBack(c) == Abort(c) /\ Forget(c) /\ UNCHANGED log

EventsNext ==
  \/ Tick /\ UNCHANGED stamps
  \/ \E c \in Sessions :
       \/ Start(c) \/ Lock(c) \/ Statement(c) \/ CommitEvents(c) \/ RollBack(c)
       \/ \E s \in Steps : InsertEvent(c, s)

EventsSpec == EventsInit /\ [][EventsNext]_<<vars, stamps>>

-----------------------------------------------------------------------------
(* Properties                                                              *)

\* The ids of one step's events go up in the order of its transitions: the row
\* lock is held from before the id is taken until the commit, and what a
\* rollback burnt is never used again (step-events.ts, "a single step's events
\* are totally ordered").
IdsFollowTransitions ==
  \A s \in Steps : \A i, j \in 1 .. Len(log[s]) : i < j => log[s][i].id < log[s][j].id

\* An owner's completion or failure is also the newest of its step in the order
\* (xid, id) that readers see: it is accepted only if the claim of its generation
\* is the step's newest event, and that claim had committed before its own
\* transaction began (complete-step.ts, record-step-failure.ts).
OwnerWritesComeLast ==
  \A s \in Steps : \A i, j \in 1 .. Len(log[s]) :
    i < j /\ log[s][j].op \in OwnerOps => log[s][i].xid < log[s][j].xid

\* "Within one step ... `id` order and `(xid, id)` order agree", because "every
\* transition holds that step's row lock until commit" (step-events.ts,
\* schema.ts, docs/architecture.md).
StepOrdersAgree ==
  \A s \in Steps : \A i, j \in 1 .. Len(log[s]) :
    i < j => /\ log[s][i].id < log[s][j].id
             /\ log[s][i].xid < log[s][j].xid

Numbered == [xid : Nat, id : Nat, op : {"claim"} \cup OwnerOps \cup Sweeps]

EventsTypeOK ==
  /\ nextXid \in Nat \ {0} /\ nextId \in Nat \ {0}
  /\ xid \in [Sessions -> Nat]
  /\ number \in [Steps -> Nat]
  /\ log \in [Steps -> Seq(Numbered)]

\* A transaction has an xid once it holds a lock, and none before its first.
XidsAreTakenWithLocks ==
  /\ \A c \in Sessions : /\ xid[c] < nextXid
                         /\ tx[c].at \in {"idle", "select", "lock"} => xid[c] = 0
  /\ \A s \in Steps : lock[s] # Null => xid[lock[s]] # 0

\* An event that is not committed yet is of the row's lock holder, and newer
\* than every committed one of its step.
NumbersAreFresh ==
  \A s \in Steps :
    /\ number[s] # 0 => lock[s] # Null /\ note[s] # Null
    /\ number[s] < nextId
    /\ \A i \in 1 .. Len(log[s]) :
         /\ log[s][i].id < nextId /\ log[s][i].xid < nextXid
         /\ number[s] # 0 => log[s][i].id < number[s]

\* An owner write that holds its row got its xid after all that is committed.
OwnersAreLate ==
  \A s \in Steps :
    lock[s] # Null /\ tx[lock[s]].op \in OwnerOps =>
      \A i \in 1 .. Len(log[s]) : log[s][i].xid < xid[lock[s]]

EventsIInv ==
  /\ IInv
  /\ EventsTypeOK
  /\ XidsAreTakenWithLocks
  /\ NumbersAreFresh
  /\ OwnersAreLate
  /\ IdsFollowTransitions
  /\ OwnerWritesComeLast

\* What EventStream calls a writer's pending events, and the table.
Inserted ==
  [c \in Sessions |->
     {[xid |-> xid[c], id |-> number[s], step |-> s] :
        s \in {r \in Steps : lock[r] = c /\ number[r] # 0}}]

Stored ==
  UNION {{[xid |-> log[s][i].xid, id |-> log[s][i].id, step |-> s] :
            i \in 1 .. Len(log[s])} : s \in Steps}

NoReaders == [c \in {} |-> 0]

Stream ==
  INSTANCE EventStream
    WITH Writers <- Sessions, Clients <- {}, PageSize <- 1,
         txn <- xid, pending <- Inserted, table <- Stored,
         want <- NoReaders, stream <- NoReaders, wire <- NoReaders,
         received <- NoReaders, last <- NoReaders

\* The transactions of the store are the writers of EventStream: what is shown
\* of readers there holds of readers of this table.
FeedsTheStream == Stream!Spec
=============================================================================
