-------------------------- MODULE StepEvents_proofs --------------------------
(* Machine-checked proofs about StepEvents, for every value of its constants. *)
EXTENDS StepEvents, StepStore_proofs

LEMMA EventsInitEstablishes == EventsInit => EventsIInv
  <1> SUFFICES ASSUME EventsInit PROVE EventsIInv
    OBVIOUS
  <1>1. IInv
    BY InitEstablishes DEF EventsInit
  <1>2. /\ xid = [c \in Sessions |-> 0] /\ number = [s \in Steps |-> 0]
        /\ log = [s \in Steps |-> << >>] /\ lock = [s \in Steps |-> Null]
        /\ nextXid = 1 /\ nextId = 1
    BY DEF EventsInit, Init
  <1>3. \A s \in Steps : log[s] = << >> /\ Len(log[s]) = 0
    BY <1>2
  <1>4. EventsTypeOK
    BY <1>2, EmptySeq DEF EventsTypeOK
  <1>5. XidsAreTakenWithLocks /\ NumbersAreFresh /\ OwnersAreLate
    BY <1>2, <1>3 DEF XidsAreTakenWithLocks, NumbersAreFresh, OwnersAreLate
  <1>6. IdsFollowTransitions /\ OwnerWritesComeLast
    BY <1>3 DEF IdsFollowTransitions, OwnerWritesComeLast
  <1> QED BY <1>1, <1>4, <1>5, <1>6 DEF EventsIInv

\* Every step of the events is a step of the store, or changes no row.
LEMMA EventsStepIsStoreStep ==
  ASSUME [EventsNext]_<<vars, stamps>>
  PROVE  [Next]_vars
  <1>1. CASE Tick
    BY <1>1 DEF Next
  <1>2. ASSUME NEW c \in Sessions, Start(c) \/ Lock(c) \/ Statement(c) \/ CommitEvents(c) \/ RollBack(c)
        PROVE  Next
    BY <1>2 DEF Start, Lock, Statement, CommitEvents, RollBack, Next, Run
  <1>3. ASSUME NEW c \in Sessions, NEW s \in Steps, InsertEvent(c, s)
        PROVE  UNCHANGED vars
    BY <1>3 DEF InsertEvent
  <1> QED BY <1>1, <1>2, <1>3 DEF EventsNext

\* What a statement that takes no lock may do to its session.
LEMMA StatementEffect ==
  ASSUME IInv, NEW c \in Sessions, Statement(c)
  PROVE  /\ lock' = lock /\ tx[c].at \notin {"idle", "lock"}
         /\ \A d \in Sessions \ {c} : tx'[d] = tx[d]
         /\ tx'[c].op = tx[c].op /\ tx'[c].at \in {"visit", "commit"}
  <1>1. tx[c] \in Transaction /\ tx \in [Sessions -> Transaction]
    BY DEF IInv, TypeOK
  <1>2. CASE SelectCandidate(c)
    <2>1. /\ Snapshot(tx[c]).at = "visit" /\ Snapshot(tx[c]).op = tx[c].op
      BY <1>1, <1>2, SnapshotShape DEF SelectCandidate
    <2> QED BY <1>1, <1>2, <2>1 DEF SelectCandidate
  <1>3. CASE SkipLocked(c)
    <2>1. PICK s \in Steps : tx' = [tx EXCEPT ![c].todo = @ \ {s}]
      BY <1>3 DEF SkipLocked
    <2> QED BY <1>1, <1>3, <2>1 DEF SkipLocked, Transaction
  <1>4. ASSUME tx' = [tx EXCEPT ![c].at = "commit"], lock' = lock,
               tx[c].at \in {"visit", "authorize"}
        PROVE  /\ lock' = lock /\ tx[c].at \notin {"idle", "lock"}
               /\ \A d \in Sessions \ {c} : tx'[d] = tx[d]
               /\ tx'[c].op = tx[c].op /\ tx'[c].at \in {"visit", "commit"}
    BY <1>1, <1>4 DEF Transaction
  <1>5. ClaimNothing(c) \/ ClaimUpdate(c) \/ ResolveExpired(c) \/ PromoteDue(c) =>
          tx' = [tx EXCEPT ![c].at = "commit"] /\ lock' = lock /\ tx[c].at = "visit"
    BY DEF ClaimNothing, ClaimUpdate, ResolveExpired, PromoteDue, ScanDone
  <1>6. Reject(c) \/ Renew(c) \/ Complete(c) \/ Fail(c) =>
          tx' = [tx EXCEPT ![c].at = "commit"] /\ lock' = lock /\ tx[c].at = "authorize"
    BY DEF Reject, Renew, Complete, Fail, OwnerWrite
  <1> QED BY <1>2, <1>3, <1>4, <1>5, <1>6 DEF Statement

\* A statement writes no event over one that is already there.
LEMMA StatementKeepsNotes ==
  ASSUME IInv, NEW c \in Sessions, Statement(c), NEW s \in Steps, note[s] # Null
  PROVE  note'[s] = note[s]
  <1>1. lock[s] # Null /\ tx[lock[s]].at = "commit"
    BY DEF IInv, DraftsAreLocked
  <1>2. note \in [Steps -> Event \cup {Null}]
    BY DEF IInv, TypeOK
  <1>3. CASE SelectCandidate(c) \/ SkipLocked(c) \/ ClaimNothing(c) \/ Reject(c)
    BY <1>3 DEF SelectCandidate, SkipLocked, ClaimNothing, Reject
  <1>4. CASE ClaimUpdate(c) \/ ResolveExpired(c) \/ PromoteDue(c)
    <2>1. tx[c].at = "visit" /\ \A u \in tx[c].picked : lock[u] = c
      BY <1>4 DEF ClaimUpdate, ResolveExpired, PromoteDue, ScanDone, IInv, PickedStillMatch
    <2>2. s \notin tx[c].picked
      BY <1>1, <2>1
    <2> QED BY <1>2, <1>4, <2>2 DEF ClaimUpdate, ResolveExpired, PromoteDue
  <1>5. CASE Renew(c) \/ Complete(c) \/ Fail(c)
    <2>1. tx[c].at = "authorize"
      BY <1>5 DEF Renew, Complete, Fail, OwnerWrite
    <2>2. lock[tx[c].step] = c
      BY <2>1 DEF IInv, TransactionShape
    <2>3. s # tx[c].step
      BY <1>1, <2>1, <2>2
    <2> QED BY <1>2, <1>5, <2>3 DEF Renew, Complete, Fail, OwnerWrite
  <1> QED BY <1>3, <1>4, <1>5 DEF Statement

\* Opening a transaction takes no lock.
LEMMA StartEffect ==
  ASSUME IInv, NEW c \in Sessions, Start(c)
  PROVE  /\ lock' = lock /\ tx[c].at = "idle" /\ Held(c) = {}
         /\ \A d \in Sessions \ {c} : tx'[d] = tx[d]
  <1>1. tx[c].op = "idle" /\ lock' = lock /\ \E t : tx' = [tx EXCEPT ![c] = t]
    BY DEF Start, Begin, BeginClaim, BeginSweep, BeginOwnerWrite
  <1> QED BY <1>1, IdleHoldsNothing DEF IInv, TypeOK, TransactionShape

\* A step that moves no lock and numbers nothing.
LEMMA NothingNumbered ==
  ASSUME EventsIInv, NEW c \in Sessions, IInv', UNCHANGED stamps, lock' = lock,
         \A d \in Sessions \ {c} : tx'[d] = tx[d],
         tx'[c].at \in {"idle", "select", "lock"} => xid[c] = 0,
         tx'[c].op = tx[c].op \/ Held(c) = {},
         \A s \in Steps : note[s] # Null => note'[s] = note[s]
  PROVE  EventsIInv'
  <1> USE DEF EventsIInv, stamps
  <1>1. (EventsTypeOK /\ NumbersAreFresh /\ IdsFollowTransitions /\ OwnerWritesComeLast)'
    BY DEF EventsTypeOK, NumbersAreFresh, IdsFollowTransitions, OwnerWritesComeLast
  <1>2. XidsAreTakenWithLocks'
    <2> SUFFICES ASSUME NEW d \in Sessions
                 PROVE  /\ xid[d] < nextXid
                        /\ tx'[d].at \in {"idle", "select", "lock"} => xid[d] = 0
      BY DEF XidsAreTakenWithLocks
    <2>1. CASE d = c
      BY <2>1 DEF XidsAreTakenWithLocks
    <2>2. CASE d # c
      BY <2>2 DEF XidsAreTakenWithLocks
    <2> QED BY <2>1, <2>2
  <1>3. OwnersAreLate'
    <2> SUFFICES ASSUME NEW s \in Steps, lock[s] # Null, tx'[lock[s]].op \in OwnerOps,
                        NEW i \in 1 .. Len(log[s])
                 PROVE  log[s][i].xid < xid[lock[s]]
      BY DEF OwnersAreLate
    <2>1. lock[s] \in Sessions
      BY DEF IInv, TypeOK
    <2>2. tx[lock[s]].op \in OwnerOps
      BY <2>1 DEF Held
    <2> QED BY <2>2 DEF OwnersAreLate
  <1> QED BY <1>1, <1>2, <1>3

LEMMA TickNumbersNothing ==
  ASSUME EventsIInv, Tick, UNCHANGED stamps
  PROVE  EventsIInv'
  <1>1. IInv'
    BY TickPreserves DEF EventsIInv
  <1> QED BY <1>1 DEF Tick, stamps, EventsIInv, EventsTypeOK, XidsAreTakenWithLocks,
                      NumbersAreFresh, OwnersAreLate, IdsFollowTransitions,
                      OwnerWritesComeLast

LEMMA StartPreserves ==
  ASSUME EventsIInv, NEW c \in Sessions, Start(c), IInv'
  PROVE  EventsIInv'
  <1>1. xid[c] = 0 /\ Held(c) = {} /\ UNCHANGED stamps /\ note' = note
    BY StartEffect DEF EventsIInv, XidsAreTakenWithLocks, Start, Begin, BeginClaim,
                       BeginSweep, BeginOwnerWrite
  <1> QED BY <1>1, StartEffect, NothingNumbered DEF EventsIInv

LEMMA StatementPreserves ==
  ASSUME EventsIInv, NEW c \in Sessions, Statement(c), IInv'
  PROVE  EventsIInv'
  <1>1. UNCHANGED stamps
    BY DEF Statement
  <1> QED BY <1>1, StatementEffect, StatementKeepsNotes, NothingNumbered DEF EventsIInv

-----------------------------------------------------------------------------
(* Locks and xids                                                          *)

\* A lock goes to a scan, or to an owner write that had none.
LEMMA LockEffect ==
  ASSUME IInv, NEW c \in Sessions, Lock(c)
  PROVE  \E s \in Steps :
           /\ lock[s] = Null /\ lock' = [lock EXCEPT ![s] = c]
           /\ tx'[c].op = tx[c].op /\ tx'[c].at \in {"visit", "authorize"}
           /\ \A d \in Sessions \ {c} : tx'[d] = tx[d]
           /\ tx[c].op \in OwnerOps => tx[c].at = "lock"
  <1>1. tx[c] \in Transaction /\ tx \in [Sessions -> Transaction]
    BY DEF IInv, TypeOK
  <1>2. CASE LockRow(c)
    <2>1. tx[c].step \in Steps
      BY <1>2 DEF LockRow, IInv, TransactionShape
    <2> QED BY <1>1, <1>2, <2>1 DEF LockRow, Transaction
  <1>3. CASE LockCandidate(c)
    <2>1. PICK s \in Steps :
            /\ lock[s] = Null /\ lock' = [lock EXCEPT ![s] = c]
            /\ tx' = [tx EXCEPT ![c].todo = @ \ {s},
                                ![c].picked = IF Matches(tx[c], s) THEN @ \cup {s} ELSE @]
      BY <1>3 DEF LockCandidate
    <2>2. tx[c].at = "visit" /\ tx[c].op \notin OwnerOps
      BY <1>3 DEF LockCandidate, IInv, TransactionShape, OwnerOps, Sweeps
    <2>3. /\ tx'[c].op = tx[c].op /\ tx'[c].at = tx[c].at
          /\ \A d \in Sessions \ {c} : tx'[d] = tx[d]
      BY <1>1, <2>1 DEF Transaction
    <2> QED BY <2>1, <2>2, <2>3
  <1> QED BY <1>2, <1>3 DEF Lock

LEMMA LockPreserves ==
  ASSUME EventsIInv, NEW c \in Sessions, Lock(c), IInv'
  PROVE  EventsIInv'
  <1> USE DEF EventsIInv
  <1>1. PICK s \in Steps :
          /\ lock[s] = Null /\ lock' = [lock EXCEPT ![s] = c]
          /\ tx'[c].op = tx[c].op /\ tx'[c].at \in {"visit", "authorize"}
          /\ \A d \in Sessions \ {c} : tx'[d] = tx[d]
          /\ tx[c].op \in OwnerOps => tx[c].at = "lock"
    BY LockEffect
  <1>2. /\ UNCHANGED <<nextId, number, log, note>>
        /\ xid \in [Sessions -> Nat] /\ nextXid \in Nat \ {0}
        /\ lock \in [Steps -> Sessions \cup {Null}]
    BY DEF Lock, LockRow, LockCandidate, EventsTypeOK, IInv, TypeOK
  <1>3. /\ nextXid' \in Nat \ {0} /\ nextXid <= nextXid' /\ xid' \in [Sessions -> Nat]
        /\ xid'[c] # 0 /\ xid'[c] < nextXid'
        /\ xid[c] # 0 => xid'[c] = xid[c]
        /\ xid[c] = 0 => xid'[c] = nextXid
        /\ \A d \in Sessions \ {c} : xid'[d] = xid[d]
    <2>1. CASE xid[c] # 0
      BY <1>2, <2>1 DEF Lock, TakeXid, XidsAreTakenWithLocks
    <2>2. CASE xid[c] = 0
      BY <1>2, <2>2 DEF Lock, TakeXid
    <2> QED BY <2>1, <2>2
  <1>4. EventsTypeOK'
    BY <1>2, <1>3 DEF EventsTypeOK
  <1>5. XidsAreTakenWithLocks'
    <2>1. ASSUME NEW d \in Sessions
          PROVE  /\ xid'[d] < nextXid'
                 /\ tx'[d].at \in {"idle", "select", "lock"} => xid'[d] = 0
      <3>1. CASE d = c
        BY <1>1, <1>3, <3>1
      <3>2. CASE d # c
        BY <1>1, <1>2, <1>3, <3>2 DEF XidsAreTakenWithLocks
      <3> QED BY <3>1, <3>2
    <2>2. ASSUME NEW u \in Steps, lock'[u] # Null PROVE xid'[lock'[u]] # 0
      <3>1. CASE lock'[u] = c
        BY <1>3, <3>1
      <3>2. CASE lock'[u] # c
        <4>1. lock'[u] = lock[u] /\ lock[u] \in Sessions \ {c}
          BY <1>1, <1>2, <2>2, <3>2
        <4> QED BY <1>3, <2>2, <4>1 DEF XidsAreTakenWithLocks
      <3> QED BY <3>1, <3>2
    <2> QED BY <2>1, <2>2 DEF XidsAreTakenWithLocks
  <1>6. NumbersAreFresh'
    <2> SUFFICES ASSUME NEW u \in Steps
                 PROVE  /\ number[u] # 0 => lock'[u] # Null /\ note[u] # Null
                        /\ number[u] < nextId
                        /\ \A i \in 1 .. Len(log[u]) :
                             /\ log[u][i].id < nextId /\ log[u][i].xid < nextXid'
                             /\ number[u] # 0 => log[u][i].id < number[u]
      BY <1>2 DEF NumbersAreFresh
    <2>1. number[u] # 0 => lock'[u] # Null /\ note[u] # Null
      BY <1>1, <1>2, StepStoreAssumption DEF NumbersAreFresh
    <2>2. \A i \in 1 .. Len(log[u]) : log[u][i].xid \in Nat
      <3>1. \A i \in 1 .. Len(log[u]) : log[u][i] \in Numbered
        BY ElementOfSeq DEF EventsTypeOK
      <3> QED BY <3>1 DEF Numbered
    <2> QED BY <1>2, <1>3, <2>1, <2>2 DEF NumbersAreFresh
  <1>7. OwnersAreLate'
    <2> SUFFICES ASSUME NEW u \in Steps, lock'[u] # Null, tx'[lock'[u]].op \in OwnerOps,
                        NEW i \in 1 .. Len(log[u])
                 PROVE  log[u][i].xid < xid'[lock'[u]]
      BY <1>2 DEF OwnersAreLate
    <2>1. CASE lock'[u] = c
      <3>1. xid'[c] = nextXid
        BY <1>1, <1>3, <2>1 DEF XidsAreTakenWithLocks
      <3> QED BY <2>1, <3>1 DEF NumbersAreFresh
    <2>2. CASE lock'[u] # c
      <3>1. lock'[u] = lock[u] /\ lock[u] \in Sessions \ {c}
        BY <1>1, <1>2, <2>2
      <3> QED BY <1>1, <1>3, <3>1 DEF OwnersAreLate
    <2> QED BY <2>1, <2>2
  <1>8. (IdsFollowTransitions /\ OwnerWritesComeLast)'
    BY <1>2 DEF IdsFollowTransitions, OwnerWritesComeLast
  <1> QED BY <1>4, <1>5, <1>6, <1>7, <1>8

-----------------------------------------------------------------------------
(* Events                                                                  *)

LEMMA InsertEventPreserves ==
  ASSUME EventsIInv, NEW c \in Sessions, NEW s \in Steps, InsertEvent(c, s), IInv'
  PROVE  EventsIInv'
  <1> USE DEF EventsIInv
  <1>1. /\ number' = [number EXCEPT ![s] = nextId] /\ nextId' = nextId + 1
        /\ lock[s] = c /\ c # Null /\ number[s] = 0 /\ note[s] # Null
        /\ UNCHANGED <<lock, tx, note, nextXid, xid, log>>
    BY StepStoreAssumption DEF InsertEvent, vars
  <1>2. number \in [Steps -> Nat] /\ nextId \in Nat \ {0}
    BY DEF EventsTypeOK
  <1>3. (EventsTypeOK /\ IdsFollowTransitions /\ OwnerWritesComeLast)'
    <2>1. number' \in [Steps -> Nat] /\ nextId' \in Nat \ {0}
      BY <1>1, <1>2
    <2>2. EventsTypeOK'
      BY <1>1, <2>1 DEF EventsTypeOK
    <2>3. (IdsFollowTransitions /\ OwnerWritesComeLast)'
      BY <1>1 DEF IdsFollowTransitions, OwnerWritesComeLast
    <2> QED BY <2>2, <2>3
  <1>5. (XidsAreTakenWithLocks /\ OwnersAreLate)'
    BY <1>1 DEF XidsAreTakenWithLocks, OwnersAreLate
  <1>4. NumbersAreFresh'
    <2> SUFFICES ASSUME NEW u \in Steps
                 PROVE  /\ number'[u] # 0 => lock[u] # Null /\ note[u] # Null
                        /\ number'[u] < nextId'
                        /\ \A i \in 1 .. Len(log[u]) :
                             /\ log[u][i].id < nextId' /\ log[u][i].xid < nextXid
                             /\ number'[u] # 0 => log[u][i].id < number'[u]
      BY <1>1 DEF NumbersAreFresh
    <2>1. \A i \in 1 .. Len(log[u]) : log[u][i].id \in Nat
      <3>1. \A i \in 1 .. Len(log[u]) : log[u][i] \in Numbered
        BY ElementOfSeq DEF EventsTypeOK
      <3> QED BY <3>1 DEF Numbered
    <2>2. CASE u = s
      BY <1>1, <1>2, <2>1, <2>2 DEF NumbersAreFresh
    <2>3. CASE u # s
      BY <1>1, <1>2, <2>1, <2>3 DEF NumbersAreFresh
    <2> QED BY <2>2, <2>3
  <1> QED BY <1>3, <1>4, <1>5

\* The end of a transaction that adds, for each step it held, at most its
\* event to the log.
LEMMA EventsEndStep ==
  ASSUME EventsIInv, NEW c \in Sessions, IInv', Forget(c), lock' = Release(c),
         tx' = [tx EXCEPT ![c] = Idle], log' \in [Steps -> Seq(Numbered)],
         \A s \in Steps : lock[s] # c => note'[s] = note[s],
         \A s \in Steps :
           \/ log'[s] = log[s]
           \/ /\ lock[s] = c /\ number[s] # 0
              /\ \E e \in Numbered : /\ e.xid = xid[c] /\ e.id = number[s] /\ e.op = tx[c].op
                                     /\ log'[s] = Append(log[s], e)
  PROVE  EventsIInv'
  <1> USE DEF EventsIInv
  <1>1. /\ xid' = [xid EXCEPT ![c] = 0] /\ nextXid' = nextXid /\ nextId' = nextId
        /\ number' = [s \in Steps |-> IF lock[s] = c THEN 0 ELSE number[s]]
        /\ c # Null
    BY StepStoreAssumption DEF Forget
  <1>2. /\ xid \in [Sessions -> Nat] /\ number \in [Steps -> Nat]
        /\ nextXid \in Nat \ {0} /\ nextId \in Nat \ {0}
        /\ lock \in [Steps -> Sessions \cup {Null}] /\ tx \in [Sessions -> Transaction]
    BY DEF EventsTypeOK, IInv, TypeOK
  <1>3. \A s \in Steps : /\ lock'[s] = IF lock[s] = c THEN Null ELSE lock[s]
                         /\ number'[s] = IF lock[s] = c THEN 0 ELSE number[s]
    BY <1>1 DEF Release
  <1>4. /\ xid'[c] = 0 /\ tx'[c] = Idle
        /\ \A d \in Sessions \ {c} : xid'[d] = xid[d] /\ tx'[d] = tx[d]
    BY <1>1, <1>2
  <1>5. EventsTypeOK'
    BY <1>1, <1>2 DEF EventsTypeOK
  <1>6. XidsAreTakenWithLocks'
    <2>1. \A d \in Sessions : /\ xid'[d] < nextXid'
                              /\ tx'[d].at \in {"idle", "select", "lock"} => xid'[d] = 0
      BY <1>1, <1>2, <1>4 DEF XidsAreTakenWithLocks
    <2>2. \A s \in Steps : lock'[s] # Null => xid'[lock'[s]] # 0
      BY <1>2, <1>3, <1>4 DEF XidsAreTakenWithLocks
    <2> QED BY <2>1, <2>2 DEF XidsAreTakenWithLocks
  <1>7. ASSUME NEW s \in Steps
        PROVE  /\ log[s] \in Seq(Numbered) /\ Len(log[s]) \in Nat
               /\ \A i \in 1 .. Len(log[s]) : log[s][i].id \in Nat /\ log[s][i].xid \in Nat
               /\ \/ log'[s] = log[s]
                  \/ /\ lock[s] = c /\ number[s] # 0
                     /\ Len(log'[s]) = Len(log[s]) + 1
                     /\ \A i \in 1 .. Len(log[s]) : log'[s][i] = log[s][i]
                     /\ log'[s][Len(log[s]) + 1].xid = xid[c]
                     /\ log'[s][Len(log[s]) + 1].id = number[s]
                     /\ log'[s][Len(log[s]) + 1].op = tx[c].op
    <2>1. log[s] \in Seq(Numbered)
      BY DEF EventsTypeOK
    <2>2. \A i \in 1 .. Len(log[s]) : log[s][i] \in Numbered
      BY <2>1, ElementOfSeq
    <2>3. \A i \in 1 .. Len(log[s]) : log[s][i].id \in Nat /\ log[s][i].xid \in Nat
      BY <2>2 DEF Numbered
    <2>4. CASE log'[s] = log[s]
      BY <2>1, <2>3, <2>4, LenProperties
    <2>5. CASE log'[s] # log[s]
      <3>1. PICK e \in Numbered : /\ e.xid = xid[c] /\ e.id = number[s] /\ e.op = tx[c].op
                                  /\ log'[s] = Append(log[s], e)
        BY <2>5
      <3> HIDE DEF Numbered
      <3>2. /\ Len(log'[s]) = Len(log[s]) + 1
            /\ \A i \in 1 .. Len(log[s]) : log'[s][i] = log[s][i]
            /\ log'[s][Len(log[s]) + 1] = e
        BY <2>1, <3>1, AppendProperties
      <3>3. lock[s] = c /\ number[s] # 0
        BY <2>5
      <3> QED BY <2>1, <2>3, <3>1, <3>2, <3>3, LenProperties
    <2> QED BY <2>4, <2>5
  <1>8. NumbersAreFresh'
    <2> SUFFICES ASSUME NEW s \in Steps
                 PROVE  /\ number'[s] # 0 => lock'[s] # Null /\ note'[s] # Null
                        /\ number'[s] < nextId
                        /\ \A i \in 1 .. Len(log'[s]) :
                             /\ log'[s][i].id < nextId /\ log'[s][i].xid < nextXid
                             /\ number'[s] # 0 => log'[s][i].id < number'[s]
      BY <1>1 DEF NumbersAreFresh
    <2>1. ASSUME number'[s] # 0 PROVE lock'[s] # Null /\ note'[s] # Null
      <3>1. lock[s] # c /\ number[s] # 0 /\ lock'[s] = lock[s]
        BY <1>3, <2>1
      <3> QED BY <3>1 DEF NumbersAreFresh
    <2>2. number'[s] < nextId
      <3>1. number[s] < nextId
        BY DEF NumbersAreFresh
      <3>2. number'[s] = 0 \/ number'[s] = number[s]
        BY <1>3
      <3> HIDE DEF EventsIInv
      <3> QED BY <1>2, <3>1, <3>2
    <2>3. CASE log'[s] = log[s]
      BY <1>3, <2>1, <2>2, <2>3 DEF NumbersAreFresh
    <2>4. CASE log'[s] # log[s]
      <3>1. lock[s] = c /\ number'[s] = 0
        BY <1>3, <1>7, <2>4
      <3>2. ASSUME NEW i \in 1 .. Len(log'[s])
            PROVE  log'[s][i].id < nextId /\ log'[s][i].xid < nextXid
        <4>1. CASE i \in 1 .. Len(log[s])
          BY <1>7, <2>4, <4>1 DEF NumbersAreFresh
        <4>2. CASE i \notin 1 .. Len(log[s])
          <5>1. i = Len(log[s]) + 1
            BY <1>7, <2>4, <4>2
          <5> QED BY <1>7, <2>4, <5>1 DEF NumbersAreFresh, XidsAreTakenWithLocks
        <4> QED BY <4>1, <4>2
      <3> QED BY <2>2, <3>1, <3>2
    <2> QED BY <2>3, <2>4
  <1>9. OwnersAreLate'
    <2> SUFFICES ASSUME NEW s \in Steps, lock'[s] # Null, tx'[lock'[s]].op \in OwnerOps,
                        NEW i \in 1 .. Len(log'[s])
                 PROVE  log'[s][i].xid < xid'[lock'[s]]
      BY DEF OwnersAreLate
    <2>1. lock[s] # c /\ lock'[s] = lock[s] /\ lock[s] \in Sessions \ {c}
      BY <1>2, <1>3
    <2>2. log'[s] = log[s]
      BY <1>7, <2>1
    <2> QED BY <1>4, <2>1, <2>2 DEF OwnersAreLate
  <1>10. ASSUME NEW s \in Steps, NEW i \in 1 .. Len(log'[s]), NEW j \in 1 .. Len(log'[s]), i < j
         PROVE  /\ log'[s][i].id < log'[s][j].id
                /\ log'[s][j].op \in OwnerOps => log'[s][i].xid < log'[s][j].xid
    <2>1. CASE log'[s] = log[s]
      BY <1>10, <2>1 DEF IdsFollowTransitions, OwnerWritesComeLast
    <2>2. CASE log'[s] # log[s] /\ j \in 1 .. Len(log[s])
      <3>1. i \in 1 .. Len(log[s])
        BY <1>7, <1>10, <2>2
      <3> QED BY <1>7, <1>10, <2>2, <3>1 DEF IdsFollowTransitions, OwnerWritesComeLast
    <2>3. CASE log'[s] # log[s] /\ j \notin 1 .. Len(log[s])
      <3>1. j = Len(log[s]) + 1 /\ i \in 1 .. Len(log[s]) /\ lock[s] = c /\ number[s] # 0
        BY <1>7, <1>10, <2>3
      <3>2. log'[s][i] = log[s][i]
        BY <1>7, <2>3, <3>1
      <3>3. log[s][i].id < number[s]
        BY <3>1 DEF NumbersAreFresh
      <3>4. tx[c].op \in OwnerOps => log[s][i].xid < xid[c]
        BY <1>1, <3>1 DEF OwnersAreLate
      <3>5. /\ log'[s][j].xid = xid[c] /\ log'[s][j].id = number[s]
            /\ log'[s][j].op = tx[c].op
        BY <1>7, <2>3, <3>1
      <3> QED BY <3>2, <3>3, <3>4, <3>5
    <2> QED BY <2>1, <2>2, <2>3
  <1>11. (IdsFollowTransitions /\ OwnerWritesComeLast)'
    BY <1>10 DEF IdsFollowTransitions, OwnerWritesComeLast
  <1> QED BY <1>5, <1>6, <1>8, <1>9, <1>11

LEMMA CommitEventsPreserves ==
  ASSUME EventsIInv, NEW c \in Sessions, CommitEvents(c), IInv'
  PROVE  EventsIInv'
  <1> DEFINE e(s) == [xid |-> xid[c], id |-> number[s], op |-> tx[c].op]
  <1>1. /\ Forget(c) /\ lock' = Release(c) /\ tx' = [tx EXCEPT ![c] = Idle]
        /\ tx[c].at = "commit" /\ \A s \in Steps : lock[s] # c => note'[s] = note[s]
        /\ \A s \in Noted(c) : number[s] # 0
        /\ log' = [s \in Steps |-> IF s \in Noted(c) THEN Append(log[s], e(s)) ELSE log[s]]
    BY DEF CommitEvents, Commit
  <1>2. tx[c].op \in {"claim"} \cup OwnerOps \cup Sweeps
    BY <1>1 DEF EventsIInv, IInv, TypeOK, Transaction, TransactionShape
  <1>3. \A s \in Steps : e(s) \in Numbered
    BY <1>2 DEF EventsIInv, EventsTypeOK, Numbered
  <1>4. \A s \in Steps : log[s] \in Seq(Numbered)
    BY DEF EventsIInv, EventsTypeOK
  <1>5. \A s \in Steps : e(s).xid = xid[c] /\ e(s).id = number[s] /\ e(s).op = tx[c].op
    OBVIOUS
  <1> HIDE DEF e, Numbered
  <1>6. \A s \in Steps : Append(log[s], e(s)) \in Seq(Numbered)
    BY <1>3, <1>4, AppendProperties
  <1>7. log' \in [Steps -> Seq(Numbered)]
    BY <1>1, <1>4, <1>6
  <1>8. ASSUME NEW s \in Steps
        PROVE  \/ log'[s] = log[s]
               \/ /\ lock[s] = c /\ number[s] # 0
                  /\ \E x \in Numbered : /\ x.xid = xid[c] /\ x.id = number[s] /\ x.op = tx[c].op
                                         /\ log'[s] = Append(log[s], x)
    <2>1. CASE s \in Noted(c)
      <3>1. lock[s] = c /\ number[s] # 0 /\ log'[s] = Append(log[s], e(s))
        BY <1>1, <2>1 DEF Noted
      <3> QED BY <1>3, <1>5, <3>1
    <2>2. CASE s \notin Noted(c)
      BY <1>1, <2>2
    <2> QED BY <2>1, <2>2
  <1> QED BY <1>1, <1>7, <1>8, EventsEndStep

LEMMA RollBackPreserves ==
  ASSUME EventsIInv, NEW c \in Sessions, RollBack(c), IInv'
  PROVE  EventsIInv'
  <1>1. /\ Forget(c) /\ lock' = Release(c) /\ tx' = [tx EXCEPT ![c] = Idle] /\ log' = log
        /\ \A s \in Steps : lock[s] # c => note'[s] = note[s]
    BY DEF RollBack, Abort
  <1>2. log' \in [Steps -> Seq(Numbered)]
    BY <1>1 DEF EventsIInv, EventsTypeOK
  <1> QED BY <1>1, <1>2, EventsEndStep

-----------------------------------------------------------------------------
(* The theorems                                                            *)

LEMMA EventsNextPreserves ==
  ASSUME EventsIInv, [EventsNext]_<<vars, stamps>>
  PROVE  EventsIInv'
  <1>1. IInv'
    BY EventsStepIsStoreStep, NextPreserves DEF EventsIInv
  <1>2. CASE Tick /\ UNCHANGED stamps
    BY <1>2, TickNumbersNothing
  <1>3. ASSUME NEW c \in Sessions, Start(c) PROVE EventsIInv'
    BY <1>1, <1>3, StartPreserves
  <1>4. ASSUME NEW c \in Sessions, Lock(c) PROVE EventsIInv'
    BY <1>1, <1>4, LockPreserves
  <1>5. ASSUME NEW c \in Sessions, Statement(c) PROVE EventsIInv'
    BY <1>1, <1>5, StatementPreserves
  <1>6. ASSUME NEW c \in Sessions, CommitEvents(c) PROVE EventsIInv'
    BY <1>1, <1>6, CommitEventsPreserves
  <1>7. ASSUME NEW c \in Sessions, RollBack(c) PROVE EventsIInv'
    BY <1>1, <1>7, RollBackPreserves
  <1>8. ASSUME NEW c \in Sessions, NEW s \in Steps, InsertEvent(c, s) PROVE EventsIInv'
    BY <1>1, <1>8, InsertEventPreserves
  <1>9. CASE UNCHANGED <<vars, stamps>>
    BY <1>1, <1>9 DEF vars, stamps, EventsIInv, EventsTypeOK, XidsAreTakenWithLocks,
                      NumbersAreFresh, OwnersAreLate, IdsFollowTransitions,
                      OwnerWritesComeLast
  <1> QED BY <1>2, <1>3, <1>4, <1>5, <1>6, <1>7, <1>8, <1>9 DEF EventsNext

\* The two tables behave as the steps table alone does: numbering the events
\* allows the store nothing that it could not do before, so every theorem about
\* StepStore holds of the transactions that also write events.
THEOREM EventsImplementStore == EventsSpec => Spec
  <1>1. EventsInit => Init
    BY DEF EventsInit
  <1>2. [EventsNext]_<<vars, stamps>> => [Next]_vars
    BY EventsStepIsStoreStep
  <1> QED BY <1>1, <1>2, PTL DEF EventsSpec, Spec

\* The inductive invariant: a session has an xid from its first row lock to its
\* end, an event that is not committed belongs to the holder of its row and is
\* newer than the committed ones, and an owner write has its xid after them all.
THEOREM EventsInvariance == EventsSpec => []EventsIInv
  <1>1. EventsIInv /\ [EventsNext]_<<vars, stamps>> => EventsIInv'
    BY EventsNextPreserves
  <1> QED BY EventsInitEstablishes, <1>1, PTL DEF EventsSpec

\* The ids of a step's events go up in the order in which its transitions
\* committed, however transactions overlap and whatever rollbacks burn.
THEOREM IdsAreOrdered == EventsSpec => []IdsFollowTransitions
  <1>1. EventsIInv => IdsFollowTransitions
    BY DEF EventsIInv
  <1> QED BY EventsInvariance, <1>1, PTL

\* An owner's completion or failure is the newest event of its step in the
\* order (xid, id) too, so the disorder a stalled claim or sweep can cause never
\* touches it.
THEOREM OwnerEventsAreNewest == EventsSpec => []OwnerWritesComeLast
  <1>1. EventsIInv => OwnerWritesComeLast
    BY DEF EventsIInv
  <1> QED BY EventsInvariance, <1>1, PTL

-----------------------------------------------------------------------------
(* The store writes what EventStream's readers read                        *)

\* A session without an xid holds no row.
LEMMA NoXidNoLocks ==
  ASSUME EventsIInv, NEW c \in Sessions, xid[c] = 0
  PROVE  \A s \in Steps : lock[s] # c
  <1>1. c # Null
    BY StepStoreAssumption
  <1> QED BY <1>1 DEF EventsIInv, XidsAreTakenWithLocks

LEMMA StreamInit == EventsInit => Stream!Init
  <1> SUFFICES ASSUME EventsInit PROVE Stream!Init
    OBVIOUS
  <1>1. /\ xid = [c \in Sessions |-> 0] /\ number = [s \in Steps |-> 0]
        /\ log = [s \in Steps |-> << >>] /\ nextXid = 1 /\ nextId = 1
    BY DEF EventsInit
  <1>2. Inserted = [c \in Sessions |-> {}]
    <2>1. \A s \in Steps : number[s] = 0
      BY <1>1
    <2>2. {s \in Steps : number[s] # 0} = {}
      BY <2>1
    <2> QED BY <2>1 DEF Inserted
  <1>3. Stored = {}
    <2>1. \A s \in Steps : 1 .. Len(log[s]) = {}
      BY <1>1
    <2> QED BY <2>1 DEF Stored
  <1>4. /\ NoReaders \in [{} -> Stream!Filters]
        /\ NoReaders = [c \in {} |-> Stream!Closed]
        /\ NoReaders = [c \in {} |-> {}] /\ NoReaders = [c \in {} |-> Stream!Start]
    BY DEF NoReaders
  <1> QED BY <1>1, <1>2, <1>3, <1>4 DEF Stream!Init

\* What moves no lock and no number moves no event.
LEMMA StreamStutters ==
  ASSUME lock' = lock, UNCHANGED stamps
  PROVE  UNCHANGED Stream!vars
  <1>1. Inserted' = Inserted /\ Stored' = Stored
    BY DEF Inserted, Stored, stamps
  <1>2. NoReaders' = NoReaders
    BY DEF NoReaders
  <1> QED BY <1>1, <1>2 DEF Stream!vars, stamps

LEMMA LockTakesXid ==
  ASSUME EventsIInv, NEW c \in Sessions, Lock(c)
  PROVE  [Stream!Next]_(Stream!vars)
  <1>1. PICK s \in Steps : lock[s] = Null /\ lock' = [lock EXCEPT ![s] = c]
    BY LockEffect DEF EventsIInv
  <1>2. /\ UNCHANGED <<nextId, number, log>> /\ TakeXid(c)
        /\ xid \in [Sessions -> Nat] /\ lock \in [Steps -> Sessions \cup {Null}]
    BY DEF Lock, EventsIInv, EventsTypeOK, IInv, TypeOK
  <1>3. number[s] = 0
    BY <1>1 DEF EventsIInv, NumbersAreFresh
  <1>4. \A d \in Sessions : {r \in Steps : lock'[r] = d /\ number'[r] # 0}
                             = {r \in Steps : lock[r] = d /\ number[r] # 0}
    BY <1>1, <1>2, <1>3
  <1>5. \A d \in Sessions :
          xid'[d] = xid[d] \/ {r \in Steps : lock[r] = d /\ number[r] # 0} = {}
    <2>1. ASSUME NEW d \in Sessions, xid'[d] # xid[d] PROVE xid[d] = 0
      BY <1>2, <2>1 DEF TakeXid
    <2> QED BY <2>1, NoXidNoLocks
  <1>6. Inserted' = Inserted
    <2>1. ASSUME NEW d \in Sessions PROVE Inserted'[d] = Inserted[d]
      <3> DEFINE S == {r \in Steps : lock[r] = d /\ number[r] # 0}
      <3>1. /\ Inserted[d] = {[xid |-> xid[d], id |-> number[r], step |-> r] : r \in S}
            /\ Inserted'[d] = {[xid |-> xid'[d], id |-> number[r], step |-> r] : r \in S}
        BY <1>2, <1>4 DEF Inserted
      <3>2. xid'[d] = xid[d] \/ S = {}
        BY <1>5
      <3> HIDE DEF S
      <3> QED BY <3>1, <3>2
    <2>2. /\ Inserted = [d \in Sessions |-> Inserted[d]]
          /\ Inserted' = [d \in Sessions |-> Inserted'[d]]
      BY DEF Inserted
    <2> QED BY <2>1, <2>2
  <1>7. Stored' = Stored /\ NoReaders' = NoReaders
    BY <1>2 DEF Stored, NoReaders
  <1>8. CASE xid[c] # 0
    BY <1>2, <1>6, <1>7, <1>8 DEF TakeXid, Stream!vars
  <1>9. CASE xid[c] = 0
    <2>1. Stream!AssignXid(c)
      BY <1>2, <1>6, <1>7, <1>9 DEF TakeXid, Stream!AssignXid, Stream!readers
    <2> QED BY <2>1 DEF Stream!Next, Stream!Write
  <1> QED BY <1>8, <1>9

LEMMA InsertFeeds ==
  ASSUME EventsIInv, NEW c \in Sessions, NEW s \in Steps, InsertEvent(c, s)
  PROVE  Stream!Next
  <1>1. /\ lock[s] = c /\ number[s] = 0 /\ nextId <= MaxId /\ nextId # 0
        /\ number' = [number EXCEPT ![s] = nextId] /\ nextId' = nextId + 1
        /\ UNCHANGED <<lock, nextXid, xid, log>>
        /\ number \in [Steps -> Nat]
    BY DEF InsertEvent, vars, EventsIInv, EventsTypeOK
  <1>2. xid[c] # 0
    BY <1>1, NoXidNoLocks
  <1>3. /\ \A d \in Sessions \ {c} : {r \in Steps : lock'[r] = d /\ number'[r] # 0}
                                       = {r \in Steps : lock[r] = d /\ number[r] # 0}
        /\ {r \in Steps : lock'[r] = c /\ number'[r] # 0}
            = {r \in Steps : lock[r] = c /\ number[r] # 0} \cup {s}
    BY <1>1
  <1>4. \A r \in Steps \ {s} : number'[r] = number[r]
    BY <1>1
  <1>5. \A d \in Sessions \ {c} : Inserted'[d] = Inserted[d]
    BY <1>1, <1>3, <1>4 DEF Inserted
  <1>6. Inserted'[c] = Inserted[c] \cup {[xid |-> xid[c], id |-> nextId, step |-> s]}
    <2>1. Inserted'[c] = {[xid |-> xid[c], id |-> number'[r], step |-> r] :
                            r \in {q \in Steps : lock[q] = c /\ number[q] # 0} \cup {s}}
      BY <1>1, <1>3 DEF Inserted
    <2>2. Inserted[c] = {[xid |-> xid[c], id |-> number[r], step |-> r] :
                            r \in {q \in Steps : lock[q] = c /\ number[q] # 0}}
      BY DEF Inserted
    <2>3. number'[s] = nextId
      BY <1>1
    <2> QED BY <1>1, <1>4, <2>1, <2>2, <2>3
  <1>7. /\ Inserted = [d \in Sessions |-> Inserted[d]]
        /\ Inserted' = [d \in Sessions |-> Inserted'[d]]
    BY DEF Inserted
  <1>8. Inserted' = [Inserted EXCEPT ![c] = @ \cup {[xid |-> xid[c], id |-> nextId, step |-> s]}]
    BY <1>5, <1>6, <1>7
  <1>9. Stored' = Stored /\ NoReaders' = NoReaders
    BY <1>1 DEF Stored, NoReaders
  <1>10. Stream!Insert(c, s)
    BY <1>1, <1>2, <1>8, <1>9 DEF Stream!Insert, Stream!readers
  <1> QED BY <1>10 DEF Stream!Next, Stream!Write

\* A session that ends its transaction leaves nothing inserted.
LEMMA EndLeavesNothing ==
  ASSUME EventsIInv, NEW c \in Sessions, Forget(c), lock' = Release(c)
  PROVE  /\ Inserted' = [Inserted EXCEPT ![c] = {}]
         /\ xid[c] = 0 => Inserted' = Inserted /\ xid' = xid
         /\ xid' = [xid EXCEPT ![c] = 0]
         /\ NoReaders' = NoReaders /\ UNCHANGED <<nextXid, nextId>>
  <1>1. /\ xid' = [xid EXCEPT ![c] = 0] /\ UNCHANGED <<nextXid, nextId>>
        /\ number' = [s \in Steps |-> IF lock[s] = c THEN 0 ELSE number[s]]
        /\ c # Null /\ xid \in [Sessions -> Nat]
    BY StepStoreAssumption DEF Forget, EventsIInv, EventsTypeOK
  <1>2. \A s \in Steps : /\ lock'[s] = IF lock[s] = c THEN Null ELSE lock[s]
                         /\ number'[s] = IF lock[s] = c THEN 0 ELSE number[s]
    BY <1>1 DEF Release
  <1>3. \A d \in Sessions \ {c} : {r \in Steps : lock'[r] = d /\ number'[r] # 0}
                                   = {r \in Steps : lock[r] = d /\ number[r] # 0}
    BY <1>2, StepStoreAssumption
  <1>4. {r \in Steps : lock'[r] = c /\ number'[r] # 0} = {}
    BY <1>1, <1>2
  <1>5. \A d \in Sessions \ {c} : Inserted'[d] = Inserted[d]
    <2> SUFFICES ASSUME NEW d \in Sessions \ {c} PROVE Inserted'[d] = Inserted[d]
      OBVIOUS
    <2>1. \A r \in {q \in Steps : lock[q] = d /\ number[q] # 0} : number'[r] = number[r]
      BY <1>2
    <2>2. xid'[d] = xid[d]
      BY <1>1
    <2> QED BY <1>3, <2>1, <2>2 DEF Inserted
  <1>6. Inserted'[c] = {}
    BY <1>4 DEF Inserted
  <1>7. /\ Inserted = [d \in Sessions |-> Inserted[d]]
        /\ Inserted' = [d \in Sessions |-> Inserted'[d]]
    BY DEF Inserted
  <1>8. Inserted' = [Inserted EXCEPT ![c] = {}]
    BY <1>5, <1>6, <1>7
  <1>9. ASSUME xid[c] = 0 PROVE Inserted' = Inserted /\ xid' = xid
    <2>1. {r \in Steps : lock[r] = c /\ number[r] # 0} = {}
      BY <1>9, NoXidNoLocks
    <2>2. Inserted[c] = {}
      BY <2>1 DEF Inserted
    <2> QED BY <1>1, <1>7, <1>8, <1>9, <2>2
  <1> QED BY <1>1, <1>8, <1>9 DEF NoReaders

\* Appending a step's event to its log stores that event.
LEMMA CommitStores ==
  ASSUME EventsIInv, NEW c \in Sessions, CommitEvents(c)
  PROVE  Stored' = Stored \cup Inserted[c]
  <1> DEFINE StoredRow(s, e) == [xid |-> e.xid, id |-> e.id, step |-> s]
             New(s) == [xid |-> xid[c], id |-> number[s], op |-> tx[c].op]
             Rows(s) == {StoredRow(s, log[s][i]) : i \in 1 .. Len(log[s])}
             NewRows(s) == {StoredRow(s, log'[s][i]) : i \in 1 .. Len(log'[s])}
  <1>1. /\ \A s \in Noted(c) : log'[s] = Append(log[s], New(s))
        /\ \A s \in Steps \ Noted(c) : log'[s] = log[s]
        /\ \A s \in Noted(c) : number[s] # 0
    BY DEF CommitEvents, Noted
  <1>2. Noted(c) = {r \in Steps : lock[r] = c /\ number[r] # 0}
    BY <1>1 DEF Noted, EventsIInv, NumbersAreFresh
  <1>3. Inserted[c] = {StoredRow(s, New(s)) : s \in Noted(c)}
    BY <1>2 DEF Inserted
  <1>4. ASSUME NEW s \in Noted(c)
        PROVE  NewRows(s) = Rows(s) \cup {StoredRow(s, New(s))}
    <2>1. log[s] \in Seq(Numbered) /\ Len(log[s]) \in Nat
      BY LenProperties DEF EventsIInv, EventsTypeOK, Noted
    <2>2. /\ Len(log'[s]) = Len(log[s]) + 1
          /\ \A i \in 1 .. Len(log[s]) : log'[s][i] = log[s][i]
          /\ log'[s][Len(log[s]) + 1] = New(s)
      <3>1. New(s).id = number[s] /\ log'[s] = Append(log[s], New(s))
        BY <1>1
      <3> HIDE DEF New
      <3>2. \A q, e : q \in Seq(Numbered) =>
              /\ Len(Append(q, e)) = Len(q) + 1
              /\ \A i \in 1 .. Len(q) : Append(q, e)[i] = q[i]
              /\ Append(q, e)[Len(q) + 1] = e
        OBVIOUS
      <3> QED BY <2>1, <3>1, <3>2
    <2>3. 1 .. Len(log'[s]) = (1 .. Len(log[s])) \cup {Len(log[s]) + 1}
      BY <2>1, <2>2
    <2> HIDE DEF New, StoredRow
    <2> QED BY <2>2, <2>3
  <1>5. ASSUME NEW s \in Steps \ Noted(c) PROVE NewRows(s) = Rows(s)
    BY <1>1
  <1>6. Stored = UNION {Rows(s) : s \in Steps} /\ Stored' = UNION {NewRows(s) : s \in Steps}
    BY DEF Stored
  <1> HIDE DEF Rows, NewRows, New, StoredRow
  <1>7. Noted(c) \subseteq Steps
    BY DEF Noted
  <1> QED BY <1>3, <1>4, <1>5, <1>6, <1>7

LEMMA CommitFeeds ==
  ASSUME EventsIInv, NEW c \in Sessions, CommitEvents(c)
  PROVE  [Stream!Next]_(Stream!vars)
  <1>1. Forget(c) /\ lock' = Release(c)
    BY DEF CommitEvents, Commit
  <1>2. Stored' = Stored \cup Inserted[c]
    BY CommitStores
  <1>3. CASE xid[c] = 0
    <2>1. Inserted' = Inserted /\ Inserted' = [Inserted EXCEPT ![c] = {}]
      BY <1>1, <1>3, EndLeavesNothing
    <2>2. Inserted[c] = {}
      BY <2>1 DEF Inserted
    <2> QED BY <1>1, <1>2, <1>3, <2>2, EndLeavesNothing DEF Stream!vars
  <1>4. CASE xid[c] # 0
    <2>1. Stream!CommitTxn(c)
      BY <1>1, <1>2, <1>4, EndLeavesNothing DEF Stream!CommitTxn, Stream!readers
    <2> QED BY <2>1 DEF Stream!Next, Stream!Write
  <1> QED BY <1>3, <1>4

LEMMA RollBackFeedsNothing ==
  ASSUME EventsIInv, NEW c \in Sessions, RollBack(c)
  PROVE  [Stream!Next]_(Stream!vars)
  <1>1. Forget(c) /\ lock' = Release(c) /\ log' = log
    BY DEF RollBack, Abort
  <1>2. Stored' = Stored
    BY <1>1 DEF Stored
  <1>3. CASE xid[c] = 0
    BY <1>1, <1>2, <1>3, EndLeavesNothing DEF Stream!vars
  <1>4. CASE xid[c] # 0
    <2>1. Stream!Rollback(c)
      BY <1>1, <1>2, <1>4, EndLeavesNothing DEF Stream!Rollback, Stream!readers
    <2> QED BY <2>1 DEF Stream!Next, Stream!Write
  <1> QED BY <1>3, <1>4

\* The transactions of the store are the writers EventStream supposes: they take
\* an xid once, insert under it, and commit or roll back all they inserted.  The
\* theorems about readers therefore hold of readers of this table.
THEOREM EventsFeedTheStream == EventsSpec => FeedsTheStream
  <1>1. EventsIInv /\ [EventsNext]_<<vars, stamps>> => [Stream!Next]_(Stream!vars)
    <2> SUFFICES ASSUME EventsIInv, [EventsNext]_<<vars, stamps>>
                 PROVE  [Stream!Next]_(Stream!vars)
      OBVIOUS
    <2>1. CASE (Tick /\ UNCHANGED stamps) \/ UNCHANGED <<vars, stamps>>
      BY <2>1, StreamStutters DEF Tick, vars, stamps
    <2>2. ASSUME NEW c \in Sessions, Start(c) PROVE UNCHANGED Stream!vars
      BY <2>2, StartEffect, StreamStutters DEF EventsIInv, Start
    <2>3. ASSUME NEW c \in Sessions, Statement(c) PROVE UNCHANGED Stream!vars
      BY <2>3, StatementEffect, StreamStutters DEF EventsIInv, Statement
    <2>4. ASSUME NEW c \in Sessions, Lock(c) PROVE [Stream!Next]_(Stream!vars)
      BY <2>4, LockTakesXid
    <2>5. ASSUME NEW c \in Sessions, CommitEvents(c) PROVE [Stream!Next]_(Stream!vars)
      BY <2>5, CommitFeeds
    <2>6. ASSUME NEW c \in Sessions, RollBack(c) PROVE [Stream!Next]_(Stream!vars)
      BY <2>6, RollBackFeedsNothing
    <2>7. ASSUME NEW c \in Sessions, NEW s \in Steps, InsertEvent(c, s) PROVE Stream!Next
      BY <2>7, InsertFeeds
    <2> QED BY <2>1, <2>2, <2>3, <2>4, <2>5, <2>6, <2>7 DEF EventsNext
  <1> QED BY EventsInvariance, StreamInit, <1>1, PTL DEF EventsSpec, FeedsTheStream, Stream!Spec
=============================================================================
