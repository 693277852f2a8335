-------------------------- MODULE StepStore_proofs --------------------------
(* Machine-checked proofs about StepStore, for every value of the constants:   *)
(* its invariants, and that it implements StepQueue.                           *)
EXTENDS StepStore, SequenceTheorems, FiniteSetTheorems, TLAPS

LEMMA BackoffInNat == \A a \in Nat : BackoffUnit * BackoffFactor(a) \in Nat
  <1>1. \A a \in Nat : BackoffFactor(a) \in {1, 2, 4, 8}
    BY DEF BackoffFactor
  <1> QED BY <1>1, StepStoreAssumption

LEMMA InitEstablishes == Init => IInv
  <1> SUFFICES ASSUME Init PROVE IInv
    OBVIOUS
  <1> USE StepStoreAssumption
  <1>1. TypeOK
    BY DEF Init, TypeOK, Row, Event, Transaction, Idle, Status, OwnerOps, Sweeps
  <1>2. RowsAreSound
    BY DEF Init, RowsAreSound, RowShape
  <1>3. /\ LocksAreHeldByTransactions /\ DraftsAreLocked
        /\ TransactionShape /\ PickedStillMatch /\ DraftsFollowRows
    BY DEF Init, LocksAreHeldByTransactions, DraftsAreLocked, TransactionShape,
           PickedStillMatch, DraftsFollowRows, Follows, Idle, OwnerOps, Sweeps
  <1> QED BY <1>1, <1>2, <1>3 DEF IInv

LEMMA TickPreserves == IInv /\ Tick => IInv'
  <1> SUFFICES ASSUME IInv, Tick PROVE IInv'
    OBVIOUS
  <1> USE StepStoreAssumption DEF IInv, Tick
  <1>1. TypeOK'
    BY DEF TypeOK
  <1>2. RowsAreSound'
    BY SMTT(30) DEF RowsAreSound, RowShape, TypeOK, Row
  <1>3. (/\ LocksAreHeldByTransactions /\ DraftsAreLocked
         /\ TransactionShape /\ DraftsFollowRows)'
    BY DEF LocksAreHeldByTransactions, DraftsAreLocked, TransactionShape, DraftsFollowRows, Follows
  <1>4. PickedStillMatch'
    <2> SUFFICES ASSUME NEW c \in Sessions, NEW s \in tx[c].picked, tx[c].at = "visit"
                 PROVE  lock[s] = c /\ Matches(tx[c], s)'
      BY DEF PickedStillMatch
    <2>1. s \in Steps /\ lock[s] = c /\ Matches(tx[c], s)
      BY DEF PickedStillMatch, TypeOK, Transaction
    <2>2. row[s].status = "RUNNING" => row[s].deadline \in Nat
      BY <2>1 DEF RowsAreSound, RowShape
    <2>3. row[s].availableAt \in Nat /\ now \in Nat
      BY <2>1 DEF TypeOK, Row
    <2> QED BY <2>1, <2>2, <2>3 DEF Matches, Claimable, Expired, Due
  <1> QED BY <1>1, <1>2, <1>3, <1>4

\* Whoever holds a row lock is past the lock and not yet back to idle.
LEMMA HolderIsActive ==
  ASSUME IInv, NEW c \in Sessions, NEW s \in Steps, lock[s] = c
  PROVE  /\ tx[c].at \in {"visit", "authorize", "commit"}
         /\ tx[c].op # "idle"
  <1>1. c # Null
    BY StepStoreAssumption
  <1> QED BY <1>1 DEF IInv, LocksAreHeldByTransactions, OwnerOps, Sweeps

\* Where a session that holds the row locks `held` may be.
MayHold(t, held) ==
  held # {} => \/ t.op \in {"claim"} \cup Sweeps /\ t.at \in {"visit", "commit"}
               \/ t.op \in OwnerOps /\ t.at \in {"authorize", "commit"} /\ held = {t.step}

ShapeOf(t) ==
  /\ t.op = "idle" <=> t.at = "idle"
  /\ t.at = "select" => t.op = "claim" /\ t.picked = {}
  /\ t.at = "visit" => t.op \in {"claim"} \cup Sweeps
  /\ t.at \in {"lock", "authorize"} => t.op \in OwnerOps
  /\ t.op = "claim" => t.worker \in Workers
  /\ t.op \in OwnerOps => t.step \in Steps /\ t.worker \in Workers

Held(c) == {s \in Steps : lock[s] = c}

\* A step that only moves one session's program counter or scan position.
LEMMA SessionOnlyStep ==
  ASSUME IInv, NEW c \in Sessions, NEW t \in Transaction,
         tx' = [tx EXCEPT ![c] = t],
         UNCHANGED <<now, row, history, lock, draft, note>>,
         tx[c].at # "commit",
         ShapeOf(t), MayHold(t, Held(c)),
         t.at = "authorize" => lock[t.step] = c,
         \A s \in t.picked : t.at = "visit" => lock[s] = c /\ Matches(t, s)
  PROVE  IInv'
  <1> USE StepStoreAssumption DEF IInv
  <1>t. /\ tx'[c] = t
        /\ \A d \in Sessions \ {c} : tx'[d] = tx[d]
    BY DEF TypeOK
  <1>1. TypeOK'
    BY DEF TypeOK
  <1>2. (RowsAreSound /\ DraftsFollowRows)'
    BY DEF RowsAreSound, RowShape, DraftsFollowRows, Follows
  <1>3. LocksAreHeldByTransactions'
    <2> SUFFICES ASSUME NEW s \in Steps, lock[s] # Null
                 PROVE  \/ /\ tx'[lock[s]].op \in {"claim"} \cup Sweeps
                           /\ tx'[lock[s]].at \in {"visit", "commit"}
                        \/ /\ tx'[lock[s]].op \in OwnerOps
                           /\ tx'[lock[s]].at \in {"authorize", "commit"}
                           /\ tx'[lock[s]].step = s
      BY DEF LocksAreHeldByTransactions
    <2>1. CASE lock[s] = c
      BY <1>t, <2>1 DEF MayHold, Held
    <2>2. CASE lock[s] # c
      <3>1. lock[s] \in Sessions \ {c}
        BY <2>2 DEF TypeOK
      <3> QED BY <1>t, <3>1 DEF LocksAreHeldByTransactions
    <2> QED BY <2>1, <2>2
  <1>4. DraftsAreLocked'
    <2> SUFFICES ASSUME NEW s \in Steps, lock[s] = Null \/ tx'[lock[s]].at # "commit"
                 PROVE  draft[s] = row[s] /\ note[s] = Null
      BY DEF DraftsAreLocked
    <2>1. CASE lock[s] = c
      BY <2>1 DEF DraftsAreLocked
    <2>2. CASE lock[s] = Null
      BY <2>2 DEF DraftsAreLocked
    <2>3. CASE lock[s] \in Sessions \ {c}
      BY <1>t, <2>3 DEF DraftsAreLocked
    <2> QED BY <2>1, <2>2, <2>3 DEF TypeOK
  <1>5. TransactionShape'
    BY <1>t DEF TransactionShape, ShapeOf
  <1>6. PickedStillMatch'
    <2> SUFFICES ASSUME NEW d \in Sessions, NEW s \in tx'[d].picked, tx'[d].at = "visit"
                 PROVE  lock[s] = d /\ Matches(tx'[d], s)
      BY DEF PickedStillMatch, Matches, Claimable, Expired, Due
    <2> QED BY <1>t DEF PickedStillMatch
  <1> QED BY <1>1, <1>2, <1>3, <1>4, <1>5, <1>6

LEMMA IdleHoldsNothing ==
  ASSUME IInv, NEW c \in Sessions, tx[c].op = "idle"
  PROVE  Held(c) = {} /\ tx[c].at # "commit"
  BY HolderIsActive DEF Held, IInv, TransactionShape

LEMMA BeginClaimPreserves ==
  ASSUME IInv, NEW c \in Sessions, NEW w \in Workers, BeginClaim(c, w)
  PROVE  IInv'
  <1> DEFINE t == [Idle EXCEPT !.op = "claim", !.at = "select", !.worker = w, !.begun = now]
  <1>1. t \in Transaction
    BY StepStoreAssumption DEF Transaction, Idle, OwnerOps, Sweeps, IInv, TypeOK
  <1>2. ShapeOf(t) /\ t.at = "select" /\ t.picked = {} /\ tx[c].op = "idle"
    BY DEF ShapeOf, Idle, OwnerOps, Sweeps, BeginClaim
  <1>3. MayHold(t, Held(c))
    BY <1>2, IdleHoldsNothing DEF MayHold
  <1>4. /\ tx' = [tx EXCEPT ![c] = t]
        /\ UNCHANGED <<now, row, history, lock, draft, note>>
    BY DEF BeginClaim
  <1> HIDE DEF t
  <1> QED BY <1>1, <1>2, <1>3, <1>4, IdleHoldsNothing, SessionOnlyStep

\* The snapshot of a scan keeps what the transaction is.
LEMMA SnapshotShape ==
  ASSUME IInv, NEW t \in Transaction, t.op \in {"claim"} \cup Sweeps
  PROVE  /\ Snapshot(t) \in Transaction
         /\ Snapshot(t).at = "visit" /\ Snapshot(t).op = t.op
         /\ Snapshot(t).worker = t.worker /\ Snapshot(t).picked = t.picked
  <1> DEFINE found == {s \in Steps : Matches(t, s)}
             key == [s \in Steps |-> IF s \notin found THEN 0
                                     ELSE IF t.op = "recover" THEN row[s].deadline
                                     ELSE row[s].availableAt]
  <1>1. key \in [Steps -> Nat]
    <2> SUFFICES ASSUME NEW s \in Steps PROVE key[s] \in Nat
      OBVIOUS
    <2>1. row[s].availableAt \in Nat
      BY DEF IInv, TypeOK, Row
    <2>2. s \in found /\ t.op = "recover" => row[s].deadline \in Nat
      BY DEF IInv, RowsAreSound, RowShape, Matches, Expired
    <2> QED BY <2>1, <2>2
  <1>2. Snapshot(t) = [t EXCEPT !.at = "visit", !.todo = found, !.key = key]
    BY DEF Snapshot
  <1> HIDE DEF key, found
  <1>3. found \in SUBSET Steps
    BY DEF found
  <1> QED BY <1>1, <1>2, <1>3 DEF Transaction

LEMMA SelectCandidatePreserves ==
  ASSUME IInv, NEW c \in Sessions, SelectCandidate(c)
  PROVE  IInv'
  <1> DEFINE t == Snapshot(tx[c])
  <1>1. /\ tx[c] \in Transaction /\ tx[c].op = "claim" /\ tx[c].at = "select"
        /\ tx' = [tx EXCEPT ![c] = t]
        /\ UNCHANGED <<now, row, history, lock, draft, note>>
    BY DEF SelectCandidate, IInv, TypeOK
  <1>2. t \in Transaction /\ t.at = "visit" /\ t.op = "claim"
        /\ t.worker = tx[c].worker /\ t.picked = tx[c].picked
    BY <1>1, SnapshotShape
  <1>3. ShapeOf(t)
    BY <1>1, <1>2 DEF ShapeOf, OwnerOps, Sweeps, IInv, TransactionShape
  <1>4. MayHold(t, Held(c))
    BY <1>2 DEF MayHold
  <1>5. t.picked = {}
    BY <1>1, <1>2 DEF IInv, TransactionShape
  <1> QED BY <1>1, <1>2, <1>3, <1>4, <1>5, SessionOnlyStep

LEMMA BeginSweepPreserves ==
  ASSUME IInv, NEW c \in Sessions, NEW op \in Sweeps, BeginSweep(c, op)
  PROVE  IInv'
  <1> DEFINE b == [Idle EXCEPT !.op = op]
             t == Snapshot(b)
  <1>1. b \in Transaction /\ b.op = op /\ b.picked = {}
    BY StepStoreAssumption DEF Transaction, Idle, OwnerOps, Sweeps
  <1>2. /\ tx[c].op = "idle"
        /\ tx' = [tx EXCEPT ![c] = t]
        /\ UNCHANGED <<now, row, history, lock, draft, note>>
    BY DEF BeginSweep
  <1> HIDE DEF b
  <1>3. t \in Transaction /\ t.at = "visit" /\ t.op = op /\ t.picked = {}
    BY <1>1, SnapshotShape
  <1>4. ShapeOf(t)
    BY <1>3 DEF ShapeOf, OwnerOps, Sweeps
  <1>5. MayHold(t, Held(c))
    BY <1>2, IdleHoldsNothing DEF MayHold
  <1> HIDE DEF t
  <1> QED BY <1>2, <1>3, <1>4, <1>5, IdleHoldsNothing, SessionOnlyStep

LEMMA BeginOwnerWritePreserves ==
  ASSUME IInv, NEW c \in Sessions, NEW op \in OwnerOps, NEW s \in Steps,
         NEW w \in Workers, NEW v \in Nat, NEW retryable \in BOOLEAN,
         BeginOwnerWrite(c, op, s, w, v, retryable)
  PROVE  IInv'
  <1> DEFINE t == [Idle EXCEPT !.op = op, !.at = "lock", !.step = s, !.worker = w,
                               !.version = v, !.retryable = retryable, !.begun = now]
  <1>1. t \in Transaction
    BY StepStoreAssumption DEF Transaction, Idle, OwnerOps, Sweeps, IInv, TypeOK
  <1>2. ShapeOf(t) /\ t.at = "lock" /\ t.picked = {} /\ tx[c].op = "idle"
    BY DEF ShapeOf, Idle, OwnerOps, Sweeps, BeginOwnerWrite
  <1>3. MayHold(t, Held(c))
    BY <1>2, IdleHoldsNothing DEF MayHold
  <1>4. /\ tx' = [tx EXCEPT ![c] = t]
        /\ UNCHANGED <<now, row, history, lock, draft, note>>
    BY DEF BeginOwnerWrite
  <1> HIDE DEF t
  <1> QED BY <1>1, <1>2, <1>3, <1>4, IdleHoldsNothing, SessionOnlyStep

LEMMA HeldWhileOpen ==
  ASSUME IInv, NEW c \in Sessions
  PROVE  MayHold(tx[c], Held(c))
  <1>1. c # Null
    BY StepStoreAssumption
  <1>2. \A s \in Held(c) :
          \/ tx[c].op \in {"claim"} \cup Sweeps /\ tx[c].at \in {"visit", "commit"}
          \/ /\ tx[c].op \in OwnerOps /\ tx[c].at \in {"authorize", "commit"}
             /\ tx[c].step = s
    BY <1>1 DEF Held, IInv, LocksAreHeldByTransactions
  <1> QED BY <1>2 DEF MayHold, OwnerOps, Sweeps

LEMMA SkipLockedPreserves ==
  ASSUME IInv, NEW c \in Sessions, SkipLocked(c)
  PROVE  IInv'
  <1>1. PICK s \in Steps : tx' = [tx EXCEPT ![c].todo = @ \ {s}]
    BY DEF SkipLocked
  <1> DEFINE t == [tx[c] EXCEPT !.todo = @ \ {s}]
  <1>a. tx[c] \in Transaction /\ tx[c].at = "visit"
    BY DEF SkipLocked, IInv, TypeOK
  <1>2. t \in Transaction /\ tx[c].at = "visit"
    BY <1>a DEF Transaction
  <1>3. /\ tx' = [tx EXCEPT ![c] = t]
        /\ UNCHANGED <<now, row, history, lock, draft, note>>
    BY <1>1 DEF SkipLocked
  <1>4. /\ t.op = tx[c].op /\ t.at = "visit" /\ t.worker = tx[c].worker
        /\ t.picked = tx[c].picked /\ t.begun = tx[c].begun /\ t.step = tx[c].step
    BY <1>2 DEF IInv, TypeOK, Transaction
  <1> HIDE DEF t
  <1>5. ShapeOf(t)
    BY <1>2, <1>4 DEF ShapeOf, IInv, TransactionShape
  <1>6. MayHold(t, Held(c))
    BY <1>2, <1>4, HeldWhileOpen DEF MayHold
  <1>7. \A u \in t.picked : lock[u] = c /\ Matches(t, u)
    BY <1>2, <1>4 DEF IInv, PickedStillMatch, Matches
  <1> QED BY <1>2, <1>3, <1>4, <1>5, <1>6, <1>7, SessionOnlyStep

\* A transaction that writes nothing goes straight to its commit.
LEMMA ToCommitPreserves ==
  ASSUME IInv, NEW c \in Sessions, tx[c].at \in {"visit", "authorize"},
         tx' = [tx EXCEPT ![c].at = "commit"],
         UNCHANGED <<now, row, history, lock, draft, note>>
  PROVE  IInv'
  <1> DEFINE t == [tx[c] EXCEPT !.at = "commit"]
  <1>0. tx[c] \in Transaction /\ tx \in [Sessions -> Transaction]
    BY DEF IInv, TypeOK
  <1>1. t \in Transaction /\ tx' = [tx EXCEPT ![c] = t]
    BY <1>0 DEF Transaction
  <1>2. /\ t.op = tx[c].op /\ t.at = "commit" /\ t.worker = tx[c].worker
        /\ t.picked = tx[c].picked /\ t.step = tx[c].step
    BY <1>0 DEF Transaction
  <1> HIDE DEF t
  <1>3. ShapeOf(t)
    BY <1>2 DEF ShapeOf, IInv, TransactionShape
  <1>4. MayHold(t, Held(c))
    BY <1>2, HeldWhileOpen DEF MayHold, OwnerOps, Sweeps
  <1> QED BY <1>1, <1>2, <1>3, <1>4, SessionOnlyStep

LEMMA ClaimNothingPreserves ==
  ASSUME IInv, NEW c \in Sessions, ClaimNothing(c)
  PROVE  IInv'
  BY ToCommitPreserves DEF ClaimNothing, ScanDone

LEMMA RejectPreserves ==
  ASSUME IInv, NEW c \in Sessions, Reject(c)
  PROVE  IInv'
  BY ToCommitPreserves DEF Reject

\* A step that takes one row lock.
LEMMA LockStep ==
  ASSUME IInv, NEW c \in Sessions, NEW s \in Steps, NEW t \in Transaction,
         lock[s] = Null, tx[c].at # "commit",
         lock' = [lock EXCEPT ![s] = c],
         tx' = [tx EXCEPT ![c] = t],
         UNCHANGED <<now, row, history, draft, note>>,
         ShapeOf(t), MayHold(t, Held(c) \cup {s}), t.at # "commit",
         t.at = "authorize" => t.step = s,
         \A u \in t.picked : t.at = "visit" => lock'[u] = c /\ Matches(t, u)
  PROVE  IInv'
  <1> USE StepStoreAssumption DEF IInv
  <1>t. /\ tx'[c] = t
        /\ \A d \in Sessions \ {c} : tx'[d] = tx[d]
        /\ lock'[s] = c
        /\ \A u \in Steps \ {s} : lock'[u] = lock[u]
        /\ \A u \in Steps : lock[u] # Null => lock'[u] = lock[u]
    BY DEF TypeOK
  <1>1. TypeOK'
    BY DEF TypeOK
  <1>2. (RowsAreSound /\ DraftsFollowRows)'
    BY DEF RowsAreSound, RowShape, DraftsFollowRows, Follows
  <1>3. LocksAreHeldByTransactions'
    <2> SUFFICES ASSUME NEW u \in Steps, lock'[u] # Null
                 PROVE  \/ /\ tx'[lock'[u]].op \in {"claim"} \cup Sweeps
                           /\ tx'[lock'[u]].at \in {"visit", "commit"}
                        \/ /\ tx'[lock'[u]].op \in OwnerOps
                           /\ tx'[lock'[u]].at \in {"authorize", "commit"}
                           /\ tx'[lock'[u]].step = u
      BY DEF LocksAreHeldByTransactions
    <2>1. CASE lock'[u] = c
      <3>1. u \in Held(c) \cup {s}
        BY <1>t, <2>1 DEF Held
      <3> QED BY <1>t, <2>1, <3>1 DEF MayHold
    <2>2. CASE lock'[u] # c
      <3>1. lock'[u] = lock[u] /\ lock[u] \in Sessions \ {c}
        BY <1>t, <2>2 DEF TypeOK
      <3> QED BY <1>t, <3>1 DEF LocksAreHeldByTransactions
    <2> QED BY <2>1, <2>2
  <1>4. DraftsAreLocked'
    <2> SUFFICES ASSUME NEW u \in Steps, lock'[u] = Null \/ tx'[lock'[u]].at # "commit"
                 PROVE  draft[u] = row[u] /\ note[u] = Null
      BY DEF DraftsAreLocked
    <2>1. CASE u = s \/ lock[u] \in {c, Null}
      BY <2>1 DEF DraftsAreLocked
    <2>2. CASE u # s /\ lock[u] \in Sessions \ {c}
      BY <1>t, <2>2 DEF DraftsAreLocked
    <2> QED BY <2>1, <2>2 DEF TypeOK
  <1>5. TransactionShape'
    BY <1>t DEF TransactionShape, ShapeOf
  <1>6. PickedStillMatch'
    <2> SUFFICES ASSUME NEW d \in Sessions, NEW u \in tx'[d].picked, tx'[d].at = "visit"
                 PROVE  lock'[u] = d /\ Matches(tx'[d], u)
      BY DEF PickedStillMatch, Matches, Claimable, Expired, Due
    <2>1. CASE d = c
      BY <1>t, <2>1
    <2>2. CASE d # c
      <3>1. u \in Steps /\ lock[u] = d /\ Matches(tx[d], u) /\ d # Null
        BY <1>t, <2>2 DEF PickedStillMatch, TypeOK, Transaction
      <3> QED BY <1>t, <2>2, <3>1
    <2> QED BY <2>1, <2>2
  <1> QED BY <1>1, <1>2, <1>3, <1>4, <1>5, <1>6

LEMMA LockRowPreserves ==
  ASSUME IInv, NEW c \in Sessions, LockRow(c)
  PROVE  IInv'
  <1> DEFINE s == tx[c].step
             t == [tx[c] EXCEPT !.at = "authorize"]
  <1>1. tx[c] \in Transaction /\ tx[c].at = "lock"
    BY DEF LockRow, IInv, TypeOK
  <1>2. tx[c].op \in OwnerOps /\ s \in Steps
    BY <1>1 DEF IInv, TransactionShape
  <1>3. /\ t \in Transaction /\ t.at = "authorize" /\ t.op = tx[c].op /\ t.step = s
        /\ t.worker = tx[c].worker /\ t.picked = tx[c].picked
    BY <1>1 DEF Transaction
  <1>4. /\ lock[s] = Null /\ lock' = [lock EXCEPT ![s] = c]
        /\ tx' = [tx EXCEPT ![c] = t]
        /\ UNCHANGED <<now, row, history, draft, note>>
    BY DEF LockRow
  <1>5. Held(c) = {}
    BY <1>1, HolderIsActive DEF Held
  <1> HIDE DEF t, s
  <1>6. ShapeOf(t)
    BY <1>1, <1>2, <1>3 DEF ShapeOf, OwnerOps, Sweeps, IInv, TransactionShape
  <1>7. MayHold(t, Held(c) \cup {s})
    BY <1>2, <1>3, <1>5 DEF MayHold
  <1> QED BY <1>1, <1>2, <1>3, <1>4, <1>6, <1>7, LockStep

LEMMA LockCandidatePreserves ==
  ASSUME IInv, NEW c \in Sessions, LockCandidate(c)
  PROVE  IInv'
  <1>1. PICK s \in Steps :
          /\ lock[s] = Null /\ lock' = [lock EXCEPT ![s] = c]
          /\ tx' = [tx EXCEPT ![c].todo = @ \ {s},
                              ![c].picked = IF Matches(tx[c], s) THEN @ \cup {s} ELSE @]
    BY DEF LockCandidate
  <1> DEFINE t == [tx[c] EXCEPT !.todo = @ \ {s},
                                !.picked = IF Matches(tx[c], s) THEN @ \cup {s} ELSE @]
  <1>2. tx[c] \in Transaction /\ tx[c].at = "visit"
        /\ UNCHANGED <<now, row, history, draft, note>>
    BY DEF LockCandidate, IInv, TypeOK
  <1>3. /\ t \in Transaction /\ t.at = "visit" /\ t.op = tx[c].op /\ t.step = tx[c].step
        /\ t.worker = tx[c].worker /\ t.begun = tx[c].begun
        /\ t.picked = IF Matches(tx[c], s) THEN tx[c].picked \cup {s} ELSE tx[c].picked
    BY <1>2 DEF Transaction
  <1>4. tx' = [tx EXCEPT ![c] = t]
    BY <1>1, <1>2 DEF IInv, TypeOK, Transaction
  <1> HIDE DEF t
  <1>5. ShapeOf(t)
    BY <1>2, <1>3 DEF ShapeOf, IInv, TransactionShape
  <1>6. MayHold(t, Held(c) \cup {s})
    BY <1>2, <1>3 DEF MayHold, IInv, TransactionShape
  <1>7. \A u \in t.picked : lock'[u] = c /\ Matches(t, u)
    <2> SUFFICES ASSUME NEW u \in t.picked PROVE lock'[u] = c /\ Matches(t, u)
      OBVIOUS
    <2>1. u \in Steps
      BY <1>2, <1>3 DEF Transaction
    <2>2. CASE u = s /\ Matches(tx[c], s)
      BY <1>1, <1>3, <2>2 DEF Matches, IInv, TypeOK
    <2>3. CASE u \in tx[c].picked
      <3>1. lock[u] = c /\ Matches(tx[c], u)
        BY <1>2, <2>3 DEF IInv, PickedStillMatch
      <3>2. c # Null
        BY StepStoreAssumption
      <3> QED BY <1>1, <1>3, <2>1, <3>1, <3>2 DEF Matches, IInv, TypeOK
    <2> QED BY <1>3, <2>2, <2>3
  <1> QED BY <1>1, <1>2, <1>3, <1>4, <1>5, <1>6, <1>7, LockStep

\* A step that writes rows the session holds and is about to commit.
LEMMA WriteStep ==
  ASSUME IInv, NEW c \in Sessions, tx[c].at \in {"visit", "authorize"},
         tx' = [tx EXCEPT ![c].at = "commit"],
         UNCHANGED <<now, row, history, lock>>,
         draft' \in [Steps -> Row], note' \in [Steps -> Event \cup {Null}],
         \A s \in Steps \ Held(c) : draft'[s] = draft[s] /\ note'[s] = note[s],
         \A s \in Held(c) : RowShape(draft'[s], s) /\ Follows(draft'[s], row[s])
  PROVE  IInv'
  <1> USE StepStoreAssumption DEF IInv
  <1>s. tx[c] \in Transaction
    BY DEF TypeOK
  <1>t. /\ tx'[c].at = "commit" /\ tx'[c].op = tx[c].op /\ tx'[c].step = tx[c].step
        /\ tx'[c].worker = tx[c].worker /\ tx'[c] \in Transaction
        /\ \A d \in Sessions \ {c} : tx'[d] = tx[d]
    BY <1>s DEF TypeOK, Transaction
  <1>1. TypeOK'
    <2>1. tx' \in [Sessions -> Transaction]
      BY <1>t DEF TypeOK
    <2> QED BY <2>1 DEF TypeOK
  <1>2. RowsAreSound'
    <2> SUFFICES ASSUME NEW s \in Steps PROVE RowShape(row[s], s) /\ RowShape(draft'[s], s)
      BY DEF RowsAreSound, RowShape
    <2> QED BY DEF RowsAreSound, Held
  <1>3. DraftsFollowRows'
    <2> SUFFICES ASSUME NEW s \in Steps PROVE Follows(draft'[s], row[s])
      BY DEF DraftsFollowRows, Follows
    <2> QED BY DEF DraftsFollowRows, Held
  <1>4. LocksAreHeldByTransactions'
    <2> SUFFICES ASSUME NEW u \in Steps, lock[u] # Null
                 PROVE  \/ /\ tx'[lock[u]].op \in {"claim"} \cup Sweeps
                           /\ tx'[lock[u]].at \in {"visit", "commit"}
                        \/ /\ tx'[lock[u]].op \in OwnerOps
                           /\ tx'[lock[u]].at \in {"authorize", "commit"}
                           /\ tx'[lock[u]].step = u
      BY DEF LocksAreHeldByTransactions
    <2>1. lock[u] \in Sessions
      BY DEF TypeOK
    <2>2. CASE lock[u] = c
      BY <1>t, <2>2 DEF LocksAreHeldByTransactions
    <2>3. CASE lock[u] # c
      BY <1>t, <2>1, <2>3 DEF LocksAreHeldByTransactions
    <2> QED BY <2>2, <2>3
  <1>5. DraftsAreLocked'
    <2> SUFFICES ASSUME NEW u \in Steps, lock[u] = Null \/ tx'[lock[u]].at # "commit"
                 PROVE  draft'[u] = row[u] /\ note'[u] = Null
      BY DEF DraftsAreLocked
    <2>1. lock[u] # c /\ (lock[u] = Null \/ tx[lock[u]].at # "commit")
      BY <1>t DEF TypeOK
    <2> QED BY <2>1 DEF DraftsAreLocked, Held
  <1>6. TransactionShape'
    BY <1>t DEF TransactionShape
  <1>7. PickedStillMatch'
    <2> SUFFICES ASSUME NEW d \in Sessions, NEW u \in tx'[d].picked, tx'[d].at = "visit"
                 PROVE  lock[u] = d /\ Matches(tx'[d], u)
      BY DEF PickedStillMatch, Matches, Claimable, Expired, Due
    <2> QED BY <1>t DEF PickedStillMatch
  <1> QED BY <1>1, <1>2, <1>3, <1>4, <1>5, <1>6, <1>7

-----------------------------------------------------------------------------
(* What each write does to a sound row                                     *)

Sound(r, s) == r \in Row /\ RowShape(r, s)

LEMMA ClaimedRowIsSound ==
  ASSUME NEW s \in Steps, NEW r \in Row, NEW w \in Workers, now \in Nat,
         r.status = "READY", r.attempts < MaxAttempts[s], RowShape(r, s)
  PROVE  Sound(ClaimedRow(r, w), s) /\ Follows(ClaimedRow(r, w), r)
  <1> DEFINE n == ClaimedRow(r, w)
             next(k) == k + 1
             until == now + LeaseDuration
  <1>0. next(r.version) \in Nat /\ next(r.attempts) \in Nat /\ until \in Nat
    BY StepStoreAssumption DEF Row
  <1>a. n = [r EXCEPT !.status = "RUNNING", !.owner = w, !.version = next(r.version),
                      !.attempts = next(r.attempts), !.deadline = until]
    BY DEF ClaimedRow
  <1>1. /\ n \in Row
        /\ n.status = "RUNNING" /\ n.owner = w
        /\ n.version = r.version + 1 /\ n.attempts = r.attempts + 1
        /\ n.deadline = now + LeaseDuration /\ n.deadline \in Nat
    <2> HIDE DEF n, next, until
    <2>1. /\ n \in Row
          /\ n.status = "RUNNING" /\ n.owner = w
          /\ n.version = next(r.version) /\ n.attempts = next(r.attempts)
          /\ n.deadline = until
      BY <1>0, <1>a DEF Row, Status
    <2> QED BY <1>0, <2>1 DEF next, until
  <1>2. /\ r.version \in Nat /\ r.attempts \in Nat
        /\ MaxAttempts[s] \in Nat /\ LeaseDuration \in Nat
    BY StepStoreAssumption DEF Row
  <1> HIDE DEF n
  <1>3. RowShape(n, s)
    BY <1>1, <1>2 DEF RowShape
  <1>4. Follows(n, r)
    BY <1>1, <1>2 DEF RowShape, Follows, Terminal
  <1> QED BY <1>1, <1>3, <1>4 DEF Sound, n

LEMMA RenewedRowIsSound ==
  ASSUME NEW s \in Steps, NEW r \in Row, now \in Nat,
         r.status = "RUNNING", RowShape(r, s)
  PROVE  Sound(RenewedRow(r), s) /\ Follows(RenewedRow(r), r)
  <1> DEFINE n == RenewedRow(r)
  <1>1. /\ n \in Row
        /\ n.version = r.version /\ n.attempts = r.attempts
        /\ n.status = "RUNNING" /\ n.owner = r.owner
        /\ n.deadline = now + LeaseDuration /\ n.deadline \in Nat
    BY StepStoreAssumption DEF Row, Status, RenewedRow
  <1>2. /\ r.version \in Nat /\ r.attempts \in Nat
        /\ MaxAttempts[s] \in Nat /\ LeaseDuration \in Nat
    BY StepStoreAssumption DEF Row
  <1> HIDE DEF n
  <1>3. RowShape(n, s)
    BY <1>1, <1>2 DEF RowShape
  <1>4. Follows(n, r)
    BY <1>1, <1>2 DEF RowShape, Follows, Terminal
  <1> QED BY <1>1, <1>3, <1>4 DEF Sound, n

LEMMA CompletedRowIsSound ==
  ASSUME NEW s \in Steps, NEW r \in Row, r.status = "RUNNING", RowShape(r, s)
  PROVE  Sound(CompletedRow(r), s) /\ Follows(CompletedRow(r), r)
  <1> DEFINE n == CompletedRow(r)
  <1>1. /\ n \in Row
        /\ n.version = r.version /\ n.attempts = r.attempts
        /\ n.owner = Null /\ n.deadline = Null
        /\ n.status = "SUCCEEDED"
    BY StepStoreAssumption DEF Row, Status, CompletedRow
  <1>2. /\ r.version \in Nat /\ r.attempts \in Nat
        /\ MaxAttempts[s] \in Nat /\ LeaseDuration \in Nat
    BY StepStoreAssumption DEF Row
  <1> HIDE DEF n
  <1>3. RowShape(n, s)
    BY <1>1, <1>2 DEF RowShape
  <1>4. Follows(n, r)
    BY <1>1, <1>2 DEF RowShape, Follows, Terminal
  <1> QED BY <1>1, <1>3, <1>4 DEF Sound, n

LEMMA FailedRowIsSound ==
  ASSUME NEW s \in Steps, NEW r \in Row, NEW retryable \in BOOLEAN, now \in Nat,
         r.status = "RUNNING", RowShape(r, s)
  PROVE  Sound(FailedRow(r, s, retryable), s) /\ Follows(FailedRow(r, s, retryable), r)
  <1> DEFINE n == FailedRow(r, s, retryable)
             due == now + BackoffUnit * BackoffFactor(r.attempts)
  <1>1. due \in Nat
    <2>1. BackoffUnit * BackoffFactor(r.attempts) \in Nat
      BY BackoffInNat DEF Row
    <2> QED BY <2>1
  <1>2. /\ n \in Row
        /\ n.version = r.version /\ n.attempts = r.attempts
        /\ n.owner = Null /\ n.deadline = Null
        /\ \/ n.status = "DEAD_LETTERED"
           \/ n.status = "RETRY_WAIT" /\ r.attempts < MaxAttempts[s]
    <2>1. CASE retryable /\ r.attempts < MaxAttempts[s]
      <3>1. n = [r EXCEPT !.status = "RETRY_WAIT", !.owner = Null, !.deadline = Null,
                          !.availableAt = due]
        BY <2>1 DEF FailedRow
      <3> HIDE DEF n, due
      <3> QED BY <1>1, <2>1, <3>1 DEF Row, Status
    <2>2. CASE ~(retryable /\ r.attempts < MaxAttempts[s])
      <3>1. n = [r EXCEPT !.status = "DEAD_LETTERED", !.owner = Null, !.deadline = Null]
        BY <2>2 DEF FailedRow
      <3> QED BY <3>1 DEF Row, Status
    <2> QED BY <2>1, <2>2
  <1>3. /\ r.version \in Nat /\ r.attempts \in Nat /\ MaxAttempts[s] \in Nat
    BY StepStoreAssumption DEF Row
  <1> HIDE DEF n
  <1>4. RowShape(n, s)
    BY <1>2, <1>3 DEF RowShape
  <1>5. Follows(n, r)
    BY <1>2, <1>3 DEF RowShape, Follows, Terminal
  <1> QED BY <1>2, <1>4, <1>5 DEF Sound, n

LEMMA RecoveredRowIsSound ==
  ASSUME NEW s \in Steps, NEW r \in Row, r.status = "RUNNING", RowShape(r, s)
  PROVE  Sound(RecoveredRow(r, s), s) /\ Follows(RecoveredRow(r, s), r)
  <1> DEFINE n == RecoveredRow(r, s)
  <1>1. /\ n \in Row
        /\ n.version = r.version /\ n.attempts = r.attempts
        /\ n.owner = Null /\ n.deadline = Null
        /\ n.status = IF r.attempts < MaxAttempts[s] THEN "READY" ELSE "DEAD_LETTERED"
    BY StepStoreAssumption DEF Row, Status, RecoveredRow
  <1>2. /\ r.version \in Nat /\ r.attempts \in Nat
        /\ MaxAttempts[s] \in Nat /\ LeaseDuration \in Nat
    BY StepStoreAssumption DEF Row
  <1> HIDE DEF n
  <1>3. RowShape(n, s)
    BY <1>1, <1>2 DEF RowShape
  <1>4. Follows(n, r)
    BY <1>1, <1>2 DEF RowShape, Follows, Terminal
  <1> QED BY <1>1, <1>3, <1>4 DEF Sound, n

LEMMA PromotedRowIsSound ==
  ASSUME NEW s \in Steps, NEW r \in Row, r.status = "RETRY_WAIT", RowShape(r, s)
  PROVE  Sound(PromotedRow(r), s) /\ Follows(PromotedRow(r), r)
  <1> DEFINE n == PromotedRow(r)
  <1>1. /\ n \in Row
        /\ n.version = r.version /\ n.attempts = r.attempts
        /\ n.owner = r.owner /\ n.deadline = r.deadline
        /\ n.status = "READY"
    BY StepStoreAssumption DEF Row, Status, PromotedRow
  <1>2. /\ r.version \in Nat /\ r.attempts \in Nat
        /\ MaxAttempts[s] \in Nat /\ LeaseDuration \in Nat
    BY StepStoreAssumption DEF Row
  <1> HIDE DEF n
  <1>3. RowShape(n, s)
    BY <1>1, <1>2 DEF RowShape
  <1>4. Follows(n, r)
    BY <1>1, <1>2 DEF RowShape, Follows, Terminal
  <1> QED BY <1>1, <1>3, <1>4 DEF Sound, n

LEMMA EventOfType ==
  ASSUME NEW type \in EventType, NEW w \in Workers \cup {Null}, NEW r \in Row
  PROVE  EventOf(type, w, r) \in Event
  BY DEF EventOf, Event, Row

\* What a session that holds a row and has written nothing knows of it.
LEMMA HeldRow ==
  ASSUME IInv, NEW c \in Sessions, NEW s \in Steps, lock[s] = c, tx[c].at # "commit"
  PROVE  /\ draft[s] = row[s] /\ row[s] \in Row /\ RowShape(row[s], s)
         /\ now \in Nat /\ s \in Held(c)
  BY DEF IInv, DraftsAreLocked, TypeOK, RowsAreSound, Held

-----------------------------------------------------------------------------
(* The writes                                                              *)

LEMMA ClaimUpdatePreserves ==
  ASSUME IInv, NEW c \in Sessions, ClaimUpdate(c)
  PROVE  IInv'
  <1> DEFINE w == tx[c].worker
  <1>1. PICK s \in tx[c].picked :
          /\ draft[s].status = "READY" /\ draft[s].attempts < MaxAttempts[s]
          /\ draft' = [draft EXCEPT ![s] = ClaimedRow(@, w)]
          /\ note' = [note EXCEPT ![s] = EventOf("STEP_CLAIMED", w, draft'[s])]
    BY DEF ClaimUpdate
  <1>2. /\ tx[c].at = "visit" /\ w \in Workers
        /\ tx' = [tx EXCEPT ![c].at = "commit"]
        /\ UNCHANGED <<now, row, history, lock>>
    BY DEF ClaimUpdate, ScanDone, IInv, TransactionShape
  <1>3. s \in Steps /\ lock[s] = c
    BY <1>2 DEF IInv, TypeOK, Transaction, PickedStillMatch
  <1>4. /\ draft[s] = row[s] /\ row[s] \in Row /\ RowShape(row[s], s)
        /\ now \in Nat /\ s \in Held(c)
    BY <1>2, <1>3, HeldRow
  <1> DEFINE new == ClaimedRow(row[s], w)
  <1>5. Sound(new, s) /\ Follows(new, row[s])
    BY <1>1, <1>2, <1>3, <1>4, ClaimedRowIsSound
  <1>6. draft' = [draft EXCEPT ![s] = new]
    BY <1>1, <1>3, <1>4 DEF IInv, TypeOK
  <1> HIDE DEF w, new
  <1>7. draft'[s] = new /\ new \in Row
    BY <1>3, <1>5, <1>6 DEF Sound, IInv, TypeOK
  <1>8. EventOf("STEP_CLAIMED", w, draft'[s]) \in Event
    BY <1>2, <1>7, EventOfType DEF EventType
  <1>9. draft' \in [Steps -> Row] /\ note' \in [Steps -> Event \cup {Null}]
    BY <1>1, <1>3, <1>6, <1>7, <1>8 DEF IInv, TypeOK
  <1>10. \A u \in Steps \ Held(c) : draft'[u] = draft[u] /\ note'[u] = note[u]
    BY <1>1, <1>4, <1>6 DEF IInv, TypeOK
  <1>11. \A u \in Held(c) : RowShape(draft'[u], u) /\ Follows(draft'[u], row[u])
    <2> SUFFICES ASSUME NEW u \in Held(c)
                 PROVE  RowShape(draft'[u], u) /\ Follows(draft'[u], row[u])
      OBVIOUS
    <2>1. CASE u = s
      BY <1>5, <1>7, <2>1 DEF Sound
    <2>2. CASE u # s
      BY <1>6, <2>2 DEF Held, IInv, TypeOK, RowsAreSound, DraftsFollowRows
    <2> QED BY <2>1, <2>2
  <1> QED BY <1>2, <1>9, <1>10, <1>11, WriteStep

LEMMA OwnerWritePreserves ==
  ASSUME IInv, NEW c \in Sessions, NEW op \in OwnerOps, NEW new,
         NEW type \in EventType \cup {Null}, OwnerWrite(c, op, new, type),
         Sound(new, tx[c].step), Follows(new, row[tx[c].step])
  PROVE  IInv'
  <1> DEFINE s == tx[c].step
             w == tx[c].worker
  <1>1. /\ tx[c].at = "authorize" /\ tx[c].op \in OwnerOps
        /\ tx' = [tx EXCEPT ![c].at = "commit"]
        /\ UNCHANGED <<now, row, history, lock>>
        /\ draft' = [draft EXCEPT ![s] = new]
        /\ note' = [note EXCEPT ![s] = IF type = Null THEN @ ELSE EventOf(type, w, new)]
    BY DEF OwnerWrite
  <1>2. s \in Steps /\ w \in Workers /\ lock[s] = c
    BY <1>1 DEF IInv, TransactionShape
  <1>3. new \in Row /\ RowShape(new, s) /\ s \in Held(c)
    BY <1>2 DEF Sound, Held
  <1>4. type # Null => EventOf(type, w, new) \in Event
    BY <1>2, <1>3, EventOfType
  <1>5. Follows(new, row[s])
    OBVIOUS
  <1> HIDE DEF s, w
  <1>6. draft' \in [Steps -> Row] /\ note' \in [Steps -> Event \cup {Null}]
    BY <1>1, <1>2, <1>3, <1>4 DEF IInv, TypeOK
  <1>7. \A u \in Steps \ Held(c) : draft'[u] = draft[u] /\ note'[u] = note[u]
    BY <1>1, <1>3 DEF IInv, TypeOK
  <1>8. \A u \in Held(c) : RowShape(draft'[u], u) /\ Follows(draft'[u], row[u])
    <2> SUFFICES ASSUME NEW u \in Held(c)
                 PROVE  RowShape(draft'[u], u) /\ Follows(draft'[u], row[u])
      OBVIOUS
    <2>1. CASE u = s
      BY <1>1, <1>2, <1>3, <1>5, <2>1 DEF IInv, TypeOK
    <2>2. CASE u # s
      BY <1>1, <2>2 DEF Held, IInv, TypeOK, RowsAreSound, DraftsFollowRows
    <2> QED BY <2>1, <2>2
  <1> QED BY <1>1, <1>6, <1>7, <1>8, WriteStep

\* What an authorized owner write knows of its row.
LEMMA AuthorizedRow ==
  ASSUME IInv, NEW c \in Sessions, tx[c].at = "authorize", Authorized(tx[c])
  PROVE  /\ tx[c].step \in Steps /\ draft[tx[c].step] = row[tx[c].step]
         /\ row[tx[c].step] \in Row /\ RowShape(row[tx[c].step], tx[c].step)
         /\ row[tx[c].step].status = "RUNNING" /\ now \in Nat
         /\ lock[tx[c].step] = c
  <1>1. tx[c].step \in Steps /\ lock[tx[c].step] = c
    BY DEF IInv, TransactionShape
  <1> QED BY <1>1, HeldRow DEF Authorized

LEMMA RenewPreserves ==
  ASSUME IInv, NEW c \in Sessions, Renew(c)
  PROVE  IInv'
  <1>1. tx[c].at = "authorize" /\ Authorized(tx[c])
    BY DEF Renew, OwnerWrite
  <1>2. LET s == tx[c].step
        IN  Sound(RenewedRow(draft[s]), s) /\ Follows(RenewedRow(draft[s]), row[s])
    BY <1>1, AuthorizedRow, RenewedRowIsSound
  <1> QED BY <1>2, OwnerWritePreserves DEF Renew, OwnerOps

LEMMA CompletePreserves ==
  ASSUME IInv, NEW c \in Sessions, Complete(c)
  PROVE  IInv'
  <1>1. tx[c].at = "authorize" /\ Authorized(tx[c])
    BY DEF Complete, OwnerWrite
  <1>2. LET s == tx[c].step
        IN  Sound(CompletedRow(draft[s]), s) /\ Follows(CompletedRow(draft[s]), row[s])
    BY <1>1, AuthorizedRow, CompletedRowIsSound
  <1> QED BY <1>2, OwnerWritePreserves DEF Complete, OwnerOps, EventType

LEMMA FailPreserves ==
  ASSUME IInv, NEW c \in Sessions, Fail(c)
  PROVE  IInv'
  <1> DEFINE s == tx[c].step
             new == FailedRow(draft[s], s, tx[c].retryable)
             type == IF new.status = "RETRY_WAIT" THEN "STEP_RETRY_SCHEDULED"
                                                  ELSE "STEP_DEAD_LETTERED"
  <1>1. OwnerWrite(c, "fail", new, type)
    BY DEF Fail
  <1>2. tx[c].at = "authorize" /\ Authorized(tx[c]) /\ tx[c].retryable \in BOOLEAN
    BY <1>1 DEF OwnerWrite, IInv, TypeOK, Transaction
  <1>3. Sound(new, s) /\ Follows(new, row[s])
    BY <1>2, AuthorizedRow, FailedRowIsSound
  <1>4. type \in EventType \cup {Null}
    BY DEF EventType
  <1> HIDE DEF new, type
  <1> QED BY <1>1, <1>3, <1>4, OwnerWritePreserves DEF OwnerOps

LEMMA ResolveExpiredPreserves ==
  ASSUME IInv, NEW c \in Sessions, ResolveExpired(c)
  PROVE  IInv'
  <1> DEFINE P == tx[c].picked
  <1>1. /\ tx[c].at = "visit" /\ tx[c].op = "recover" /\ P \subseteq Steps
        /\ tx' = [tx EXCEPT ![c].at = "commit"]
        /\ UNCHANGED <<now, row, history, lock>>
    BY DEF ResolveExpired, ScanDone, IInv, TypeOK, Transaction
  <1>2. \A s \in P : /\ s \in Held(c) /\ draft[s] = row[s]
                     /\ row[s] \in Row /\ RowShape(row[s], s)
                     /\ row[s].status = "RUNNING"
    <2> SUFFICES ASSUME NEW s \in P
                 PROVE  /\ s \in Held(c) /\ draft[s] = row[s]
                        /\ row[s] \in Row /\ RowShape(row[s], s)
                        /\ row[s].status = "RUNNING"
      OBVIOUS
    <2>1. s \in Steps /\ lock[s] = c /\ row[s].status = "RUNNING"
      BY <1>1 DEF IInv, PickedStillMatch, Matches, Expired, Due
    <2> QED BY <1>1, <2>1, HeldRow
  <1>3. \A s \in P : /\ draft'[s] = RecoveredRow(row[s], s)
                     /\ Sound(RecoveredRow(row[s], s), s)
                     /\ Follows(RecoveredRow(row[s], s), row[s])
    BY <1>1, <1>2, RecoveredRowIsSound DEF ResolveExpired
  <1>4. \A s \in P : note'[s] \in Event
    <2> SUFFICES ASSUME NEW s \in P PROVE note'[s] \in Event
      OBVIOUS
    <2>1. note'[s] = RecoveryEvent(row[s], draft'[s])
      BY <1>1, <1>2 DEF ResolveExpired
    <2>2. draft'[s] \in Row /\ row[s].owner \in Workers \cup {Null}
      BY <1>2, <1>3 DEF Sound, Row
    <2> QED BY <2>1, <2>2, EventOfType DEF RecoveryEvent, EventType
  <1>5. \A s \in Steps \ P : draft'[s] = draft[s] /\ note'[s] = note[s]
    BY DEF ResolveExpired
  <1>6. draft' \in [Steps -> Row]
    <2>1. \A s \in Steps : draft'[s] \in Row
      BY <1>3, <1>5 DEF Sound, IInv, TypeOK
    <2>2. draft' = [s \in Steps |-> draft'[s]]
      BY DEF ResolveExpired
    <2> QED BY <2>1, <2>2
  <1>7. note' \in [Steps -> Event \cup {Null}]
    <2>1. \A s \in Steps : note'[s] \in Event \cup {Null}
      BY <1>4, <1>5 DEF IInv, TypeOK
    <2>2. note' = [s \in Steps |-> note'[s]]
      BY DEF ResolveExpired
    <2> QED BY <2>1, <2>2
  <1>8. \A s \in Steps \ Held(c) : draft'[s] = draft[s] /\ note'[s] = note[s]
    BY <1>2, <1>5
  <1>9. \A s \in Held(c) : RowShape(draft'[s], s) /\ Follows(draft'[s], row[s])
    <2> SUFFICES ASSUME NEW s \in Held(c)
                 PROVE  RowShape(draft'[s], s) /\ Follows(draft'[s], row[s])
      OBVIOUS
    <2>1. CASE s \in P
      BY <1>3, <2>1 DEF Sound
    <2>2. CASE s \notin P
      BY <1>5, <2>2 DEF Held, IInv, RowsAreSound, DraftsFollowRows
    <2> QED BY <2>1, <2>2
  <1> HIDE DEF P
  <1> QED BY <1>1, <1>6, <1>7, <1>8, <1>9, WriteStep

LEMMA PromoteDuePreserves ==
  ASSUME IInv, NEW c \in Sessions, PromoteDue(c)
  PROVE  IInv'
  <1> DEFINE P == tx[c].picked
  <1>1. /\ tx[c].at = "visit" /\ tx[c].op = "promote" /\ P \subseteq Steps
        /\ tx' = [tx EXCEPT ![c].at = "commit"]
        /\ UNCHANGED <<now, row, history, lock>>
    BY DEF PromoteDue, ScanDone, IInv, TypeOK, Transaction
  <1>2. \A s \in P : /\ s \in Held(c) /\ draft[s] = row[s]
                     /\ row[s] \in Row /\ RowShape(row[s], s)
                     /\ row[s].status = "RETRY_WAIT"
    <2> SUFFICES ASSUME NEW s \in P
                 PROVE  /\ s \in Held(c) /\ draft[s] = row[s]
                        /\ row[s] \in Row /\ RowShape(row[s], s)
                        /\ row[s].status = "RETRY_WAIT"
      OBVIOUS
    <2>1. s \in Steps /\ lock[s] = c /\ row[s].status = "RETRY_WAIT"
      BY <1>1 DEF IInv, PickedStillMatch, Matches, Expired, Due
    <2> QED BY <1>1, <2>1, HeldRow
  <1>3. \A s \in P : /\ draft'[s] = PromotedRow(row[s])
                     /\ Sound(PromotedRow(row[s]), s)
                     /\ Follows(PromotedRow(row[s]), row[s])
    BY <1>1, <1>2, PromotedRowIsSound DEF PromoteDue
  <1>4. \A s \in P : note'[s] \in Event
    <2> SUFFICES ASSUME NEW s \in P PROVE note'[s] \in Event
      OBVIOUS
    <2>1. note'[s] = EventOf("RETRY_READY", Null, draft'[s])
      BY <1>1, <1>2 DEF PromoteDue
    <2>2. draft'[s] \in Row
      BY <1>3 DEF Sound
    <2> QED BY <2>1, <2>2, EventOfType DEF EventType
  <1>5. \A s \in Steps \ P : draft'[s] = draft[s] /\ note'[s] = note[s]
    BY DEF PromoteDue
  <1>6. draft' \in [Steps -> Row]
    <2>1. \A s \in Steps : draft'[s] \in Row
      BY <1>3, <1>5 DEF Sound, IInv, TypeOK
    <2>2. draft' = [s \in Steps |-> draft'[s]]
      BY DEF PromoteDue
    <2> QED BY <2>1, <2>2
  <1>7. note' \in [Steps -> Event \cup {Null}]
    <2>1. \A s \in Steps : note'[s] \in Event \cup {Null}
      BY <1>4, <1>5 DEF IInv, TypeOK
    <2>2. note' = [s \in Steps |-> note'[s]]
      BY DEF PromoteDue
    <2> QED BY <2>1, <2>2
  <1>8. \A s \in Steps \ Held(c) : draft'[s] = draft[s] /\ note'[s] = note[s]
    BY <1>2, <1>5
  <1>9. \A s \in Held(c) : RowShape(draft'[s], s) /\ Follows(draft'[s], row[s])
    <2> SUFFICES ASSUME NEW s \in Held(c)
                 PROVE  RowShape(draft'[s], s) /\ Follows(draft'[s], row[s])
      OBVIOUS
    <2>1. CASE s \in P
      BY <1>3, <2>1 DEF Sound
    <2>2. CASE s \notin P
      BY <1>5, <2>2 DEF Held, IInv, RowsAreSound, DraftsFollowRows
    <2> QED BY <2>1, <2>2
  <1> HIDE DEF P
  <1> QED BY <1>1, <1>6, <1>7, <1>8, <1>9, WriteStep

\* The end of a transaction: its locks go, and its rows have one version again.
LEMMA EndStep ==
  ASSUME IInv, NEW c \in Sessions,
         now' = now, lock' = Release(c), tx' = [tx EXCEPT ![c] = Idle],
         row' \in [Steps -> Row], draft' \in [Steps -> Row],
         note' \in [Steps -> Event \cup {Null}], history' \in [Steps -> Seq(Event)],
         \A s \in Steps \ Held(c) : row'[s] = row[s] /\ draft'[s] = draft[s]
                                    /\ note'[s] = note[s],
         \A s \in Held(c) : row'[s] = draft'[s] /\ note'[s] = Null
                            /\ draft'[s] \in {row[s], draft[s]}
  PROVE  IInv'
  <1> USE StepStoreAssumption DEF IInv
  <1>i. Idle \in Transaction /\ ShapeOf(Idle) /\ Idle.picked = {} /\ Idle.at = "idle"
    BY DEF Idle, Transaction, ShapeOf, OwnerOps, Sweeps
  <1> HIDE DEF Idle
  <1>t. /\ tx'[c] = Idle
        /\ \A d \in Sessions : d # c => tx'[d] = tx[d]
    BY <1>i DEF TypeOK
  <1>h. \A s \in Steps : IF s \in Held(c) THEN lock'[s] = Null
                                         ELSE lock'[s] = lock[s] /\ lock[s] # c
    BY DEF TypeOK, Release, Held
  <1>1. TypeOK'
    BY <1>i DEF TypeOK, Release
  <1>2. RowsAreSound'
    BY DEF RowsAreSound, RowShape
  <1>3. DraftsFollowRows'
    BY DEF DraftsFollowRows, Follows
  <1>4. LocksAreHeldByTransactions'
    <2> SUFFICES ASSUME NEW u \in Steps, lock'[u] # Null
                 PROVE  \/ /\ tx'[lock'[u]].op \in {"claim"} \cup Sweeps
                           /\ tx'[lock'[u]].at \in {"visit", "commit"}
                        \/ /\ tx'[lock'[u]].op \in OwnerOps
                           /\ tx'[lock'[u]].at \in {"authorize", "commit"}
                           /\ tx'[lock'[u]].step = u
      BY DEF LocksAreHeldByTransactions
    <2>1. lock'[u] = lock[u] /\ lock[u] # c /\ lock[u] \in Sessions
      BY <1>h DEF TypeOK
    <2>2. tx'[lock[u]] = tx[lock[u]]
      BY <1>t, <2>1
    <2> QED BY <2>1, <2>2 DEF LocksAreHeldByTransactions
  <1>5. DraftsAreLocked'
    <2> SUFFICES ASSUME NEW u \in Steps, lock'[u] = Null \/ tx'[lock'[u]].at # "commit"
                 PROVE  draft'[u] = row'[u] /\ note'[u] = Null
      BY DEF DraftsAreLocked
    <2>1. CASE u \in Held(c)
      BY <2>1
    <2>2. CASE u \notin Held(c)
      <3>1. lock'[u] = lock[u] /\ lock[u] # c /\ lock[u] \in Sessions \cup {Null}
        BY <1>h, <2>2 DEF TypeOK
      <3>2. lock[u] = Null \/ tx[lock[u]].at # "commit"
        BY <1>t, <3>1
      <3>3. draft[u] = row[u] /\ note[u] = Null
        BY <3>2 DEF DraftsAreLocked
      <3> QED BY <2>2, <3>3
    <2> QED BY <2>1, <2>2
  <1>6. TransactionShape'
    <2> SUFFICES ASSUME NEW d \in Sessions
                 PROVE  ShapeOf(tx'[d]) /\ (tx'[d].at = "authorize" => lock'[tx'[d].step] = d)
      BY DEF TransactionShape, ShapeOf
    <2>1. CASE d = c
      BY <1>i, <1>t, <2>1
    <2>2. CASE d # c
      <3>1. tx'[d] = tx[d] /\ ShapeOf(tx[d])
        BY <1>t, <2>2 DEF TransactionShape, ShapeOf
      <3>2. tx[d].at = "authorize" => tx[d].step \in Steps /\ lock[tx[d].step] = d
        BY DEF TransactionShape
      <3>3. tx[d].at = "authorize" => tx[d].step \notin Held(c)
        BY <2>2, <3>2 DEF Held
      <3> QED BY <1>h, <3>1, <3>2, <3>3
    <2> QED BY <2>1, <2>2
  <1>7. PickedStillMatch'
    <2> SUFFICES ASSUME NEW d \in Sessions, NEW u \in tx'[d].picked, tx'[d].at = "visit"
                 PROVE  lock'[u] = d /\ Matches(tx[d], u)'
      BY DEF PickedStillMatch
    <2>1. d # c /\ tx'[d] = tx[d]
      BY <1>i, <1>t
    <2>2. u \in Steps /\ lock[u] = d /\ Matches(tx[d], u)
      BY <2>1 DEF PickedStillMatch, TypeOK, Transaction
    <2>3. u \notin Held(c)
      BY <2>1, <2>2 DEF Held
    <2>4. lock'[u] = d /\ row'[u] = row[u]
      BY <1>h, <2>2, <2>3
    <2> QED BY <2>1, <2>2, <2>4 DEF Matches, Claimable, Expired, Due
  <1> QED BY <1>1, <1>2, <1>3, <1>4, <1>5, <1>6, <1>7

LEMMA CommitPreserves ==
  ASSUME IInv, NEW c \in Sessions, Commit(c)
  PROVE  IInv'
  <1>1. row' \in [Steps -> Row] /\ draft' \in [Steps -> Row]
    BY DEF Commit, IInv, TypeOK
  <1>2. note' \in [Steps -> Event \cup {Null}]
    BY DEF Commit, IInv, TypeOK
  <1>3. history' \in [Steps -> Seq(Event)]
    <2> SUFFICES ASSUME NEW s \in Steps
                 PROVE  (IF lock[s] = c /\ note[s] # Null
                         THEN Append(history[s], note[s]) ELSE history[s]) \in Seq(Event)
      BY DEF Commit
    <2>1. history[s] \in Seq(Event) /\ (note[s] = Null \/ note[s] \in Event)
      BY DEF IInv, TypeOK
    <2> HIDE DEF Event
    <2> QED BY <2>1
  <1>4. /\ now' = now /\ lock' = Release(c) /\ tx' = [tx EXCEPT ![c] = Idle]
        /\ \A s \in Steps \ Held(c) : row'[s] = row[s] /\ draft'[s] = draft[s]
                                      /\ note'[s] = note[s]
        /\ \A s \in Held(c) : row'[s] = draft'[s] /\ note'[s] = Null
                              /\ draft'[s] = draft[s]
    BY DEF Commit, Held
  <1> QED BY <1>1, <1>2, <1>3, <1>4, EndStep

LEMMA AbortPreserves ==
  ASSUME IInv, NEW c \in Sessions, Abort(c)
  PROVE  IInv'
  <1>1. row' \in [Steps -> Row] /\ draft' \in [Steps -> Row]
    BY DEF Abort, IInv, TypeOK
  <1>2. note' \in [Steps -> Event \cup {Null}] /\ history' \in [Steps -> Seq(Event)]
    BY DEF Abort, IInv, TypeOK
  <1>3. /\ now' = now /\ lock' = Release(c) /\ tx' = [tx EXCEPT ![c] = Idle]
        /\ \A s \in Steps \ Held(c) : row'[s] = row[s] /\ draft'[s] = draft[s]
                                      /\ note'[s] = note[s]
        /\ \A s \in Held(c) : row'[s] = draft'[s] /\ note'[s] = Null
                              /\ draft'[s] = row[s]
    BY DEF Abort, Held
  <1> QED BY <1>1, <1>2, <1>3, EndStep

-----------------------------------------------------------------------------
(* The theorems                                                            *)

LEMMA StutterPreserves == IInv /\ UNCHANGED vars => IInv'
  BY DEF vars, IInv, TypeOK, LocksAreHeldByTransactions, DraftsAreLocked,
         TransactionShape, PickedStillMatch, Matches, Claimable, Expired, Due,
         RowsAreSound, RowShape, DraftsFollowRows, Follows

LEMMA NextPreserves == IInv /\ [Next]_vars => IInv'
  <1> SUFFICES ASSUME IInv, [Next]_vars PROVE IInv'
    OBVIOUS
  <1>1. CASE Tick
    BY <1>1, TickPreserves
  <1>2. ASSUME NEW c \in Sessions, Begin(c) PROVE IInv'
    <2>1. ASSUME NEW w \in Workers, BeginClaim(c, w) PROVE IInv'
      BY <2>1, BeginClaimPreserves
    <2>2. ASSUME NEW op \in Sweeps, BeginSweep(c, op) PROVE IInv'
      BY <2>2, BeginSweepPreserves
    <2>3. ASSUME NEW op \in OwnerOps, NEW s \in Steps, NEW w \in Workers,
                 NEW retryable \in BOOLEAN, NEW v \in 1 .. row[s].version,
                 BeginOwnerWrite(c, op, s, w, v, retryable)
          PROVE  IInv'
      <3>1. v \in Nat
        BY DEF IInv, TypeOK, Row
      <3> QED BY <2>3, <3>1, BeginOwnerWritePreserves
    <2> QED BY <1>2, <2>1, <2>2, <2>3 DEF Begin
  <1>3. ASSUME NEW c \in Sessions, LockRow(c) PROVE IInv'
    BY <1>3, LockRowPreserves
  <1>4. ASSUME NEW c \in Sessions, Run(c) PROVE IInv'
    <2>1. CASE SelectCandidate(c)
      BY <2>1, SelectCandidatePreserves
    <2>2. CASE SkipLocked(c)
      BY <2>2, SkipLockedPreserves
    <2>3. CASE LockCandidate(c)
      BY <2>3, LockCandidatePreserves
    <2>4. CASE ClaimNothing(c)
      BY <2>4, ClaimNothingPreserves
    <2>5. CASE ClaimUpdate(c)
      BY <2>5, ClaimUpdatePreserves
    <2>6. CASE Reject(c)
      BY <2>6, RejectPreserves
    <2>7. CASE Renew(c)
      BY <2>7, RenewPreserves
    <2>8. CASE Complete(c)
      BY <2>8, CompletePreserves
    <2>9. CASE Fail(c)
      BY <2>9, FailPreserves
    <2>10. CASE ResolveExpired(c)
      BY <2>10, ResolveExpiredPreserves
    <2>11. CASE PromoteDue(c)
      BY <2>11, PromoteDuePreserves
    <2>12. CASE Commit(c)
      BY <2>12, CommitPreserves
    <2> QED BY <1>4, <2>1, <2>2, <2>3, <2>4, <2>5, <2>6, <2>7, <2>8, <2>9,
               <2>10, <2>11, <2>12 DEF Run
  <1>5. ASSUME NEW c \in Sessions, Abort(c) PROVE IInv'
    BY <1>5, AbortPreserves
  <1>6. CASE UNCHANGED vars
    BY <1>6, StutterPreserves
  <1> QED BY <1>1, <1>2, <1>3, <1>4, <1>5, <1>6 DEF Next

\* The inductive invariant holds in every reachable state: locks belong to open
\* transactions, only a transaction about to commit has written, what a scan
\* picked still matches, and every version of every row is sound.
THEOREM Invariance == Spec => []IInv
  <1>1. IInv /\ [Next]_vars => IInv'
    BY NextPreserves
  <1> QED BY InitEstablishes, <1>1, PTL DEF Spec

\* Every variable keeps its type, for every set of steps, workers and sessions.
THEOREM TypeCorrectness == Spec => []TypeOK
  <1>1. IInv => TypeOK
    BY DEF IInv
  <1> QED BY Invariance, <1>1, PTL

\* No step that still has to run is shut out by its attempt budget, and none is
\* attempted more often than it (claim-step.ts, recover-expired-steps.ts).
THEOREM BudgetSafety == Spec => []BudgetNeverStrands
  <1>1. IInv => BudgetNeverStrands
    BY DEF IInv, RowsAreSound, RowShape, BudgetNeverStrands
  <1> QED BY Invariance, <1>1, PTL

\* claimNextStep never throws ClaimConsistencyError.
THEOREM ClaimConsistency == Spec => []ClaimUpdateFindsItsRow
  <1>1. IInv => ClaimUpdateFindsItsRow
    <2> SUFFICES ASSUME IInv, NEW c \in Sessions, tx[c].op = "claim", tx[c].at = "visit",
                        NEW s \in tx[c].picked
                 PROVE  lock[s] = c /\ draft[s].status = "READY"
                        /\ draft[s].attempts < MaxAttempts[s]
      BY DEF ClaimUpdateFindsItsRow
    <2>1. s \in Steps /\ lock[s] = c /\ Claimable(s, tx[c].begun)
      BY DEF IInv, TypeOK, Transaction, PickedStillMatch, Matches
    <2>2. draft[s] = row[s]
      BY <2>1 DEF IInv, DraftsAreLocked
    <2> QED BY <2>1, <2>2 DEF Claimable
  <1> QED BY Invariance, <1>1, PTL

\* A session waiting for a row lock holds none: row locks cannot deadlock.
THEOREM NoLockCycle == Spec => []WaitersHoldNothing
  <1>1. IInv => WaitersHoldNothing
    BY HolderIsActive DEF WaitersHoldNothing
  <1> QED BY Invariance, <1>1, PTL

-----------------------------------------------------------------------------
(* Action properties                                                       *)

\* The steps that write no draft, and those that write one.
Quiet ==
  \/ Tick
  \/ \E c \in Sessions : \/ Begin(c) \/ LockRow(c) \/ SelectCandidate(c) \/ SkipLocked(c)
                         \/ LockCandidate(c) \/ ClaimNothing(c) \/ Reject(c)
  \/ UNCHANGED vars

OwnerStep(c) == Renew(c) \/ Complete(c) \/ Fail(c)

LEMMA QuietSteps == Quiet => UNCHANGED <<row, history, draft, note>>
  <1> SUFFICES ASSUME Quiet PROVE UNCHANGED <<row, history, draft, note>>
    OBVIOUS
  <1>1. CASE Tick \/ UNCHANGED vars
    BY <1>1 DEF Tick, vars
  <1>2. ASSUME NEW c \in Sessions, Begin(c) PROVE UNCHANGED <<row, history, draft, note>>
    BY <1>2 DEF Begin, BeginClaim, BeginSweep, BeginOwnerWrite
  <1>3. ASSUME NEW c \in Sessions,
               \/ LockRow(c) \/ SelectCandidate(c) \/ SkipLocked(c)
               \/ LockCandidate(c) \/ ClaimNothing(c) \/ Reject(c)
        PROVE  UNCHANGED <<row, history, draft, note>>
    BY <1>3 DEF LockRow, SelectCandidate, SkipLocked, LockCandidate, ClaimNothing, Reject
  <1> QED BY <1>1, <1>2, <1>3 DEF Quiet

LEMMA KindsOfSteps ==
  [Next]_vars => \/ Quiet
                 \/ \E c \in Sessions : \/ ClaimUpdate(c) \/ OwnerStep(c) \/ ResolveExpired(c)
                                        \/ PromoteDue(c) \/ Commit(c) \/ Abort(c)
  BY DEF Next, Run, Quiet, OwnerStep

\* A claim writes only a READY row it holds.
LEMMA ClaimWrites ==
  ASSUME IInv, NEW c \in Sessions, ClaimUpdate(c), NEW s \in Steps, draft'[s] # draft[s]
  PROVE  row[s].status = "READY"
  <1>1. PICK p \in tx[c].picked : draft' = [draft EXCEPT ![p] = ClaimedRow(@, tx[c].worker)]
    BY DEF ClaimUpdate
  <1>2. s = p
    BY <1>1 DEF IInv, TypeOK
  <1>3. tx[c].at = "visit" /\ tx[c].op = "claim"
    BY DEF ClaimUpdate, ScanDone
  <1> QED BY <1>2, <1>3 DEF IInv, PickedStillMatch, Matches, Claimable

\* An owner writes only the row of its own live generation.
LEMMA OwnerWrites ==
  ASSUME IInv, NEW c \in Sessions, OwnerStep(c), NEW s \in Steps, draft'[s] # draft[s]
  PROVE  /\ lock[s] = c /\ now < row[s].deadline
         /\ tx[c].worker = row[s].owner /\ tx[c].version = row[s].version
  <1>1. /\ tx[c].at = "authorize" /\ Authorized(tx[c])
        /\ \E new : draft' = [draft EXCEPT ![tx[c].step] = new]
    BY DEF OwnerStep, Renew, Complete, Fail, OwnerWrite
  <1>2. s = tx[c].step
    BY <1>1 DEF IInv, TypeOK
  <1>3. draft[s] = row[s] /\ row[s] \in Row /\ lock[s] = c
        /\ now \in Nat /\ row[s].status = "RUNNING" /\ RowShape(row[s], s)
    BY <1>1, <1>2, AuthorizedRow
  <1>4. row[s].deadline > now /\ row[s].deadline \in Nat
    BY <1>1, <1>2, <1>3 DEF Authorized, RowShape
  <1> QED BY <1>1, <1>2, <1>3, <1>4 DEF Authorized

\* Recovery writes only expired rows it holds, and names the owner they had.
LEMMA RecoveryWrites ==
  ASSUME IInv, NEW c \in Sessions, ResolveExpired(c), NEW s \in Steps, draft'[s] # draft[s]
  PROVE  /\ lock[s] = c /\ tx[c].op = "recover" /\ row[s].deadline <= now
         /\ draft'[s].status \in {"READY", "DEAD_LETTERED"} /\ draft'[s].owner = Null
         /\ note'[s] \in {EventOf(type, row[s].owner, row[s]) :
                          type \in {"LEASE_RECOVERED", "STEP_DEAD_LETTERED"}}
  <1>1. s \in tx[c].picked /\ tx[c].at = "visit" /\ tx[c].op = "recover"
    BY DEF ResolveExpired, ScanDone
  <1>2. lock[s] = c /\ row[s].status = "RUNNING" /\ row[s].deadline <= now
    BY <1>1 DEF IInv, PickedStillMatch, Matches, Expired
  <1>3. draft[s] = row[s] /\ row[s] \in Row
    BY <1>1, <1>2, HeldRow
  <1>4. draft'[s] = RecoveredRow(row[s], s) /\ note'[s] = RecoveryEvent(row[s], draft'[s])
    BY <1>1, <1>3 DEF ResolveExpired
  <1>5. /\ draft'[s].status \in {"READY", "DEAD_LETTERED"} /\ draft'[s].owner = Null
        /\ draft'[s].version = row[s].version /\ draft'[s].attempts = row[s].attempts
    BY <1>3, <1>4 DEF RecoveredRow, Row, Status
  <1>6. \E type \in {"LEASE_RECOVERED", "STEP_DEAD_LETTERED"} :
          note'[s] = EventOf(type, row[s].owner, row[s])
    BY <1>4, <1>5 DEF RecoveryEvent, EventOf
  <1> QED BY <1>1, <1>2, <1>5, <1>6

LEMMA PromotionWrites ==
  ASSUME IInv, NEW c \in Sessions, PromoteDue(c), NEW s \in Steps, draft'[s] # draft[s]
  PROVE  row[s].status = "RETRY_WAIT"
  <1>1. s \in tx[c].picked /\ tx[c].at = "visit" /\ tx[c].op = "promote"
    BY DEF PromoteDue, ScanDone
  <1> QED BY <1>1 DEF IInv, PickedStillMatch, Matches, Due

\* While a step is RUNNING, an owner write is made only before the deadline and
\* by the current generation, and a sweep takes it only from the deadline on.
THEOREM LeaseBoundaryHolds == Spec => LeaseBoundary
  <1>1. IInv /\ [Next]_vars => \A s \in Steps : WrittenWithinBoundary(s)
    <2> SUFFICES ASSUME IInv, [Next]_vars, NEW s \in Steps PROVE WrittenWithinBoundary(s)
      OBVIOUS
    <2> USE DEF WrittenWithinBoundary
    <2>1. CASE Quiet
      BY <2>1, QuietSteps
    <2>2. ASSUME NEW c \in Sessions, ClaimUpdate(c) PROVE WrittenWithinBoundary(s)
      BY <2>2, ClaimWrites
    <2>3. ASSUME NEW c \in Sessions, OwnerStep(c) PROVE WrittenWithinBoundary(s)
      BY <2>3, OwnerWrites
    <2>4. ASSUME NEW c \in Sessions, ResolveExpired(c) PROVE WrittenWithinBoundary(s)
      BY <2>4, RecoveryWrites
    <2>5. ASSUME NEW c \in Sessions, PromoteDue(c) PROVE WrittenWithinBoundary(s)
      BY <2>5, PromotionWrites
    <2>6. ASSUME NEW c \in Sessions, Commit(c) \/ Abort(c) PROVE WrittenWithinBoundary(s)
      BY <2>6 DEF Commit, Abort
    <2> QED BY <2>1, <2>2, <2>3, <2>4, <2>5, <2>6, KindsOfSteps
  <1> QED BY Invariance, <1>1, PTL DEF Spec, LeaseBoundary

\* Once a lease has run out and no write decided in time is waiting to commit,
\* only recovery changes the step.
THEOREM ExpiryIsFinalHolds == Spec => ExpiryIsFinal
  <1>1. IInv /\ [Next]_vars => \A s \in Steps : OnlyRecoveryFollowsExpiry(s)
    <2> SUFFICES ASSUME IInv, [Next]_vars, NEW s \in Steps,
                        row[s].status = "RUNNING", row[s].deadline <= now, draft[s] = row[s]
                 PROVE  /\ row'[s] = row[s]
                        /\ draft'[s] # row[s] =>
                             note'[s] \in {EventOf(type, row[s].owner, row[s]) :
                                             type \in {"LEASE_RECOVERED", "STEP_DEAD_LETTERED"}}
      BY DEF OnlyRecoveryFollowsExpiry
    <2> DEFINE Goal == /\ row'[s] = row[s]
                       /\ draft'[s] # row[s] =>
                            note'[s] \in {EventOf(type, row[s].owner, row[s]) :
                                            type \in {"LEASE_RECOVERED", "STEP_DEAD_LETTERED"}}
    <2>1. CASE Quiet
      BY <2>1, QuietSteps
    <2>2. ASSUME NEW c \in Sessions, ClaimUpdate(c) PROVE Goal
      BY <2>2, ClaimWrites DEF ClaimUpdate
    <2>3. ASSUME NEW c \in Sessions, OwnerStep(c) PROVE Goal
      <3>1. row[s].deadline \in Nat /\ now \in Nat
        BY DEF IInv, TypeOK, RowsAreSound, RowShape
      <3>2. draft'[s] = draft[s]
        BY <2>3, <3>1, OwnerWrites
      <3>3. row' = row
        BY <2>3 DEF OwnerStep, Renew, Complete, Fail, OwnerWrite
      <3> QED BY <3>2, <3>3
    <2>4. ASSUME NEW c \in Sessions, ResolveExpired(c) PROVE Goal
      <3>1. row' = row
        BY <2>4 DEF ResolveExpired
      <3> QED BY <2>4, <3>1, RecoveryWrites
    <2>5. ASSUME NEW c \in Sessions, PromoteDue(c) PROVE Goal
      BY <2>5, PromotionWrites DEF PromoteDue
    <2>6. ASSUME NEW c \in Sessions, Commit(c) PROVE Goal
      BY <2>6 DEF Commit, IInv, TypeOK
    <2>7. ASSUME NEW c \in Sessions, Abort(c) PROVE Goal
      BY <2>7 DEF Abort, IInv, TypeOK
    <2> QED BY <2>1, <2>2, <2>3, <2>4, <2>5, <2>6, <2>7, KindsOfSteps
  <1> QED BY Invariance, <1>1, PTL DEF Spec, ExpiryIsFinal

LEMMA StepAdvances == IInv /\ [Next]_vars => \A s \in Steps : Advances(s)
  <1> SUFFICES ASSUME IInv, [Next]_vars, NEW s \in Steps PROVE Advances(s)
    OBVIOUS
  <1>t. /\ row[s] \in Row /\ history[s] \in Seq(Event)
        /\ row[s].version \in Nat /\ row[s].attempts \in Nat
        /\ row[s].status = "RUNNING" => row[s].deadline \in Nat
    BY DEF IInv, TypeOK, Row, RowsAreSound, RowShape
  <1>1. ASSUME row'[s] = row[s], history'[s] = history[s] PROVE Advances(s)
    BY <1>t, <1>1 DEF Advances
  <1>2. CASE Quiet
    BY <1>1, <1>2, QuietSteps
  <1>3. ASSUME NEW c \in Sessions,
               ClaimUpdate(c) \/ OwnerStep(c) \/ ResolveExpired(c) \/ PromoteDue(c) \/ Abort(c)
        PROVE  Advances(s)
    <2>1. row' = row /\ history' = history
      BY <1>3 DEF ClaimUpdate, OwnerStep, Renew, Complete, Fail, OwnerWrite,
                  ResolveExpired, PromoteDue, Abort
    <2> QED BY <1>1, <2>1
  <1>4. ASSUME NEW c \in Sessions, Commit(c) PROVE Advances(s)
    <2>1. CASE lock[s] # c
      <3>1. row'[s] = row[s] /\ history'[s] = history[s]
        BY <1>4, <2>1 DEF Commit, IInv, TypeOK
      <3> QED BY <1>1, <3>1
    <2>2. CASE lock[s] = c
      <3>1. row'[s] = draft[s] /\ Follows(draft[s], row[s])
        BY <1>4, <2>2 DEF Commit, IInv, TypeOK, DraftsFollowRows
      <3>2. \/ history'[s] = history[s]
            \/ note[s] \in Event /\ history'[s] = Append(history[s], note[s])
        <4>1. note[s] \in Event \cup {Null}
          BY DEF IInv, TypeOK
        <4>2. history'[s] = IF note[s] # Null THEN Append(history[s], note[s]) ELSE history[s]
          BY <1>4, <2>2 DEF Commit
        <4> HIDE DEF Event
        <4>3. CASE note[s] = Null
          BY <4>2, <4>3
        <4>4. CASE note[s] # Null
          BY <4>1, <4>2, <4>4
        <4> QED BY <4>3, <4>4
      <3>3. /\ Len(history'[s]) >= Len(history[s])
            /\ \A i \in 1 .. Len(history[s]) : history'[s][i] = history[s][i]
        <4>1. history[s] \in Seq(Event)
          BY <1>t
        <4>2. CASE history'[s] = history[s]
          BY <4>1, <4>2
        <4>3. CASE note[s] \in Event /\ history'[s] = Append(history[s], note[s])
          BY <4>1, <4>3, AppendProperties
        <4> QED BY <3>2, <4>2, <4>3
      <3>4. CASE draft[s] = row[s]
        BY <1>t, <3>1, <3>3, <3>4 DEF Advances
      <3>5. CASE draft[s] # row[s]
        BY <1>t, <3>1, <3>3, <3>5 DEF Advances, Follows
      <3> QED BY <3>4, <3>5
    <2> QED BY <2>1, <2>2
  <1> QED BY <1>2, <1>3, <1>4, KindsOfSteps

\* Versions, attempts, deadlines and history only move forward, and a terminal
\* step never changes.
THEOREM GenerationsOnlyAdvanceHolds == Spec => GenerationsOnlyAdvance
  BY Invariance, StepAdvances, PTL DEF Spec, GenerationsOnlyAdvance

-----------------------------------------------------------------------------
(* What a transaction has decided                                          *)

LEMMA LimitInNat == \A op : Limit(op) \in Nat \ {0}
  BY StepStoreAssumption DEF Limit

LEMMA InitDecidesNothing == Init => WritesAreDecided
  <1> SUFFICES ASSUME Init, NEW c \in Sessions
               PROVE  /\ tx[c].begun <= now
                      /\ Cardinality(tx[c].picked) <= Limit(tx[c].op)
                      /\ Changed(c) = {}
    BY DEF WritesAreDecided
  <1>1. tx[c] = Idle /\ now = 0 /\ draft = row
    BY DEF Init
  <1>2. Idle.begun = 0 /\ Idle.picked = {}
    BY DEF Idle
  <1> QED BY <1>1, <1>2, LimitInNat, FS_EmptySet DEF Changed

\* Only a transaction about to commit has changed a row.
LEMMA ChangedAtCommit ==
  ASSUME IInv, NEW c \in Sessions, tx[c].at # "commit"
  PROVE  Changed(c) = {}
  BY DEF IInv, DraftsAreLocked, Changed

\* A step that writes nothing leaves what is decided as it is.
LEMMA DecidesNothing ==
  ASSUME IInv, WritesAreDecided, NEW c \in Sessions, NEW t,
         UNCHANGED <<now, row, draft>>, tx' = [tx EXCEPT ![c] = t], tx[c].at # "commit",
         \A s \in Steps : lock'[s] = lock[s] \/ (lock[s] = Null /\ lock'[s] = c),
         t.begun <= now, Cardinality(t.picked) <= Limit(t.op)
  PROVE  WritesAreDecided'
  <1>1. tx'[c] = t /\ \A d \in Sessions \ {c} : tx'[d] = tx[d]
    BY DEF IInv, TypeOK
  <1> SUFFICES ASSUME NEW d \in Sessions
               PROVE  /\ tx'[d].begun <= now
                      /\ Cardinality(tx'[d].picked) <= Limit(tx'[d].op)
                      /\ \A s \in Changed(d)' :
                           /\ Decided(tx'[d].op, row[s], draft[s], s)
                           /\ IF tx'[d].op \in Sweeps THEN s \in tx'[d].picked
                                                     ELSE Changed(d)' = {s}
    BY DEF WritesAreDecided, Decided, Limit
  <1>2. CASE d = c
    <2>1. \A s \in Steps : lock'[s] = c => draft[s] = row[s]
      <3>1. \A s \in Steps : lock[s] \in {c, Null} => draft[s] = row[s]
        BY DEF IInv, DraftsAreLocked
      <3> QED BY <3>1
    <2>2. Changed(c)' = {}
      BY <2>1 DEF Changed
    <2> QED BY <1>1, <1>2, <2>2
  <1>3. CASE d # c
    <2>1. d # Null
      BY StepStoreAssumption
    <2>2. Changed(d)' = Changed(d)
      BY <1>3, <2>1 DEF Changed
    <2> QED BY <1>1, <1>3, <2>2 DEF WritesAreDecided
  <1> QED BY <1>2, <1>3

LEMMA BeginDecides ==
  ASSUME IInv, WritesAreDecided, NEW c \in Sessions, Begin(c)
  PROVE  WritesAreDecided'
  <1>1. /\ UNCHANGED <<now, row, draft, lock>> /\ tx[c].op = "idle"
        /\ tx[c].at # "commit" /\ now \in Nat
    BY IdleHoldsNothing
       DEF Begin, BeginClaim, BeginSweep, BeginOwnerWrite, IInv, TypeOK
  <1>2. \E t : /\ tx' = [tx EXCEPT ![c] = t] /\ t.begun <= now /\ t.picked = {}
    <2>1. ASSUME NEW w \in Workers, BeginClaim(c, w)
          PROVE  \E t : tx' = [tx EXCEPT ![c] = t] /\ t.begun <= now /\ t.picked = {}
      <3> DEFINE t == [Idle EXCEPT !.op = "claim", !.at = "select", !.worker = w, !.begun = now]
      <3>1. t.begun <= now /\ t.picked = {}
        BY <1>1 DEF Idle
      <3>2. tx' = [tx EXCEPT ![c] = t]
        BY <2>1 DEF BeginClaim
      <3> HIDE DEF t
      <3> QED BY <3>1, <3>2
    <2>2. ASSUME NEW op \in Sweeps, BeginSweep(c, op)
          PROVE  \E t : tx' = [tx EXCEPT ![c] = t] /\ t.begun <= now /\ t.picked = {}
      <3> DEFINE t == Snapshot([Idle EXCEPT !.op = op])
      <3>1. t.begun <= now /\ t.picked = {}
        BY <1>1 DEF Idle, Snapshot
      <3>2. tx' = [tx EXCEPT ![c] = t]
        BY <2>2 DEF BeginSweep
      <3> HIDE DEF t
      <3> QED BY <3>1, <3>2
    <2>3. ASSUME NEW op \in OwnerOps, NEW s \in Steps, NEW w \in Workers,
                 NEW retryable \in BOOLEAN, NEW v \in 1 .. row[s].version,
                 BeginOwnerWrite(c, op, s, w, v, retryable)
          PROVE  \E t : tx' = [tx EXCEPT ![c] = t] /\ t.begun <= now /\ t.picked = {}
      <3> DEFINE t == [Idle EXCEPT !.op = op, !.at = "lock", !.step = s, !.worker = w,
                                   !.version = v, !.retryable = retryable, !.begun = now]
      <3>1. t.begun <= now /\ t.picked = {}
        BY <1>1 DEF Idle
      <3>2. tx' = [tx EXCEPT ![c] = t]
        BY <2>3 DEF BeginOwnerWrite
      <3> HIDE DEF t
      <3> QED BY <3>1, <3>2
    <2> QED BY <2>1, <2>2, <2>3 DEF Begin
  <1>3. PICK t : tx' = [tx EXCEPT ![c] = t] /\ t.begun <= now /\ t.picked = {}
    BY <1>2
  <1>4. Cardinality(t.picked) <= Limit(t.op)
    BY <1>3, LimitInNat, FS_EmptySet
  <1> QED BY <1>1, <1>3, <1>4, DecidesNothing

\* The steps that move the scan, or the session, and pick nothing.
LEMMA PassingDecides ==
  ASSUME IInv, WritesAreDecided, NEW c \in Sessions,
         \/ LockRow(c) \/ SelectCandidate(c) \/ SkipLocked(c) \/ ClaimNothing(c) \/ Reject(c)
  PROVE  WritesAreDecided'
  <1>1. tx[c] \in Transaction /\ tx[c].begun <= now
        /\ Cardinality(tx[c].picked) <= Limit(tx[c].op)
    BY DEF IInv, TypeOK, WritesAreDecided
  <1>2. /\ UNCHANGED <<now, row, draft>> /\ tx[c].at # "commit"
        /\ \A s \in Steps : lock'[s] = lock[s] \/ (lock[s] = Null /\ lock'[s] = c)
    BY DEF LockRow, SelectCandidate, SkipLocked, ClaimNothing, Reject, ScanDone, IInv, TypeOK
  <1>3. \E t : /\ tx' = [tx EXCEPT ![c] = t]
               /\ t.begun = tx[c].begun /\ t.picked = tx[c].picked /\ t.op = tx[c].op
    <2>1. CASE SelectCandidate(c)
      <3>1. Snapshot(tx[c]).begun = tx[c].begun
        BY <1>1 DEF Snapshot, Transaction
      <3>2. Snapshot(tx[c]).picked = tx[c].picked /\ Snapshot(tx[c]).op = tx[c].op
        BY <1>1, <2>1, SnapshotShape DEF SelectCandidate
      <3> QED BY <2>1, <3>1, <3>2 DEF SelectCandidate
    <2>2. CASE SkipLocked(c)
      <3>1. PICK s \in Steps : tx' = [tx EXCEPT ![c].todo = @ \ {s}]
        BY <2>2 DEF SkipLocked
      <3> DEFINE t == [tx[c] EXCEPT !.todo = @ \ {s}]
      <3>2. tx' = [tx EXCEPT ![c] = t] /\ t.begun = tx[c].begun
            /\ t.picked = tx[c].picked /\ t.op = tx[c].op
        BY <1>1, <3>1 DEF Transaction
      <3> HIDE DEF t
      <3> QED BY <3>2
    <2>3. CASE LockRow(c) \/ ClaimNothing(c) \/ Reject(c)
      <3>1. PICK at : tx' = [tx EXCEPT ![c].at = at]
        BY <2>3 DEF LockRow, ClaimNothing, Reject
      <3> DEFINE t == [tx[c] EXCEPT !.at = at]
      <3>2. tx' = [tx EXCEPT ![c] = t] /\ t.begun = tx[c].begun
            /\ t.picked = tx[c].picked /\ t.op = tx[c].op
        BY <1>1, <3>1 DEF Transaction
      <3> HIDE DEF t
      <3> QED BY <3>2
    <2> QED BY <2>1, <2>2, <2>3
  <1>4. PICK t : /\ tx' = [tx EXCEPT ![c] = t]
                 /\ t.begun = tx[c].begun /\ t.picked = tx[c].picked /\ t.op = tx[c].op
    BY <1>3
  <1> QED BY <1>1, <1>2, <1>4, DecidesNothing

\* A scan that is not done has room for one more row: LIMIT is respected.
LEMMA LockCandidateDecides ==
  ASSUME IInv, WritesAreDecided, NEW c \in Sessions, LockCandidate(c)
  PROVE  WritesAreDecided'
  <1>1. tx[c] \in Transaction /\ tx[c].begun <= now
        /\ Cardinality(tx[c].picked) <= Limit(tx[c].op)
    BY DEF IInv, TypeOK, WritesAreDecided
  <1>2. tx[c].picked \in SUBSET Steps
    BY <1>1 DEF Transaction
  <1>3. PICK s \in Steps :
          /\ lock[s] = Null /\ lock' = [lock EXCEPT ![s] = c]
          /\ tx' = [tx EXCEPT ![c].todo = @ \ {s},
                              ![c].picked = IF Matches(tx[c], s) THEN @ \cup {s} ELSE @]
          /\ s \in tx[c].todo
    BY DEF LockCandidate, IsNext
  <1>4. /\ tx[c].at = "visit" /\ Cardinality(tx[c].picked) # Limit(tx[c].op)
        /\ UNCHANGED <<now, row, draft>>
    BY DEF LockCandidate, ScanDone
  <1> DEFINE more == IF Matches(tx[c], s) THEN tx[c].picked \cup {s} ELSE tx[c].picked
             t == [tx[c] EXCEPT !.todo = @ \ {s}, !.picked = more]
  <1>5. IsFiniteSet(tx[c].picked)
    BY <1>2, FS_Subset, StepStoreAssumption
  <1>6. Cardinality(more) <= Limit(tx[c].op)
    <2>1. Cardinality(tx[c].picked) \in Nat
      BY <1>5, FS_CardinalityType
    <2>2. Cardinality(tx[c].picked \cup {s}) =
            IF s \in tx[c].picked THEN Cardinality(tx[c].picked) ELSE Cardinality(tx[c].picked) + 1
      BY <1>5, FS_AddElement
    <2>3. Cardinality(tx[c].picked \cup {s}) \in Nat
      BY <1>5, FS_AddElement, FS_CardinalityType
    <2> QED BY <1>1, <1>4, <2>1, <2>2, <2>3, LimitInNat
  <1> HIDE DEF more
  <1>7. t.begun = tx[c].begun /\ t.picked = more /\ t.op = tx[c].op
    BY <1>1 DEF Transaction
  <1>8. tx' = [tx EXCEPT ![c] = t]
    BY <1>1, <1>3 DEF more, Transaction, IInv, TypeOK
  <1>9. \A u \in Steps : lock'[u] = lock[u] \/ (lock[u] = Null /\ lock'[u] = c)
    BY <1>3 DEF IInv, TypeOK
  <1> HIDE DEF t
  <1> QED BY <1>1, <1>4, <1>6, <1>7, <1>8, <1>9, DecidesNothing

\* A write decides what happens to rows the session holds.
LEMMA WriteDecides ==
  ASSUME IInv, WritesAreDecided, NEW c \in Sessions, tx[c].at \in {"visit", "authorize"},
         tx' = [tx EXCEPT ![c].at = "commit"], UNCHANGED <<now, row, lock>>,
         \A s \in Steps \ Held(c) : draft'[s] = draft[s],
         \A s \in Held(c) : draft'[s] # row[s] =>
           /\ Decided(tx[c].op, row[s], draft'[s], s)
           /\ IF tx[c].op \in Sweeps THEN s \in tx[c].picked
                                     ELSE \A u \in Held(c) \ {s} : draft'[u] = row[u]
  PROVE  WritesAreDecided'
  <1>1. /\ tx[c] \in Transaction /\ tx[c].begun <= now
        /\ Cardinality(tx[c].picked) <= Limit(tx[c].op)
    BY DEF IInv, TypeOK, WritesAreDecided
  <1>2. /\ tx'[c].op = tx[c].op /\ tx'[c].picked = tx[c].picked /\ tx'[c].begun = tx[c].begun
        /\ \A d \in Sessions \ {c} : tx'[d] = tx[d]
    BY <1>1 DEF IInv, TypeOK, Transaction
  <1> SUFFICES ASSUME NEW d \in Sessions
               PROVE  /\ tx'[d].begun <= now
                      /\ Cardinality(tx'[d].picked) <= Limit(tx'[d].op)
                      /\ \A s \in Changed(d)' :
                           /\ Decided(tx'[d].op, row[s], draft'[s], s)
                           /\ IF tx'[d].op \in Sweeps THEN s \in tx'[d].picked
                                                     ELSE Changed(d)' = {s}
    BY DEF WritesAreDecided, Decided, Limit
  <1>3. CASE d = c
    <2>1. Changed(c)' = {s \in Held(c) : draft'[s] # row[s]}
      BY DEF Changed, Held
    <2>2. ASSUME NEW s \in Changed(c)'
          PROVE  /\ Decided(tx[c].op, row[s], draft'[s], s)
                 /\ IF tx[c].op \in Sweeps THEN s \in tx[c].picked ELSE Changed(c)' = {s}
      <3>1. s \in Held(c) /\ draft'[s] # row[s]
        BY <2>1
      <3>2. CASE tx[c].op \in Sweeps
        BY <3>1, <3>2
      <3>3. CASE tx[c].op \notin Sweeps
        <4>1. \A u \in Held(c) \ {s} : draft'[u] = row[u]
          BY <3>1, <3>3
        <4>2. Changed(c)' = {s}
          BY <2>1, <3>1, <4>1
        <4> QED BY <3>1, <3>3, <4>2
      <3> QED BY <3>2, <3>3
    <2> QED BY <1>1, <1>2, <1>3, <2>2
  <1>4. CASE d # c
    <2>1. Changed(d)' = Changed(d) /\ \A s \in Changed(d) : draft'[s] = draft[s]
      BY <1>4 DEF Changed, Held
    <2> QED BY <1>2, <1>4, <2>1 DEF WritesAreDecided
  <1> QED BY <1>3, <1>4

-----------------------------------------------------------------------------
(* What each write decides                                                 *)

LEMMA ClaimedRowIsDecided ==
  ASSUME NEW s \in Steps, NEW r \in Row, NEW w,
         r.status = "READY", r.availableAt <= now, r.attempts < MaxAttempts[s]
  PROVE  Decided("claim", r, ClaimedRow(r, w), s)
  <1> DEFINE n == ClaimedRow(r, w)
  <1>1. /\ n.status = "RUNNING" /\ n.version = r.version + 1 /\ n.attempts = r.attempts + 1
        /\ n.availableAt = r.availableAt /\ n.result = r.result
    BY DEF ClaimedRow, Row
  <1> HIDE DEF n
  <1>2. Decided("claim", r, n, s)
    BY <1>1 DEF Decided, OwnerOps
  <1> QED BY <1>2 DEF n

LEMMA RenewedRowIsDecided ==
  ASSUME NEW s \in Steps, NEW r \in Row, r.status = "RUNNING"
  PROVE  Decided("renew", r, RenewedRow(r), s)
  <1> DEFINE n == RenewedRow(r)
  <1>1. /\ n.status = "RUNNING" /\ n.owner = r.owner /\ n.version = r.version
        /\ n.attempts = r.attempts /\ n.availableAt = r.availableAt /\ n.result = r.result
    BY DEF RenewedRow, Row
  <1> HIDE DEF n
  <1>2. Decided("renew", r, n, s)
    BY <1>1 DEF Decided, OwnerOps
  <1> QED BY <1>2 DEF n

LEMMA CompletedRowIsDecided ==
  ASSUME NEW s \in Steps, NEW r \in Row, r.status = "RUNNING"
  PROVE  Decided("complete", r, CompletedRow(r), s)
  <1> DEFINE n == CompletedRow(r)
  <1>1. /\ n.status = "SUCCEEDED" /\ n.version = r.version /\ n.attempts = r.attempts
        /\ n.availableAt = r.availableAt /\ n.result = r.version
    BY DEF CompletedRow, Row
  <1> HIDE DEF n
  <1>2. Decided("complete", r, n, s)
    BY <1>1 DEF Decided, OwnerOps
  <1> QED BY <1>2 DEF n

Backoff(attempts) == BackoffUnit * BackoffFactor(attempts)

LEMMA FailedRowIsDecided ==
  ASSUME NEW s \in Steps, NEW r \in Row, NEW retryable, now \in Nat, r.status = "RUNNING"
  PROVE  Decided("fail", r, FailedRow(r, s, retryable), s)
  <1> DEFINE n == FailedRow(r, s, retryable)
             due == now + Backoff(r.attempts)
  <1>1. /\ n.version = r.version /\ n.attempts = r.attempts /\ n.result = r.result
        /\ \/ n.status = "DEAD_LETTERED" /\ n.availableAt = r.availableAt
           \/ n.status = "RETRY_WAIT" /\ r.attempts < MaxAttempts[s] /\ n.availableAt = due
    <2>1. CASE retryable /\ r.attempts < MaxAttempts[s]
      <3>1. n = [r EXCEPT !.status = "RETRY_WAIT", !.owner = Null, !.deadline = Null,
                          !.availableAt = due]
        BY <2>1 DEF FailedRow, Backoff
      <3> HIDE DEF n, due
      <3> QED BY <2>1, <3>1 DEF Row
    <2>2. CASE ~(retryable /\ r.attempts < MaxAttempts[s])
      <3>1. n = [r EXCEPT !.status = "DEAD_LETTERED", !.owner = Null, !.deadline = Null]
        BY <2>2 DEF FailedRow
      <3> HIDE DEF n
      <3> QED BY <3>1 DEF Row
    <2> QED BY <2>1, <2>2
  <1>2. due \in Nat
    <2>1. Backoff(r.attempts) \in Nat
      BY BackoffInNat DEF Row, Backoff
    <2> QED BY <2>1
  <1> HIDE DEF n
  <1>3. n.availableAt = due => n.availableAt <= now + BackoffUnit * BackoffFactor(r.attempts)
    <2> HIDE DEF due
    <2>1. n.availableAt = due => n.availableAt <= due
      BY <1>2
    <2> QED BY <2>1 DEF due, Backoff
  <1>4. Decided("fail", r, n, s)
    <2> HIDE DEF due
    <2> QED BY <1>1, <1>3 DEF Decided, OwnerOps
  <1> QED BY <1>4 DEF n

LEMMA RecoveredRowIsDecided ==
  ASSUME NEW s \in Steps, NEW r \in Row, r.status = "RUNNING", r.deadline <= now
  PROVE  Decided("recover", r, RecoveredRow(r, s), s)
  <1> DEFINE n == RecoveredRow(r, s)
  <1>1. /\ n.version = r.version /\ n.attempts = r.attempts
        /\ n.availableAt = r.availableAt /\ n.result = r.result
        /\ n.status = IF r.attempts < MaxAttempts[s] THEN "READY" ELSE "DEAD_LETTERED"
    BY DEF RecoveredRow, Row
  <1> HIDE DEF n
  <1>2. Decided("recover", r, n, s)
    BY <1>1 DEF Decided, OwnerOps
  <1> QED BY <1>2 DEF n

LEMMA PromotedRowIsDecided ==
  ASSUME NEW s \in Steps, NEW r \in Row, r.status = "RETRY_WAIT", r.availableAt <= now
  PROVE  Decided("promote", r, PromotedRow(r), s)
  <1> DEFINE n == PromotedRow(r)
  <1>1. /\ n.version = r.version /\ n.attempts = r.attempts /\ n.status = "READY"
        /\ n.availableAt = r.availableAt /\ n.result = r.result
    BY DEF PromotedRow, Row
  <1> HIDE DEF n
  <1>2. Decided("promote", r, n, s)
    BY <1>1 DEF Decided, OwnerOps
  <1> QED BY <1>2 DEF n

LEMMA ClaimUpdateDecides ==
  ASSUME IInv, WritesAreDecided, NEW c \in Sessions, ClaimUpdate(c)
  PROVE  WritesAreDecided'
  <1>1. PICK s \in tx[c].picked : draft' = [draft EXCEPT ![s] = ClaimedRow(@, tx[c].worker)]
    BY DEF ClaimUpdate
  <1>2. /\ tx[c].at = "visit" /\ tx[c].op = "claim" /\ tx[c].op \notin Sweeps
        /\ tx' = [tx EXCEPT ![c].at = "commit"]
        /\ UNCHANGED <<now, row, lock>>
    BY DEF ClaimUpdate, ScanDone, Sweeps
  <1>3. s \in Steps /\ lock[s] = c /\ Claimable(s, tx[c].begun)
    BY <1>2 DEF IInv, TypeOK, Transaction, PickedStillMatch, Matches
  <1>4. \A u \in Held(c) : draft[u] = row[u] /\ row[u] \in Row
    BY <1>2, HeldRow DEF Held
  <1>5. s \in Held(c) /\ draft'[s] = ClaimedRow(row[s], tx[c].worker)
        /\ \A u \in Steps \ {s} : draft'[u] = draft[u]
    BY <1>1, <1>3, <1>4 DEF IInv, TypeOK, Held
  <1>6. row[s].availableAt <= now
    <2>1. row[s].availableAt \in Nat /\ tx[c].begun \in Nat /\ now \in Nat
      BY <1>3 DEF IInv, TypeOK, Row, Transaction
    <2> QED BY <1>3, <2>1 DEF Claimable, WritesAreDecided
  <1>7. Decided(tx[c].op, row[s], draft'[s], s)
    BY <1>2, <1>3, <1>4, <1>5, <1>6, ClaimedRowIsDecided DEF Claimable
  <1>8. \A u \in Held(c) \ {s} : draft'[u] = row[u]
    BY <1>4, <1>5 DEF Held
  <1>9. \A u \in Steps \ Held(c) : draft'[u] = draft[u]
    BY <1>5
  <1> QED BY <1>2, <1>7, <1>8, <1>9, WriteDecides

LEMMA OwnerStepDecides ==
  ASSUME IInv, WritesAreDecided, NEW c \in Sessions, OwnerStep(c)
  PROVE  WritesAreDecided'
  <1> DEFINE s == tx[c].step
  <1>1. /\ tx[c].at = "authorize" /\ Authorized(tx[c]) /\ tx[c].op \in OwnerOps
        /\ tx' = [tx EXCEPT ![c].at = "commit"]
        /\ UNCHANGED <<now, row, lock>>
    BY DEF OwnerStep, Renew, Complete, Fail, OwnerWrite, OwnerOps
  <1>2. /\ s \in Steps /\ lock[s] = c /\ draft[s] = row[s] /\ row[s] \in Row
        /\ now \in Nat /\ row[s].status = "RUNNING"
    BY <1>1, AuthorizedRow DEF IInv, TransactionShape
  <1>3. PICK new : /\ draft' = [draft EXCEPT ![s] = new]
                   /\ Decided(tx[c].op, row[s], new, s)
    <2>1. CASE Renew(c)
      BY <1>2, <2>1, RenewedRowIsDecided DEF Renew, OwnerWrite
    <2>2. CASE Complete(c)
      BY <1>2, <2>2, CompletedRowIsDecided DEF Complete, OwnerWrite
    <2>3. CASE Fail(c)
      BY <1>2, <2>3, FailedRowIsDecided DEF Fail, OwnerWrite
    <2> QED BY <2>1, <2>2, <2>3 DEF OwnerStep
  <1>4. draft'[s] = new /\ \A u \in Steps \ {s} : draft'[u] = draft[u]
    BY <1>2, <1>3 DEF IInv, TypeOK
  <1>5. Held(c) = {s} /\ tx[c].op \notin Sweeps
    BY <1>1, <1>2, HeldWhileOpen DEF MayHold, Held, OwnerOps, Sweeps
  <1> HIDE DEF s
  <1> QED BY <1>1, <1>3, <1>4, <1>5, WriteDecides

LEMMA ResolveExpiredDecides ==
  ASSUME IInv, WritesAreDecided, NEW c \in Sessions, ResolveExpired(c)
  PROVE  WritesAreDecided'
  <1>1. /\ tx[c].at = "visit" /\ tx[c].op = "recover" /\ tx[c].op \in Sweeps
        /\ tx' = [tx EXCEPT ![c].at = "commit"]
        /\ UNCHANGED <<now, row, lock>>
        /\ draft' = [s \in Steps |-> IF s \in tx[c].picked THEN RecoveredRow(draft[s], s)
                                                          ELSE draft[s]]
    BY DEF ResolveExpired, ScanDone, Sweeps
  <1>2. \A s \in tx[c].picked : s \in Held(c) /\ Expired(s)
    BY <1>1 DEF IInv, PickedStillMatch, Matches, Held, TypeOK, Transaction
  <1>3. ASSUME NEW s \in Held(c), draft'[s] # row[s]
        PROVE  Decided(tx[c].op, row[s], draft'[s], s) /\ s \in tx[c].picked
    <2>1. draft[s] = row[s] /\ row[s] \in Row /\ s \in Steps
      BY <1>1, HeldRow DEF Held
    <2>2. s \in tx[c].picked /\ draft'[s] = RecoveredRow(row[s], s)
      BY <1>1, <1>3, <2>1
    <2> QED BY <1>1, <1>2, <2>1, <2>2, RecoveredRowIsDecided DEF Expired
  <1>4. \A s \in Steps \ Held(c) : draft'[s] = draft[s]
    BY <1>1, <1>2
  <1> QED BY <1>1, <1>3, <1>4, WriteDecides

LEMMA PromoteDueDecides ==
  ASSUME IInv, WritesAreDecided, NEW c \in Sessions, PromoteDue(c)
  PROVE  WritesAreDecided'
  <1>1. /\ tx[c].at = "visit" /\ tx[c].op = "promote" /\ tx[c].op \in Sweeps
        /\ tx' = [tx EXCEPT ![c].at = "commit"]
        /\ UNCHANGED <<now, row, lock>>
        /\ draft' = [s \in Steps |-> IF s \in tx[c].picked THEN PromotedRow(draft[s])
                                                          ELSE draft[s]]
    BY DEF PromoteDue, ScanDone, Sweeps
  <1>2. \A s \in tx[c].picked : s \in Held(c) /\ Due(s)
    BY <1>1 DEF IInv, PickedStillMatch, Matches, Held, TypeOK, Transaction
  <1>3. ASSUME NEW s \in Held(c), draft'[s] # row[s]
        PROVE  Decided(tx[c].op, row[s], draft'[s], s) /\ s \in tx[c].picked
    <2>1. draft[s] = row[s] /\ row[s] \in Row /\ s \in Steps
      BY <1>1, HeldRow DEF Held
    <2>2. s \in tx[c].picked /\ draft'[s] = PromotedRow(row[s])
      BY <1>1, <1>3, <2>1
    <2> QED BY <1>1, <1>2, <2>1, <2>2, PromotedRowIsDecided DEF Due
  <1>4. \A s \in Steps \ Held(c) : draft'[s] = draft[s]
    BY <1>1, <1>2
  <1> QED BY <1>1, <1>3, <1>4, WriteDecides

\* A transaction that is over has nothing left to commit.
LEMMA EndDecides ==
  ASSUME IInv, WritesAreDecided, NEW c \in Sessions, Commit(c) \/ Abort(c)
  PROVE  WritesAreDecided'
  <1>1. /\ now' = now /\ lock' = Release(c) /\ tx' = [tx EXCEPT ![c] = Idle]
        /\ \A s \in Steps : lock[s] # c => row'[s] = row[s] /\ draft'[s] = draft[s]
    BY DEF Commit, Abort
  <1>2. c # Null /\ now \in Nat /\ Idle.begun = 0 /\ Idle.picked = {}
    BY StepStoreAssumption DEF Idle, IInv, TypeOK
  <1>3. tx'[c] = Idle /\ \A d \in Sessions \ {c} : tx'[d] = tx[d]
    BY <1>1 DEF IInv, TypeOK
  <1> SUFFICES ASSUME NEW d \in Sessions
               PROVE  /\ tx'[d].begun <= now
                      /\ Cardinality(tx'[d].picked) <= Limit(tx'[d].op)
                      /\ \A s \in Changed(d)' :
                           /\ Decided(tx'[d].op, row'[s], draft'[s], s)
                           /\ IF tx'[d].op \in Sweeps THEN s \in tx'[d].picked
                                                     ELSE Changed(d)' = {s}
    BY <1>1 DEF WritesAreDecided, Decided, Limit
  <1>4. CASE d = c
    <2>1. \A s \in Steps : lock'[s] # c
      BY <1>1, <1>2 DEF Release
    <2>2. Changed(c)' = {}
      BY <2>1 DEF Changed
    <2> QED BY <1>2, <1>3, <1>4, <2>2, LimitInNat, FS_EmptySet
  <1>5. CASE d # c
    <2>1. \A s \in Steps : lock'[s] = d <=> lock[s] = d
      BY <1>1, <1>2, <1>5, StepStoreAssumption DEF Release
    <2>2. /\ Changed(d)' = Changed(d)
          /\ \A s \in Changed(d) : s \in Steps /\ row'[s] = row[s] /\ draft'[s] = draft[s]
      BY <1>1, <1>5, <2>1 DEF Changed
    <2> QED BY <1>3, <1>5, <2>2 DEF WritesAreDecided
  <1> QED BY <1>4, <1>5

\* Time passes: what the clock said of a row stays true.
LEMMA TickDecides ==
  ASSUME IInv, WritesAreDecided, Tick
  PROVE  WritesAreDecided'
  <1>1. /\ now \in Nat /\ now' = now + 1 /\ UNCHANGED <<row, draft, lock, tx>>
        /\ \A c \in Sessions : tx[c].begun \in Nat
    BY DEF Tick, IInv, TypeOK, Transaction
  <1>2. \A c \in Sessions : Changed(c)' = Changed(c)
    BY <1>1 DEF Changed
  <1>3. ASSUME NEW op, NEW s \in Steps, Decided(op, row[s], draft[s], s)
        PROVE  Decided(op, row[s], draft[s], s)'
    <2>1. /\ row[s].availableAt \in Nat /\ draft[s].availableAt \in Nat
          /\ row[s].status = "RUNNING" => row[s].deadline \in Nat
      BY DEF IInv, TypeOK, Row, RowsAreSound, RowShape
    <2>2. Backoff(row[s].attempts) \in Nat
      BY BackoffInNat DEF IInv, TypeOK, Row, Backoff
    <2>3. ASSUME draft[s].availableAt <= now + Backoff(row[s].attempts)
          PROVE  draft[s].availableAt <= now' + Backoff(row[s].attempts)
      BY <1>1, <2>1, <2>2, <2>3
    <2>4. draft[s].availableAt <= now + BackoffUnit * BackoffFactor(row[s].attempts) =>
            draft[s].availableAt <= now' + BackoffUnit * BackoffFactor(row[s].attempts)
      BY <2>3 DEF Backoff
    <2> DEFINE due == now + BackoffUnit * BackoffFactor(row[s].attempts)
               dueNext == now' + BackoffUnit * BackoffFactor(row[s].attempts)
    <2>5. row[s].availableAt <= now => row[s].availableAt <= now'
      BY <1>1, <2>1
    <2>6. op = "recover" /\ row[s].deadline <= now => row[s].deadline <= now'
      BY <1>1, <1>3, <2>1 DEF Decided
    <2> QED BY <1>1, <1>3, <2>4, <2>5, <2>6 DEF Decided
  <1>4. \A c \in Sessions : tx[c].begun <= now'
    BY <1>1 DEF WritesAreDecided
  <1> QED BY <1>1, <1>2, <1>3, <1>4 DEF WritesAreDecided, Limit, Changed

\* Each step keeps what the refinement needs.
LEMMA RefinementInvPreserved == RefinementInv /\ [Next]_vars => RefinementInv'
  <1> SUFFICES ASSUME IInv, WritesAreDecided, [Next]_vars PROVE WritesAreDecided'
    BY NextPreserves DEF RefinementInv
  <1>1. CASE Tick
    BY <1>1, TickDecides
  <1>2. ASSUME NEW c \in Sessions, Begin(c) PROVE WritesAreDecided'
    BY <1>2, BeginDecides
  <1>3. ASSUME NEW c \in Sessions,
               \/ LockRow(c) \/ SelectCandidate(c) \/ SkipLocked(c) \/ ClaimNothing(c) \/ Reject(c)
        PROVE  WritesAreDecided'
    BY <1>3, PassingDecides
  <1>4. ASSUME NEW c \in Sessions, LockCandidate(c) PROVE WritesAreDecided'
    BY <1>4, LockCandidateDecides
  <1>5. ASSUME NEW c \in Sessions, ClaimUpdate(c) PROVE WritesAreDecided'
    BY <1>5, ClaimUpdateDecides
  <1>6. ASSUME NEW c \in Sessions, OwnerStep(c) PROVE WritesAreDecided'
    BY <1>6, OwnerStepDecides
  <1>7. ASSUME NEW c \in Sessions, ResolveExpired(c) PROVE WritesAreDecided'
    BY <1>7, ResolveExpiredDecides
  <1>8. ASSUME NEW c \in Sessions, PromoteDue(c) PROVE WritesAreDecided'
    BY <1>8, PromoteDueDecides
  <1>9. ASSUME NEW c \in Sessions, Commit(c) \/ Abort(c) PROVE WritesAreDecided'
    BY <1>9, EndDecides
  <1>10. CASE UNCHANGED vars
    BY <1>10 DEF vars, WritesAreDecided, Decided, Limit, Changed
  <1> QED BY <1>1, <1>2, <1>3, <1>4, <1>5, <1>6, <1>7, <1>8, <1>9, <1>10, KindsOfSteps DEF Quiet

-----------------------------------------------------------------------------
(* The steps of the queue                                                  *)

LEMMA LeftInNat ==
  ASSUME NEW d \in Nat, now \in Nat
  PROVE  /\ Left(d) \in Nat
         /\ d <= now <=> Left(d) = 0
  BY DEF Left

LeaseLeft(r) == IF r.status = "RUNNING" THEN Left(r.deadline) ELSE 0

\* A row of the queue, by its fields.
View(status, owner, version, attempts, lease, wait, result) ==
  [status |-> status, owner |-> owner, version |-> version, attempts |-> attempts,
   leaseLeft |-> lease, waitLeft |-> wait, result |-> result]

LEMMA RowView ==
  ASSUME NEW r
  PROVE  QueueRowOf(r) = View(r.status, r.owner, r.version, r.attempts,
                              LeaseLeft(r), Left(r.availableAt), r.result)
  BY DEF QueueRowOf, LeaseLeft, View

LEMMA ViewFields ==
  ASSUME NEW a, NEW o, NEW v, NEW n, NEW l, NEW w, NEW r
  PROVE  /\ View(a, o, v, n, l, w, r).status = a
         /\ View(a, o, v, n, l, w, r).owner = o
         /\ View(a, o, v, n, l, w, r).version = v
         /\ View(a, o, v, n, l, w, r).attempts = n
         /\ View(a, o, v, n, l, w, r).leaseLeft = l
         /\ View(a, o, v, n, l, w, r).waitLeft = w
         /\ View(a, o, v, n, l, w, r).result = r
  BY DEF View

\* A queue row with one field replaced.
WithStatus(x, z) == [x EXCEPT !.status = z]
WithOwner(x, z)  == [x EXCEPT !.owner = z]
WithVersion(x, z) == [x EXCEPT !.version = z]
WithAttempts(x, z) == [x EXCEPT !.attempts = z]
WithLease(x, z)  == [x EXCEPT !.leaseLeft = z]
WithWait(x, z)   == [x EXCEPT !.waitLeft = z]
WithResult(x, z) == [x EXCEPT !.result = z]

LEMMA ViewUpdates ==
  ASSUME NEW a, NEW o, NEW v, NEW n, NEW l, NEW w, NEW r, NEW z
  PROVE  /\ WithStatus(View(a, o, v, n, l, w, r), z) = View(z, o, v, n, l, w, r)
         /\ WithOwner(View(a, o, v, n, l, w, r), z) = View(a, z, v, n, l, w, r)
         /\ WithVersion(View(a, o, v, n, l, w, r), z) = View(a, o, z, n, l, w, r)
         /\ WithAttempts(View(a, o, v, n, l, w, r), z) = View(a, o, v, z, l, w, r)
         /\ WithLease(View(a, o, v, n, l, w, r), z) = View(a, o, v, n, z, w, r)
         /\ WithWait(View(a, o, v, n, l, w, r), z) = View(a, o, v, n, l, z, r)
         /\ WithResult(View(a, o, v, n, l, w, r), z) = View(a, o, v, n, l, w, z)
  <1>1. WithStatus(View(a, o, v, n, l, w, r), z) = View(z, o, v, n, l, w, r)
    BY DEF View, WithStatus
  <1>2. WithOwner(View(a, o, v, n, l, w, r), z) = View(a, z, v, n, l, w, r)
    BY DEF View, WithOwner
  <1>3. WithVersion(View(a, o, v, n, l, w, r), z) = View(a, o, z, n, l, w, r)
    BY DEF View, WithVersion
  <1>4. WithAttempts(View(a, o, v, n, l, w, r), z) = View(a, o, v, z, l, w, r)
    BY DEF View, WithAttempts
  <1>5. WithLease(View(a, o, v, n, l, w, r), z) = View(a, o, v, n, z, w, r)
    BY DEF View, WithLease
  <1>6. WithWait(View(a, o, v, n, l, w, r), z) = View(a, o, v, n, l, z, r)
    BY DEF View, WithWait
  <1>7. WithResult(View(a, o, v, n, l, w, r), z) = View(a, o, v, n, l, w, z)
    BY DEF View, WithResult
  <1> QED BY <1>1, <1>2, <1>3, <1>4, <1>5, <1>6, <1>7

\* What the queue sees of a sound row.
LEMMA QueueRowShape ==
  ASSUME NEW s \in Steps, NEW r \in Row, now \in Nat, RowShape(r, s)
  PROVE  /\ LeaseLeft(r) \in 0 .. LeaseDuration
         /\ Left(r.availableAt) \in Nat
         /\ r.status # "RUNNING" => LeaseLeft(r) = 0
  <1>1. r.availableAt \in Nat /\ (r.status = "RUNNING" => r.deadline \in Nat)
    BY DEF Row, RowShape
  <1> QED BY <1>1, StepStoreAssumption DEF LeaseLeft, Left, RowShape

LEMMA InitMaps == Init => Queue!QueueInit
  <1> SUFFICES ASSUME Init, NEW s \in Steps
               PROVE  QueueRowOf(row[s]) =
                        [status |-> "READY", owner |-> Null, version |-> 0, attempts |-> 0,
                         leaseLeft |-> 0, waitLeft |-> InitAvailable[s], result |-> 0]
    BY DEF Queue!QueueInit
  <1>1. now = 0 /\ InitAvailable[s] \in Nat
    BY StepStoreAssumption DEF Init
  <1>2. Left(InitAvailable[s]) = InitAvailable[s]
    BY <1>1 DEF Left
  <1>3. row[s] = [status |-> "READY", owner |-> Null, version |-> 0, attempts |-> 0,
                  deadline |-> Null, availableAt |-> InitAvailable[s], result |-> 0]
    BY DEF Init
  <1> QED BY <1>2, <1>3 DEF QueueRowOf

LEMMA QuietMaps ==
  ASSUME UNCHANGED <<now, row>>
  PROVE  UNCHANGED [s \in Steps |-> QueueRowOf(row[s])]
  BY DEF QueueRowOf, Left

LEMMA TickMaps ==
  ASSUME IInv, Tick
  PROVE  Queue!Tick
  <1>1. now \in Nat /\ now' = now + 1 /\ row' = row
    BY DEF Tick, IInv, TypeOK
  <1>2. ASSUME NEW d \in Nat PROVE Left(d)' = Queue!Less(Left(d))
    BY <1>1 DEF Left, Queue!Less
  <1>3. ASSUME NEW s \in Steps
        PROVE  QueueRowOf(row[s])' =
                 [QueueRowOf(row[s]) EXCEPT !.leaseLeft = Queue!Less(@),
                                            !.waitLeft = Queue!Less(@)]
    <2> DEFINE r == row[s]
    <2>1. r.availableAt \in Nat /\ (r.status = "RUNNING" => r.deadline \in Nat)
      BY DEF IInv, TypeOK, Row, RowsAreSound, RowShape
    <2>2. Left(r.availableAt)' = Queue!Less(Left(r.availableAt))
      BY <1>1, <1>2, <2>1
    <2>3. LeaseLeft(r)' = Queue!Less(LeaseLeft(r))
      BY <1>1, <1>2, <2>1 DEF Queue!Less, LeaseLeft
    <2> DEFINE l == LeaseLeft(r)
               w == Left(r.availableAt)
               V(lease, wait) == View(r.status, r.owner, r.version, r.attempts,
                                      lease, wait, r.result)
    <2>4. QueueRowOf(r) = V(l, w)
      BY RowView
    <2>5. QueueRowOf(r)' = V(Queue!Less(l), Queue!Less(w))
      BY <1>1, <2>2, <2>3 DEF QueueRowOf, LeaseLeft, View
    <2>6. V(l, w).leaseLeft = l /\ V(l, w).waitLeft = w
      BY ViewFields
    <2>7. V(Queue!Less(l), Queue!Less(w)) =
            WithWait(WithLease(V(l, w), Queue!Less(l)), Queue!Less(w))
      BY ViewUpdates
    <2> HIDE DEF r, l, w, V
    <2>8. QueueRowOf(r)' = [QueueRowOf(r) EXCEPT !.leaseLeft = Queue!Less(@),
                                                 !.waitLeft = Queue!Less(@)]
      BY <2>4, <2>5, <2>6, <2>7 DEF WithWait, WithLease
    <2> QED BY <2>8 DEF r
  <1> QED BY <1>3 DEF Queue!Tick

\* A commit replaces, in the queue, exactly the rows it changed.
LEMMA CommitMaps ==
  ASSUME IInv, NEW c \in Sessions, Commit(c)
  PROVE  [s \in Steps |-> QueueRowOf(row[s])]' =
           [s \in Steps |-> IF s \in Changed(c) THEN QueueRowOf(draft[s])
                                                ELSE QueueRowOf(row[s])]
  <1>1. now' = now /\ row' = [s \in Steps |-> IF lock[s] = c THEN draft[s] ELSE row[s]]
    BY DEF Commit
  <1>2. ASSUME NEW s \in Steps
        PROVE  row'[s] = IF s \in Changed(c) THEN draft[s] ELSE row[s]
    BY <1>1 DEF Changed
  <1> QED BY <1>1, <1>2 DEF QueueRowOf, Left

\* Both versions of a changed row, as the queue sees them.
LEMMA ChangedRow ==
  ASSUME RefinementInv, NEW c \in Sessions, NEW s \in Changed(c)
  PROVE  /\ s \in Steps /\ row[s] \in Row /\ draft[s] \in Row /\ now \in Nat
         /\ RowShape(row[s], s) /\ RowShape(draft[s], s) /\ Follows(draft[s], row[s])
         /\ Decided(tx[c].op, row[s], draft[s], s) /\ tx[c].op \in {"claim"} \cup OwnerOps \cup Sweeps
  <1>1. s \in Steps /\ lock[s] = c
    BY DEF Changed
  <1>2. tx[c].op \in {"claim"} \cup OwnerOps \cup Sweeps
    BY <1>1, HolderIsActive DEF RefinementInv, IInv, TypeOK, Transaction
  <1> QED BY <1>1, <1>2 DEF RefinementInv, IInv, TypeOK, RowsAreSound, DraftsFollowRows,
                           WritesAreDecided

LEMMA OneRowMaps ==
  ASSUME RefinementInv, NEW c \in Sessions, Commit(c),
         NEW s \in Changed(c), Changed(c) = {s}
  PROVE  [u \in Steps |-> QueueRowOf(row[u])]' =
           [[u \in Steps |-> QueueRowOf(row[u])] EXCEPT ![s] = QueueRowOf(draft[s])]
  <1>1. s \in Steps
    BY ChangedRow
  <1>2. [u \in Steps |-> QueueRowOf(row[u])]' =
          [u \in Steps |-> IF u = s THEN QueueRowOf(draft[u]) ELSE QueueRowOf(row[u])]
    BY CommitMaps DEF RefinementInv
  <1> QED BY <1>1, <1>2

\* The commit of a claim is the queue's Claim.
LEMMA ClaimMaps ==
  ASSUME RefinementInv, NEW c \in Sessions, Commit(c), tx[c].op = "claim",
         NEW s \in Changed(c), Changed(c) = {s}
  PROVE  \E w \in Workers : Queue!Claim(s, w)
  <1> DEFINE w == draft[s].owner
             left == LeaseLeft(draft[s])
             old == QueueRowOf(row[s])
  <1>1. /\ s \in Steps /\ row[s] \in Row /\ draft[s] \in Row /\ now \in Nat
        /\ RowShape(row[s], s) /\ RowShape(draft[s], s)
        /\ Decided("claim", row[s], draft[s], s)
    BY ChangedRow
  <1>2. /\ row[s].status = "READY" /\ row[s].availableAt <= now
        /\ row[s].attempts < MaxAttempts[s] /\ draft[s].status = "RUNNING"
        /\ draft[s].version = row[s].version + 1 /\ draft[s].attempts = row[s].attempts + 1
        /\ draft[s].availableAt = row[s].availableAt /\ draft[s].result = row[s].result
    BY <1>1 DEF Decided, OwnerOps
  <1>3. w \in Workers /\ left \in 0 .. LeaseDuration
    BY <1>1, <1>2, QueueRowShape DEF RowShape
  <1>4. old.status = "READY" /\ old.attempts < MaxAttempts[s] /\ old.waitLeft = 0
        /\ old.version = row[s].version /\ old.attempts = row[s].attempts
    BY <1>1, <1>2, LeftInNat DEF QueueRowOf, Row
  <1> DEFINE V(a, o, v, n, l) == View(a, o, v, n, l, Left(row[s].availableAt), row[s].result)
             v1 == row[s].version + 1
             n1 == row[s].attempts + 1
  <1>5. old = V(row[s].status, row[s].owner, row[s].version, row[s].attempts, LeaseLeft(row[s]))
    BY RowView
  <1>6. QueueRowOf(draft[s]) = V("RUNNING", w, v1, n1, left)
    BY <1>2, RowView
  <1>7. V("RUNNING", w, v1, n1, left) =
          WithLease(WithAttempts(WithVersion(WithOwner(WithStatus(old, "RUNNING"), w), v1), n1),
                    left)
    BY <1>5, ViewUpdates
  <1>8. QueueRowOf(draft[s]) =
          [old EXCEPT !.status = "RUNNING", !.owner = w, !.version = v1,
                      !.attempts = n1, !.leaseLeft = left]
    <2> HIDE DEF V, old, w, left, v1, n1
    <2> QED BY <1>6, <1>7 DEF WithStatus, WithOwner, WithVersion, WithAttempts, WithLease
  <1>9. QueueRowOf(draft[s]) = Queue!Claimed(s, w, left)
    BY <1>1, <1>4, <1>8 DEF Queue!Claimed
  <1>10. Queue!Claim(s, w)
    <2> HIDE DEF left, w
    <2> QED BY <1>1, <1>3, <1>4, <1>9, OneRowMaps DEF Queue!Claim, Queue!CanClaim
  <1> QED BY <1>3, <1>10

\* The queue's view of a row its owner writes to.
LEMMA OwnerChanged ==
  ASSUME RefinementInv, NEW c \in Sessions, tx[c].op \in OwnerOps, NEW s \in Changed(c)
  PROVE  /\ s \in Steps /\ row[s] \in Row /\ draft[s] \in Row /\ now \in Nat
         /\ row[s].owner \in Workers
         /\ Queue!Owns(s, row[s].owner, row[s].version)
         /\ draft[s].version = row[s].version /\ draft[s].attempts = row[s].attempts
  <1>1. /\ s \in Steps /\ row[s] \in Row /\ draft[s] \in Row /\ now \in Nat
        /\ RowShape(row[s], s) /\ Decided(tx[c].op, row[s], draft[s], s)
    BY ChangedRow
  <1>2. row[s].status = "RUNNING" /\ tx[c].op # "claim"
    BY <1>1 DEF Decided, OwnerOps
  <1>3. QueueRowOf(row[s]).status = row[s].status /\ QueueRowOf(row[s]).owner = row[s].owner
        /\ QueueRowOf(row[s]).version = row[s].version
    BY RowView, ViewFields
  <1> QED BY <1>1, <1>2, <1>3 DEF RowShape, Decided, Queue!Owns

\* Vacating a row, by its fields.
LEMMA VacateView ==
  ASSUME NEW s \in Steps, NEW status
  PROVE  Queue!Vacate(s, status) =
           View(status, Null, row[s].version, row[s].attempts, 0,
                Left(row[s].availableAt), row[s].result)
  <1> DEFINE old == QueueRowOf(row[s])
             V == View(status, Null, row[s].version, row[s].attempts, 0,
                       Left(row[s].availableAt), row[s].result)
  <1>1. V = WithLease(WithOwner(WithStatus(old, status), Null), 0)
    BY RowView, ViewUpdates
  <1>2. Queue!Vacate(s, status) = [old EXCEPT !.status = status, !.owner = Null, !.leaseLeft = 0]
    BY DEF Queue!Vacate
  <1> HIDE DEF V, old
  <1>3. Queue!Vacate(s, status) = V
    BY <1>1, <1>2 DEF WithLease, WithOwner, WithStatus
  <1> QED BY <1>3 DEF V

\* What an owner's changed row looks like once it is nobody's.
LEMMA VacatedView ==
  ASSUME NEW s \in Steps, NEW r \in Row, now \in Nat, RowShape(r, s), r.status # "RUNNING"
  PROVE  QueueRowOf(r) = View(r.status, Null, r.version, r.attempts, 0,
                              Left(r.availableAt), r.result)
  <1>1. r.owner = Null /\ LeaseLeft(r) = 0
    BY DEF RowShape, LeaseLeft
  <1> QED BY <1>1, RowView

\* The commit of a renewal is the queue's Renew.
LEMMA RenewMaps ==
  ASSUME RefinementInv, NEW c \in Sessions, Commit(c), tx[c].op = "renew",
         NEW s \in Changed(c), Changed(c) = {s}
  PROVE  \E w \in Workers : Queue!Renew(s, w, row[s].version)
  <1> DEFINE w == row[s].owner
             left == LeaseLeft(draft[s])
             old == QueueRowOf(row[s])
             new == QueueRowOf(draft[s])
  <1>1. /\ s \in Steps /\ row[s] \in Row /\ draft[s] \in Row /\ now \in Nat
        /\ RowShape(row[s], s) /\ RowShape(draft[s], s) /\ Follows(draft[s], row[s])
        /\ Decided("renew", row[s], draft[s], s) /\ draft[s] # row[s]
    BY ChangedRow DEF Changed
  <1>2. w \in Workers /\ Queue!Owns(s, w, row[s].version)
    BY OwnerChanged DEF OwnerOps
  <1>3. /\ row[s].status = "RUNNING" /\ draft[s].status = "RUNNING"
        /\ draft[s].owner = w /\ draft[s].version = row[s].version
        /\ draft[s].attempts = row[s].attempts /\ draft[s].result = row[s].result
        /\ draft[s].availableAt = row[s].availableAt
    BY <1>1 DEF Decided, OwnerOps
  <1>4. left \in old.leaseLeft .. LeaseDuration
    <2>1. row[s].deadline \in Nat /\ draft[s].deadline \in Nat
          /\ draft[s].deadline >= row[s].deadline
      BY <1>1, <1>3 DEF RowShape, Follows
    <2>2. old.leaseLeft = LeaseLeft(row[s])
      BY RowView, ViewFields
    <2>3. LeaseLeft(row[s]) <= left
      BY <1>1, <1>3, <2>1 DEF LeaseLeft, Left
    <2>4. left \in 0 .. LeaseDuration /\ LeaseLeft(row[s]) \in 0 .. LeaseDuration
      BY <1>1, QueueRowShape
    <2> HIDE DEF left, old
    <2> QED BY <2>2, <2>3, <2>4, StepStoreAssumption
  <1>5. new = WithLease(old, left)
    BY <1>3, RowView, ViewUpdates
  <1>6. new = [old EXCEPT !.leaseLeft = left]
    <2> HIDE DEF new, old, left
    <2> QED BY <1>5 DEF WithLease
  <1>7. [u \in Steps |-> QueueRowOf(row[u])]' =
          [[u \in Steps |-> QueueRowOf(row[u])] EXCEPT ![s] = new]
    BY OneRowMaps
  <1>8. Queue!Renew(s, w, row[s].version)
    <2> HIDE DEF new, left, w
    <2> QED BY <1>1, <1>2, <1>4, <1>6, <1>7 DEF Queue!Renew
  <1> QED BY <1>2, <1>8

\* The commit of a completion is the queue's Complete.
LEMMA CompleteMaps ==
  ASSUME RefinementInv, NEW c \in Sessions, Commit(c), tx[c].op = "complete",
         NEW s \in Changed(c), Changed(c) = {s}
  PROVE  \E w \in Workers : Queue!Complete(s, w, row[s].version)
  <1> DEFINE w == row[s].owner
             v == row[s].version
             new == QueueRowOf(draft[s])
             vacated == Queue!Vacate(s, "SUCCEEDED")
  <1>1. /\ s \in Steps /\ draft[s] \in Row /\ now \in Nat /\ RowShape(draft[s], s)
        /\ Decided("complete", row[s], draft[s], s)
    BY ChangedRow
  <1>2. w \in Workers /\ Queue!Owns(s, w, v)
    BY OwnerChanged DEF OwnerOps
  <1>3. /\ draft[s].status = "SUCCEEDED" /\ draft[s].version = v
        /\ draft[s].attempts = row[s].attempts /\ draft[s].result = v
        /\ draft[s].availableAt = row[s].availableAt
    BY <1>1 DEF Decided, OwnerOps
  <1>4. new = View("SUCCEEDED", Null, v, row[s].attempts, 0, Left(row[s].availableAt), v)
    BY <1>1, <1>3, VacatedView
  <1>5. new = WithResult(vacated, v)
    BY <1>1, <1>4, VacateView, ViewUpdates
  <1>6. new = [vacated EXCEPT !.result = v]
    <2> HIDE DEF new, vacated, v
    <2> QED BY <1>5 DEF WithResult
  <1>7. [u \in Steps |-> QueueRowOf(row[u])]' =
          [[u \in Steps |-> QueueRowOf(row[u])] EXCEPT ![s] = new]
    BY OneRowMaps
  <1>8. Queue!Complete(s, w, v)
    <2> HIDE DEF new, w, v
    <2> QED BY <1>2, <1>6, <1>7 DEF Queue!Complete
  <1> QED BY <1>2, <1>8

LEMMA SameBackoff == \A n : Queue!BackoffFactor(n) = BackoffFactor(n)
  BY DEF Queue!BackoffFactor, BackoffFactor

\* The commit of a failure is the queue's Retry or GiveUp.
LEMMA FailMaps ==
  ASSUME RefinementInv, NEW c \in Sessions, Commit(c), tx[c].op = "fail",
         NEW s \in Changed(c), Changed(c) = {s}
  PROVE  \E w \in Workers : \/ Queue!Retry(s, w, row[s].version)
                            \/ Queue!GiveUp(s, w, row[s].version)
  <1> DEFINE w == row[s].owner
             v == row[s].version
             n == row[s].attempts
             new == QueueRowOf(draft[s])
  <1>1. /\ s \in Steps /\ row[s] \in Row /\ draft[s] \in Row /\ now \in Nat
        /\ RowShape(draft[s], s) /\ Decided("fail", row[s], draft[s], s)
    BY ChangedRow
  <1>2. w \in Workers /\ Queue!Owns(s, w, v)
    BY OwnerChanged DEF OwnerOps
  <1>3. /\ draft[s].version = v /\ draft[s].attempts = n /\ draft[s].result = row[s].result
        /\ \/ /\ draft[s].status = "DEAD_LETTERED"
              /\ draft[s].availableAt = row[s].availableAt
           \/ /\ draft[s].status = "RETRY_WAIT" /\ n < MaxAttempts[s]
              /\ draft[s].availableAt <= now + Backoff(n)
    BY <1>1 DEF Decided, OwnerOps, Backoff
  <1>4. [u \in Steps |-> QueueRowOf(row[u])]' =
          [[u \in Steps |-> QueueRowOf(row[u])] EXCEPT ![s] = new]
    BY OneRowMaps
  <1>5. CASE draft[s].status = "DEAD_LETTERED" /\ draft[s].availableAt = row[s].availableAt
    <2>1. new = Queue!Vacate(s, "DEAD_LETTERED")
      BY <1>1, <1>3, <1>5, VacatedView, VacateView
    <2>2. Queue!GiveUp(s, w, v)
      <3> HIDE DEF new, w, v
      <3> QED BY <1>2, <1>4, <2>1 DEF Queue!GiveUp
    <2> QED BY <1>2, <2>2
  <1>6. CASE /\ draft[s].status = "RETRY_WAIT" /\ n < MaxAttempts[s]
             /\ draft[s].availableAt <= now + Backoff(n)
    <2> DEFINE left == Left(draft[s].availableAt)
               vacated == Queue!Vacate(s, "RETRY_WAIT")
    <2>1. new = View("RETRY_WAIT", Null, v, n, 0, left, row[s].result)
      BY <1>1, <1>3, <1>6, VacatedView
    <2>2. new = WithWait(vacated, left)
      BY <1>1, <2>1, VacateView, ViewUpdates
    <2>3. new = [vacated EXCEPT !.waitLeft = left]
      <3> HIDE DEF new, vacated, left
      <3> QED BY <2>2 DEF WithWait
    <2>4. left \in 0 .. Backoff(n)
      <3>1. Backoff(n) \in Nat /\ draft[s].availableAt \in Nat
        BY <1>1, BackoffInNat DEF Row, Backoff
      <3> QED BY <1>1, <1>6, <3>1 DEF Left
    <2>5. QueueRowOf(row[s]).attempts = n
      BY RowView, ViewFields
    <2>6. left \in 0 .. BackoffUnit * Queue!BackoffFactor(QueueRowOf(row[s]).attempts)
      BY <2>4, <2>5, SameBackoff DEF Backoff
    <2>7. Queue!Retry(s, w, v)
      <3> HIDE DEF new, w, v, left
      <3> QED BY <1>1, <1>2, <1>4, <1>6, <2>3, <2>5, <2>6 DEF Queue!Retry
    <2> QED BY <1>2, <2>7
  <1> QED BY <1>3, <1>5, <1>6

LEMMA SameCardinality == \A S : Queue!Cardinality(S) = Cardinality(S)
  BY DEF Queue!Cardinality, Cardinality

\* The rows of a sweep's commit are a batch.
LEMMA SweepBatch ==
  ASSUME RefinementInv, NEW c \in Sessions, tx[c].op \in Sweeps, Changed(c) # {}
  PROVE  Changed(c) \in Queue!Batches
  <1>1. Changed(c) \subseteq tx[c].picked /\ tx[c].picked \in SUBSET Steps
    BY DEF RefinementInv, WritesAreDecided, IInv, TypeOK, Transaction
  <1>2. Cardinality(tx[c].picked) <= BatchLimit
    BY DEF RefinementInv, WritesAreDecided, Limit, Sweeps
  <1>3. IsFiniteSet(tx[c].picked)
    BY <1>1, FS_Subset, StepStoreAssumption
  <1>4. /\ Cardinality(Changed(c)) <= Cardinality(tx[c].picked)
        /\ Cardinality(Changed(c)) \in Nat /\ Cardinality(tx[c].picked) \in Nat
    BY <1>1, <1>3, FS_Subset, FS_CardinalityType
  <1>5. Cardinality(Changed(c)) <= BatchLimit
    BY <1>2, <1>4, StepStoreAssumption
  <1>6. Changed(c) \in SUBSET Steps
    BY DEF Changed
  <1> QED BY <1>5, <1>6, SameCardinality DEF Queue!Batches

\* The commit of a recovery sweep is the queue's Recover.
LEMMA RecoverMaps ==
  ASSUME RefinementInv, NEW c \in Sessions, Commit(c), tx[c].op = "recover"
  PROVE  Queue!Recover(Changed(c))
  <1>1. ASSUME NEW s \in Changed(c)
        PROVE  /\ QueueRowOf(row[s]).status = "RUNNING" /\ QueueRowOf(row[s]).leaseLeft = 0
               /\ QueueRowOf(draft[s]) =
                    Queue!Vacate(s, IF QueueRowOf(row[s]).attempts < MaxAttempts[s]
                                    THEN "READY" ELSE "DEAD_LETTERED")
    <2>1. /\ s \in Steps /\ row[s] \in Row /\ draft[s] \in Row /\ now \in Nat
          /\ RowShape(row[s], s) /\ RowShape(draft[s], s)
          /\ Decided("recover", row[s], draft[s], s)
      BY ChangedRow
    <2>2. /\ row[s].status = "RUNNING" /\ row[s].deadline <= now /\ row[s].deadline \in Nat
          /\ draft[s].status = IF row[s].attempts < MaxAttempts[s] THEN "READY" ELSE "DEAD_LETTERED"
          /\ draft[s].version = row[s].version /\ draft[s].attempts = row[s].attempts
          /\ draft[s].availableAt = row[s].availableAt /\ draft[s].result = row[s].result
      BY <2>1 DEF Decided, OwnerOps, RowShape
    <2>3. QueueRowOf(row[s]).status = "RUNNING" /\ QueueRowOf(row[s]).attempts = row[s].attempts
          /\ QueueRowOf(row[s]).leaseLeft = LeaseLeft(row[s])
      BY <2>2, RowView, ViewFields
    <2>4. LeaseLeft(row[s]) = 0
      BY <2>1, <2>2, LeftInNat DEF LeaseLeft
    <2>5. draft[s].status # "RUNNING"
      BY <2>2
    <2>6. QueueRowOf(draft[s]) = Queue!Vacate(s, draft[s].status)
      BY <2>1, <2>2, <2>5, VacatedView, VacateView
    <2> QED BY <2>2, <2>3, <2>4, <2>6
  <1>2. Changed(c) \subseteq Steps
    BY DEF Changed
  <1>3. [s \in Steps |-> QueueRowOf(row[s])]' =
          [s \in Steps |-> IF s \in Changed(c) THEN QueueRowOf(draft[s])
                                               ELSE QueueRowOf(row[s])]
    BY CommitMaps DEF RefinementInv
  <1> QED BY <1>1, <1>2, <1>3 DEF Queue!Recover

\* The commit of a promotion sweep is the queue's Promote.
LEMMA PromoteMaps ==
  ASSUME RefinementInv, NEW c \in Sessions, Commit(c), tx[c].op = "promote"
  PROVE  Queue!Promote(Changed(c))
  <1>1. ASSUME NEW s \in Changed(c)
        PROVE  /\ QueueRowOf(row[s]).status = "RETRY_WAIT" /\ QueueRowOf(row[s]).waitLeft = 0
               /\ QueueRowOf(draft[s]) = [QueueRowOf(row[s]) EXCEPT !.status = "READY"]
    <2>1. /\ s \in Steps /\ row[s] \in Row /\ draft[s] \in Row /\ now \in Nat
          /\ RowShape(row[s], s) /\ RowShape(draft[s], s)
          /\ Decided("promote", row[s], draft[s], s)
      BY ChangedRow
    <2>2. /\ row[s].status = "RETRY_WAIT" /\ row[s].availableAt <= now
          /\ row[s].availableAt \in Nat /\ draft[s].status = "READY"
          /\ draft[s].version = row[s].version /\ draft[s].attempts = row[s].attempts
          /\ draft[s].availableAt = row[s].availableAt /\ draft[s].result = row[s].result
      BY <2>1 DEF Decided, OwnerOps, Row
    <2>3. QueueRowOf(row[s]).status = "RETRY_WAIT"
          /\ QueueRowOf(row[s]).waitLeft = Left(row[s].availableAt)
      BY <2>2, RowView, ViewFields
    <2>4. Left(row[s].availableAt) = 0
      BY <2>1, <2>2, LeftInNat
    <2>5. /\ QueueRowOf(row[s]) = View("RETRY_WAIT", Null, row[s].version, row[s].attempts, 0,
                                       Left(row[s].availableAt), row[s].result)
          /\ QueueRowOf(draft[s]) = View("READY", Null, row[s].version, row[s].attempts, 0,
                                         Left(row[s].availableAt), row[s].result)
      BY <2>1, <2>2, VacatedView
    <2>6. QueueRowOf(draft[s]) = WithStatus(QueueRowOf(row[s]), "READY")
      BY <2>5, ViewUpdates
    <2> QED BY <2>3, <2>4, <2>6 DEF WithStatus
  <1>2. Changed(c) \subseteq Steps
    BY DEF Changed
  <1>3. [s \in Steps |-> QueueRowOf(row[s])]' =
          [s \in Steps |-> IF s \in Changed(c) THEN QueueRowOf(draft[s])
                                               ELSE QueueRowOf(row[s])]
    BY CommitMaps DEF RefinementInv
  <1> QED BY <1>1, <1>2, <1>3 DEF Queue!Promote

-----------------------------------------------------------------------------
(* The theorem                                                             *)

LEMMA CommitIsQueueStep ==
  ASSUME RefinementInv, NEW c \in Sessions, Commit(c)
  PROVE  [Queue!QueueNext]_[s \in Steps |-> QueueRowOf(row[s])]
  <1> DEFINE Step == Queue!QueueNext
  <1>1. CASE Changed(c) = {}
    <2>1. [s \in Steps |-> QueueRowOf(row[s])]' =
            [s \in Steps |-> IF s \in Changed(c) THEN QueueRowOf(draft[s])
                                                 ELSE QueueRowOf(row[s])]
      BY CommitMaps DEF RefinementInv
    <2>2. UNCHANGED [s \in Steps |-> QueueRowOf(row[s])]
      BY <1>1, <2>1
    <2> QED BY <2>2
  <1>2. CASE Changed(c) # {} /\ tx[c].op \in Sweeps
    <2>1. Changed(c) \in Queue!Batches
      BY <1>2, SweepBatch
    <2>2. Queue!Recover(Changed(c)) \/ Queue!Promote(Changed(c))
      BY <1>2, RecoverMaps, PromoteMaps DEF Sweeps
    <2> QED BY <2>1, <2>2 DEF Queue!QueueNext
  <1>3. CASE Changed(c) # {} /\ tx[c].op \notin Sweeps
    <2>1. PICK s \in Changed(c) : TRUE
      BY <1>3
    <2>2. Changed(c) = {s}
      BY <1>3 DEF RefinementInv, WritesAreDecided
    <2>3. s \in Steps /\ tx[c].op \in {"claim"} \cup OwnerOps
      BY <1>3, ChangedRow
    <2>4. QueueRowOf(row[s]).version = row[s].version
      BY RowView, ViewFields
    <2>5. CASE tx[c].op = "claim"
      <3>1. \E w \in Workers : Queue!Claim(s, w)
        BY <2>2, <2>5, ClaimMaps
      <3> QED BY <2>3, <3>1 DEF Queue!QueueNext
    <2>6. CASE tx[c].op \in OwnerOps
      <3>1. \E w \in Workers :
              LET v == row[s].version
              IN  Queue!Renew(s, w, v) \/ Queue!Complete(s, w, v)
                  \/ Queue!Retry(s, w, v) \/ Queue!GiveUp(s, w, v)
        BY <2>2, <2>6, RenewMaps, CompleteMaps, FailMaps DEF OwnerOps
      <3> QED BY <2>3, <2>4, <3>1 DEF Queue!QueueNext
    <2> QED BY <2>3, <2>5, <2>6
  <1> QED BY <1>1, <1>2, <1>3

LEMMA NextMaps ==
  RefinementInv /\ [Next]_vars => [Queue!QueueNext]_[s \in Steps |-> QueueRowOf(row[s])]
  <1> SUFFICES ASSUME RefinementInv, [Next]_vars
               PROVE  [Queue!QueueNext]_[s \in Steps |-> QueueRowOf(row[s])]
    OBVIOUS
  <1>1. CASE Tick
    BY <1>1, TickMaps DEF RefinementInv, Queue!QueueNext
  <1>2. ASSUME NEW c \in Sessions, Commit(c)
        PROVE  [Queue!QueueNext]_[s \in Steps |-> QueueRowOf(row[s])]
    BY <1>2, CommitIsQueueStep
  <1>3. CASE UNCHANGED <<now, row>>
    BY <1>3, QuietMaps
  <1>4. Quiet => Tick \/ UNCHANGED <<now, row>>
    BY DEF Quiet, Begin, BeginClaim, BeginSweep, BeginOwnerWrite, LockRow, SelectCandidate,
           SkipLocked, LockCandidate, ClaimNothing, Reject, vars
  <1>5. ASSUME NEW c \in Sessions,
               \/ ClaimUpdate(c) \/ OwnerStep(c) \/ ResolveExpired(c) \/ PromoteDue(c) \/ Abort(c)
        PROVE  UNCHANGED <<now, row>>
    BY <1>5 DEF ClaimUpdate, OwnerStep, Renew, Complete, Fail, OwnerWrite, ResolveExpired,
                PromoteDue, Abort
  <1> QED BY <1>1, <1>2, <1>3, <1>4, <1>5, KindsOfSteps

\* What every transaction is about to commit was decided under its row locks:
\* the invariant behind the refinement.
THEOREM RefinementInvariance == Spec => []RefinementInv
  <1>1. Init => RefinementInv
    BY InitEstablishes, InitDecidesNothing DEF RefinementInv
  <1> QED BY <1>1, RefinementInvPreserved, PTL DEF Spec

\* The steps table, with its transactions, locks, snapshots and aborts, is the
\* atomic queue: each commit is one operation of the queue, and every other
\* step of a transaction is invisible.
THEOREM StoreImplementsQueue == Spec => ImplementsQueue
  <1>1. Init => Queue!QueueInit
    BY InitMaps
  <1> QED BY <1>1, NextMaps, RefinementInvariance, PTL DEF Spec, ImplementsQueue, Queue!QueueSpec

-----------------------------------------------------------------------------
(* The history explains the row                                            *)

LEMMA ClaimsInNat ==
  ASSUME NEW h, NEW i \in Nat
  PROVE  Claims(h, i) \in Nat
  <1>1. IsFiniteSet(1 .. i)
    BY FS_Interval
  <1>2. IsFiniteSet({j \in 1 .. i : h[j].type = "STEP_CLAIMED"})
    BY <1>1, FS_Subset
  <1> QED BY <1>2, FS_CardinalityType DEF Claims

\* A longer history tells the same of its first events.
LEMMA AppendKeepsPast ==
  ASSUME NEW h \in Seq(Event), NEW e \in Event, NEW i \in 0 .. Len(h)
  PROVE  /\ StatusAt(Append(h, e), i) = StatusAt(h, i)
         /\ Claims(Append(h, e), i) = Claims(h, i)
  <1> HIDE DEF Event
  <1>1. Len(h) \in Nat /\ \A j \in 1 .. Len(h) : Append(h, e)[j] = h[j]
    BY AppendProperties
  <1>2. \A j \in 1 .. i : j \in 1 .. Len(h)
    BY <1>1
  <1>3. {j \in 1 .. i : Append(h, e)[j].type = "STEP_CLAIMED"}
          = {j \in 1 .. i : h[j].type = "STEP_CLAIMED"}
    BY <1>1, <1>2
  <1>4. i # 0 => Append(h, e)[i] = h[i]
    BY <1>1
  <1> QED BY <1>3, <1>4 DEF StatusAt, Claims

\* The new event is the history's last.
LEMMA AppendAddsLast ==
  ASSUME NEW h \in Seq(Event), NEW e \in Event
  PROVE  /\ Len(Append(h, e)) = Len(h) + 1
         /\ Append(h, e)[Len(h) + 1] = e
         /\ StatusAt(Append(h, e), Len(h) + 1) = StatusAfter(e.type)
         /\ Claims(Append(h, e), Len(h) + 1)
              = Claims(h, Len(h)) + (IF e.type = "STEP_CLAIMED" THEN 1 ELSE 0)
  <1> HIDE DEF Event
  <1> DEFINE n == Len(h)
             g == Append(h, e)
             Past == {j \in 1 .. n : h[j].type = "STEP_CLAIMED"}
             Now == {j \in 1 .. (n + 1) : g[j].type = "STEP_CLAIMED"}
  <1>1. /\ n \in Nat /\ Len(g) = n + 1 /\ g[n + 1] = e
        /\ \A j \in 1 .. n : g[j] = h[j]
    BY AppendProperties
  <1>2. StatusAt(g, n + 1) = StatusAfter(e.type)
    BY <1>1 DEF StatusAt
  <1>3. IsFiniteSet(Past)
    <2>1. IsFiniteSet(1 .. n)
      BY <1>1, FS_Interval
    <2> QED BY <2>1, FS_Subset
  <1>4. n + 1 \notin Past
    BY <1>1
  <1>5. CASE e.type = "STEP_CLAIMED"
    <2>1. Now = Past \cup {n + 1}
      BY <1>1, <1>5
    <2>2. Cardinality(Past \cup {n + 1}) = Cardinality(Past) + 1
      BY <1>3, <1>4, FS_AddElement
    <2> QED BY <1>1, <1>2, <1>5, <2>1, <2>2 DEF Claims
  <1>6. CASE e.type # "STEP_CLAIMED"
    <2>1. Now = Past
      BY <1>1, <1>6
    <2>2. Claims(g, n + 1) = Claims(h, n)
      BY <1>1, <2>1 DEF Claims
    <2>3. Claims(h, n) \in Nat
      BY <1>1, ClaimsInNat
    <2> QED BY <1>1, <1>2, <1>6, <2>2, <2>3
  <1> QED BY <1>5, <1>6

\* What a history says of the row it belongs to.
Explains(h, r) ==
  /\ IsLegalHistory(h)
  /\ r.status = StatusAt(h, Len(h))
  /\ r.version = Claims(h, Len(h))
  /\ r.attempts = Claims(h, Len(h))
  /\ r.result = IF r.status = "SUCCEEDED" THEN Claims(h, Len(h)) ELSE 0

\* A row and the event that records its change extend a history that explained
\* the row before.
LEMMA AppendExplains ==
  ASSUME NEW h \in Seq(Event), NEW e \in Event, NEW old, NEW new,
         Explains(h, old), Records(e, old, new), GenerationsAgree(new)
  PROVE  Explains(Append(h, e), new)
  <1> HIDE DEF Event
  <1> DEFINE n == Len(h)
             g == Append(h, e)
  <1>1. n \in Nat /\ Len(g) = n + 1 /\ g[n + 1] = e /\ \A i \in 1 .. n : g[i] = h[i]
    BY AppendProperties
  <1>2. /\ StatusAt(g, n + 1) = new.status /\ Claims(g, n + 1) = new.version
        /\ new.version = e.version /\ new.attempts = e.attempts /\ new.attempts = new.version
    BY AppendAddsLast DEF Records, GenerationsAgree, Explains
  <1>3. StatusAt(g, n) = old.status
    BY <1>1, AppendKeepsPast DEF Explains
  <1>4. IsLegalHistory(g)
    <2> SUFFICES ASSUME NEW i \in 1 .. (n + 1)
                 PROVE  /\ IsLegal(StatusAt(g, i - 1), StatusAt(g, i))
                        /\ g[i].version = Claims(g, i)
                        /\ g[i].attempts = Claims(g, i)
      BY <1>1 DEF IsLegalHistory
    <2>1. CASE i = n + 1
      BY <1>1, <1>2, <1>3, <2>1 DEF Records
    <2>2. CASE i \in 1 .. n
      <3>1. i \in 0 .. n /\ i - 1 \in 0 .. n
        BY <1>1, <2>2
      <3>2. /\ IsLegal(StatusAt(h, i - 1), StatusAt(h, i))
            /\ h[i].version = Claims(h, i) /\ h[i].attempts = Claims(h, i)
        BY <2>2 DEF Explains, IsLegalHistory
      <3>3. StatusAt(g, i - 1) = StatusAt(h, i - 1)
        BY <3>1, AppendKeepsPast
      <3>4. StatusAt(g, i) = StatusAt(h, i) /\ Claims(g, i) = Claims(h, i)
        BY <3>1, AppendKeepsPast
      <3> QED BY <1>1, <2>2, <3>2, <3>3, <3>4
    <2> QED BY <1>1, <2>1, <2>2
  <1> QED BY <1>1, <1>2, <1>4 DEF Explains, GenerationsAgree

-----------------------------------------------------------------------------
(* Uncommitted events record uncommitted changes                            *)

\* A step that writes nothing leaves every transaction that has written where
\* it was.
LEMMA QuietKeepsWriters ==
  ASSUME IInv, Quiet, NEW s \in Steps, note[s] # Null
  PROVE  lock'[s] = lock[s] /\ tx'[lock[s]] = tx[lock[s]]
  <1>1. lock[s] \in Sessions /\ tx[lock[s]].at = "commit" /\ tx[lock[s]].op # "idle"
    BY HolderIsActive DEF IInv, TypeOK, DraftsAreLocked
  <1>2. CASE Tick \/ UNCHANGED vars
    BY <1>2 DEF Tick, vars
  <1>3. ASSUME NEW c \in Sessions, Begin(c) PROVE lock'[s] = lock[s] /\ tx'[lock[s]] = tx[lock[s]]
    <2>1. tx[c].op = "idle" /\ lock' = lock
      BY <1>3 DEF Begin, BeginClaim, BeginSweep, BeginOwnerWrite
    <2>2. \E t : tx' = [tx EXCEPT ![c] = t]
      BY <1>3 DEF Begin, BeginClaim, BeginSweep, BeginOwnerWrite
    <2> QED BY <1>1, <2>1, <2>2 DEF IInv, TypeOK
  <1>4. ASSUME NEW c \in Sessions,
               \/ LockRow(c) \/ SelectCandidate(c) \/ SkipLocked(c)
               \/ LockCandidate(c) \/ ClaimNothing(c) \/ Reject(c)
        PROVE  lock'[s] = lock[s] /\ tx'[lock[s]] = tx[lock[s]]
    <2>1. tx[c].at \in {"select", "visit", "lock", "authorize"}
      BY <1>4 DEF LockRow, SelectCandidate, SkipLocked, LockCandidate, ClaimNothing, Reject,
                  ScanDone
    <2>2. /\ \A d \in Sessions : d # c => tx'[d] = tx[d]
          /\ lock' = lock \/ \E u \in Steps \cup {tx[c].step} : lock[u] = Null /\ lock' = [lock EXCEPT ![u] = c]
      <3>1. CASE LockRow(c)
        BY <3>1 DEF LockRow, IInv, TypeOK
      <3>2. CASE SelectCandidate(c)
        BY <3>2 DEF SelectCandidate, IInv, TypeOK
      <3>3. CASE SkipLocked(c)
        BY <3>3 DEF SkipLocked, IInv, TypeOK
      <3>4. CASE LockCandidate(c)
        BY <3>4 DEF LockCandidate, IInv, TypeOK
      <3>5. CASE ClaimNothing(c) \/ Reject(c)
        BY <3>5 DEF ClaimNothing, Reject, IInv, TypeOK
      <3> QED BY <1>4, <3>1, <3>2, <3>3, <3>4, <3>5
    <2>3. lock[s] # c /\ lock[s] # Null
      BY <1>1, <2>1, StepStoreAssumption
    <2> QED BY <1>1, <2>2, <2>3 DEF IInv, TypeOK
  <1> QED BY <1>2, <1>3, <1>4 DEF Quiet

\* What NotesExplainDrafts says of one step.
NoteExplains(s) ==
  /\ GenerationsAgree(row[s]) /\ GenerationsAgree(draft[s])
  /\ IF note[s] = Null
     THEN draft[s].status = row[s].status /\ draft[s].version = row[s].version
     ELSE /\ Records(note[s], row[s], draft[s])
          /\ tx[lock[s]].op \in OwnerOps => note[s].version = tx[lock[s]].version

LEMMA InitExplains == Init => NotesExplainDrafts /\ HistoryExplainsRow
  <1> SUFFICES ASSUME Init, NEW s \in Steps
               PROVE  NoteExplains(s) /\ Explains(history[s], row[s])
    BY DEF NotesExplainDrafts, HistoryExplainsRow, NoteExplains, Explains
  <1>1. /\ row[s].status = "READY" /\ row[s].version = 0 /\ row[s].attempts = 0
        /\ row[s].result = 0 /\ draft[s] = row[s] /\ note[s] = Null /\ history[s] = << >>
    BY DEF Init
  <1>2. Claims(<< >>, 0) = 0
    <2>1. {j \in 1 .. 0 : << >>[j].type = "STEP_CLAIMED"} = {}
      OBVIOUS
    <2> QED BY <2>1, FS_EmptySet DEF Claims
  <1>3. Explains(<< >>, row[s])
    BY <1>1, <1>2 DEF Explains, IsLegalHistory, StatusAt
  <1> QED BY <1>1, <1>3 DEF NoteExplains, GenerationsAgree

LEMMA QuietExplains ==
  ASSUME IInv, NotesExplainDrafts, HistoryExplainsRow, Quiet
  PROVE  (NotesExplainDrafts /\ HistoryExplainsRow)'
  <1>1. UNCHANGED <<row, history, draft, note>>
    BY QuietSteps
  <1>2. HistoryExplainsRow'
    BY <1>1 DEF HistoryExplainsRow
  <1>3. NotesExplainDrafts'
    BY <1>1, QuietKeepsWriters DEF NotesExplainDrafts
  <1> QED BY <1>2, <1>3

\* A transaction that writes leaves the rows it does not write as they are, and
\* records what it does to the others.
LEMMA WriteExplains ==
  ASSUME IInv, NotesExplainDrafts, HistoryExplainsRow, NEW c \in Sessions,
         UNCHANGED <<row, history, lock>>, tx' = [tx EXCEPT ![c].at = "commit"],
         \A s \in Steps :
           \/ draft'[s] = draft[s] /\ note'[s] = note[s]
           \/ /\ lock[s] = c /\ GenerationsAgree(draft'[s])
              /\ IF note'[s] = Null
                 THEN draft'[s].status = row[s].status /\ draft'[s].version = row[s].version
                 ELSE /\ Records(note'[s], row[s], draft'[s])
                      /\ tx[c].op \in OwnerOps => note'[s].version = tx[c].version
  PROVE  (NotesExplainDrafts /\ HistoryExplainsRow)'
  <1>1. HistoryExplainsRow'
    BY DEF HistoryExplainsRow
  <1>2. \A d \in Sessions : tx'[d].op = tx[d].op /\ tx'[d].version = tx[d].version
    BY DEF IInv, TypeOK, Transaction
  <1>3. ASSUME NEW s \in Steps PROVE NoteExplains(s)'
    <2>1. NoteExplains(s) /\ (note[s] # Null => lock[s] \in Sessions)
      BY DEF NotesExplainDrafts, NoteExplains, IInv, TypeOK, DraftsAreLocked
    <2>2. CASE draft'[s] = draft[s] /\ note'[s] = note[s]
      BY <1>2, <2>1, <2>2 DEF NoteExplains
    <2>3. CASE ~(draft'[s] = draft[s] /\ note'[s] = note[s])
      BY <1>2, <2>1, <2>3 DEF NoteExplains
    <2> QED BY <2>2, <2>3
  <1> QED BY <1>1, <1>3 DEF NotesExplainDrafts, NoteExplains

\* The end of a transaction makes its drafts and its events the truth, or drops
\* them.
LEMMA EndExplains ==
  ASSUME IInv, NotesExplainDrafts, HistoryExplainsRow, NEW c \in Sessions,
         Commit(c) \/ Abort(c)
  PROVE  (NotesExplainDrafts /\ HistoryExplainsRow)'
  <1> SUFFICES ASSUME NEW s \in Steps
               PROVE  NoteExplains(s)' /\ Explains(history'[s], row'[s])
    BY DEF NotesExplainDrafts, HistoryExplainsRow, NoteExplains, Explains
  <1>1. NoteExplains(s) /\ Explains(history[s], row[s])
    BY DEF NotesExplainDrafts, HistoryExplainsRow, NoteExplains, Explains
  <1>2. /\ history[s] \in Seq(Event) /\ note[s] \in Event \cup {Null}
        /\ lock[s] \in Sessions \cup {Null}
    BY DEF IInv, TypeOK
  <1>3. CASE lock[s] # c
    <2>1. /\ row'[s] = row[s] /\ draft'[s] = draft[s] /\ note'[s] = note[s]
          /\ history'[s] = history[s] /\ lock'[s] = lock[s]
      BY <1>3 DEF Commit, Abort, Release
    <2>2. lock[s] \in Sessions => tx'[lock[s]] = tx[lock[s]]
      BY <1>3 DEF Commit, Abort, IInv, TypeOK
    <2>3. note[s] # Null => lock[s] \in Sessions
      BY <1>2 DEF IInv, DraftsAreLocked
    <2> QED BY <1>1, <2>1, <2>2, <2>3 DEF NoteExplains
  <1>4. CASE lock[s] = c /\ Commit(c)
    <2>1. /\ row'[s] = draft[s] /\ draft'[s] = draft[s] /\ note'[s] = Null
          /\ history'[s] = IF note[s] # Null THEN Append(history[s], note[s]) ELSE history[s]
      BY <1>4 DEF Commit
    <2>2. NoteExplains(s)'
      BY <1>1, <2>1 DEF NoteExplains
    <2>3. CASE note[s] = Null
      BY <1>1, <2>1, <2>3 DEF NoteExplains, Explains, GenerationsAgree
    <2>4. CASE note[s] # Null
      <3>1. Records(note[s], row[s], draft[s]) /\ GenerationsAgree(draft[s])
        BY <1>1, <2>4 DEF NoteExplains
      <3>2. note[s] \in Event
        BY <1>2, <2>4
      <3>3. Explains(Append(history[s], note[s]), draft[s])
        BY <1>1, <1>2, <3>1, <3>2, AppendExplains
      <3> QED BY <2>1, <2>2, <2>4, <3>3
    <2> QED BY <2>2, <2>3, <2>4
  <1>5. CASE lock[s] = c /\ Abort(c)
    <2>1. /\ row'[s] = row[s] /\ draft'[s] = row[s] /\ note'[s] = Null
          /\ history'[s] = history[s]
      BY <1>5 DEF Abort
    <2> QED BY <1>1, <2>1 DEF NoteExplains
  <1> QED BY <1>3, <1>4, <1>5
\* Before it writes, a transaction's rows have the shape that the drafts will
\* be compared with.
LEMMA UnwrittenRow ==
  ASSUME IInv, NotesExplainDrafts, NEW c \in Sessions, NEW s \in Steps,
         lock[s] = c, tx[c].at # "commit"
  PROVE  /\ draft[s] = row[s] /\ note[s] = Null /\ row[s] \in Row
         /\ row[s].version \in Nat /\ GenerationsAgree(row[s])
  <1>1. draft[s] = row[s] /\ note[s] = Null
    BY DEF IInv, DraftsAreLocked
  <1>2. row[s] \in Row /\ GenerationsAgree(row[s])
    BY DEF IInv, TypeOK, NotesExplainDrafts
  <1> QED BY <1>1, <1>2 DEF Row

LEMMA ClaimUpdateExplains ==
  ASSUME IInv, NotesExplainDrafts, HistoryExplainsRow, NEW c \in Sessions, ClaimUpdate(c)
  PROVE  (NotesExplainDrafts /\ HistoryExplainsRow)'
  <1> DEFINE w == tx[c].worker
  <1>1. PICK s \in tx[c].picked :
          /\ draft[s].status = "READY"
          /\ draft' = [draft EXCEPT ![s] = ClaimedRow(@, w)]
          /\ note' = [note EXCEPT ![s] = EventOf("STEP_CLAIMED", w, draft'[s])]
    BY DEF ClaimUpdate
  <1>2. /\ tx[c].at = "visit" /\ tx[c].op \notin OwnerOps
        /\ tx' = [tx EXCEPT ![c].at = "commit"]
        /\ UNCHANGED <<row, history, lock>>
    BY DEF ClaimUpdate, ScanDone, OwnerOps
  <1>3. s \in Steps /\ lock[s] = c
    BY <1>2 DEF IInv, TypeOK, Transaction, PickedStillMatch
  <1>4. /\ draft[s] = row[s] /\ row[s] \in Row /\ row[s].version \in Nat
        /\ GenerationsAgree(row[s])
    BY <1>2, <1>3, UnwrittenRow
  <1> DEFINE new == ClaimedRow(row[s], w)
             event == EventOf("STEP_CLAIMED", w, new)
  <1>5. /\ new.status = "RUNNING" /\ new.version = row[s].version + 1
        /\ new.attempts = row[s].attempts + 1 /\ new.result = row[s].result
    BY <1>4 DEF ClaimedRow, Row
  <1>6. /\ draft'[s] = new /\ note'[s] = event
        /\ \A u \in Steps \ {s} : draft'[u] = draft[u] /\ note'[u] = note[u]
    BY <1>1, <1>3, <1>4 DEF IInv, TypeOK
  <1> HIDE DEF new, w
  <1>7. Records(event, row[s], new) /\ GenerationsAgree(new)
    BY <1>1, <1>4, <1>5 DEF Records, GenerationsAgree, EventOf, StatusAfter, IsLegal,
                            LegalTransitions
  <1>8. event # Null
    <2>1. draft' \in [Steps -> Row]
      BY ClaimUpdatePreserves DEF IInv, TypeOK
    <2>2. new \in Row /\ w \in Workers
      BY <1>3, <1>6, <2>1 DEF w, IInv, TransactionShape, ClaimUpdate
    <2> QED BY <2>2, EventOfType, EventAssumption DEF EventType
  <1> QED BY <1>2, <1>3, <1>6, <1>7, <1>8, WriteExplains

LEMMA OwnerStepExplains ==
  ASSUME IInv, NotesExplainDrafts, HistoryExplainsRow, NEW c \in Sessions, OwnerStep(c)
  PROVE  (NotesExplainDrafts /\ HistoryExplainsRow)'
  <1> DEFINE s == tx[c].step
             w == tx[c].worker
  <1>1. /\ tx[c].at = "authorize" /\ Authorized(tx[c]) /\ tx[c].op \in OwnerOps
        /\ tx' = [tx EXCEPT ![c].at = "commit"]
        /\ UNCHANGED <<row, history, lock>>
    BY DEF OwnerStep, Renew, Complete, Fail, OwnerWrite, OwnerOps
  <1>2. s \in Steps /\ lock[s] = c /\ row[s].status = "RUNNING" /\ w \in Workers
    BY <1>1, AuthorizedRow DEF IInv, TransactionShape
  <1>3. /\ draft[s] = row[s] /\ note[s] = Null /\ row[s] \in Row /\ row[s].version \in Nat
        /\ GenerationsAgree(row[s]) /\ row[s].version = tx[c].version
    BY <1>1, <1>2, UnwrittenRow DEF Authorized
  <1> DEFINE Written ==
        \E new, type :
          /\ draft' = [draft EXCEPT ![s] = new]
          /\ note' = [note EXCEPT ![s] = IF type = Null THEN @ ELSE EventOf(type, w, new)]
          /\ new.version = row[s].version /\ new.attempts = row[s].attempts
          /\ \/ type = Null /\ new.status = "RUNNING" /\ new.result = 0
             \/ type = "STEP_SUCCEEDED" /\ new.status = "SUCCEEDED" /\ new.result = new.version
             \/ type = "STEP_RETRY_SCHEDULED" /\ new.status = "RETRY_WAIT" /\ new.result = 0
             \/ type = "STEP_DEAD_LETTERED" /\ new.status = "DEAD_LETTERED" /\ new.result = 0
  <1>4. Written
    <2>1. row[s].result = 0
      BY <1>2, <1>3 DEF GenerationsAgree
    <2>2. CASE Renew(c)
      <3> DEFINE new == RenewedRow(draft[s])
      <3>1. /\ draft' = [draft EXCEPT ![s] = new]
            /\ note' = [note EXCEPT ![s] = IF Null = Null THEN @ ELSE EventOf(Null, w, new)]
        BY <2>2 DEF Renew, OwnerWrite
      <3>2. /\ new.version = row[s].version /\ new.attempts = row[s].attempts
            /\ new.status = "RUNNING" /\ new.result = 0
        BY <1>2, <1>3, <2>1 DEF RenewedRow, Row
      <3> HIDE DEF new
      <3> QED BY <3>1, <3>2
    <2>3. CASE Complete(c)
      <3> DEFINE new == CompletedRow(draft[s])
      <3>1. /\ draft' = [draft EXCEPT ![s] = new]
            /\ note' = [note EXCEPT ![s] = IF "STEP_SUCCEEDED" = Null THEN @
                                           ELSE EventOf("STEP_SUCCEEDED", w, new)]
        BY <2>3 DEF Complete, OwnerWrite
      <3>2. /\ new.version = row[s].version /\ new.attempts = row[s].attempts
            /\ new.status = "SUCCEEDED" /\ new.result = new.version
        BY <1>3 DEF CompletedRow, Row
      <3> HIDE DEF new
      <3> QED BY <3>1, <3>2
    <2>4. CASE Fail(c)
      <3> DEFINE new == FailedRow(draft[s], s, tx[c].retryable)
                 type == IF new.status = "RETRY_WAIT" THEN "STEP_RETRY_SCHEDULED"
                                                      ELSE "STEP_DEAD_LETTERED"
      <3>1. /\ draft' = [draft EXCEPT ![s] = new]
            /\ note' = [note EXCEPT ![s] = IF type = Null THEN @ ELSE EventOf(type, w, new)]
        BY <2>4 DEF Fail, OwnerWrite
      <3>2. /\ new.version = row[s].version /\ new.attempts = row[s].attempts
            /\ new.status \in {"RETRY_WAIT", "DEAD_LETTERED"} /\ new.result = 0
        BY <1>3, <2>1 DEF FailedRow, Row
      <3>3. \/ type = "STEP_RETRY_SCHEDULED" /\ new.status = "RETRY_WAIT"
            \/ type = "STEP_DEAD_LETTERED" /\ new.status = "DEAD_LETTERED"
        BY <3>2
      <3> HIDE DEF new, type
      <3> QED BY <3>1, <3>2, <3>3
    <2> QED BY <2>2, <2>3, <2>4 DEF OwnerStep
  <1>5. PICK new, type :
          /\ draft' = [draft EXCEPT ![s] = new]
          /\ note' = [note EXCEPT ![s] = IF type = Null THEN @ ELSE EventOf(type, w, new)]
          /\ new.version = row[s].version /\ new.attempts = row[s].attempts
          /\ \/ type = Null /\ new.status = "RUNNING" /\ new.result = 0
             \/ type = "STEP_SUCCEEDED" /\ new.status = "SUCCEEDED" /\ new.result = new.version
             \/ type = "STEP_RETRY_SCHEDULED" /\ new.status = "RETRY_WAIT" /\ new.result = 0
             \/ type = "STEP_DEAD_LETTERED" /\ new.status = "DEAD_LETTERED" /\ new.result = 0
    BY <1>4
  <1> HIDE DEF s, w, Written
  <1>6. /\ draft'[s] = new
        /\ note'[s] = IF type = Null THEN Null ELSE EventOf(type, w, new)
        /\ \A u \in Steps \ {s} : draft'[u] = draft[u] /\ note'[u] = note[u]
    BY <1>2, <1>3, <1>5 DEF IInv, TypeOK
  <1>7. GenerationsAgree(new)
    BY <1>3, <1>5 DEF GenerationsAgree
  <1>8. CASE type = Null
    <2>1. note'[s] = Null /\ new.status = row[s].status /\ new.version = row[s].version
      BY <1>2, <1>5, <1>6, <1>8, EventAssumption DEF EventType
    <2> QED BY <1>1, <1>2, <1>6, <1>7, <2>1, WriteExplains
  <1>9. CASE type # Null
    <2>1. Records(EventOf(type, w, new), row[s], new)
      BY <1>2, <1>3, <1>5, <1>9 DEF Records, EventOf, StatusAfter, IsLegal, LegalTransitions
    <2>2. EventOf(type, w, new).version = tx[c].version
      BY <1>3, <1>5 DEF EventOf
    <2>3. EventOf(type, w, new) # Null
      <3>1. draft' \in [Steps -> Row]
        BY RenewPreserves, CompletePreserves, FailPreserves DEF OwnerStep, IInv, TypeOK
      <3>2. new \in Row /\ type \in EventType
        BY <1>2, <1>5, <1>6, <1>9, <3>1 DEF EventType
      <3> QED BY <1>2, <3>2, EventOfType, EventAssumption
    <2> QED BY <1>1, <1>2, <1>6, <1>7, <1>9, <2>1, <2>2, <2>3, WriteExplains
  <1> QED BY <1>8, <1>9
LEMMA ResolveExpiredExplains ==
  ASSUME IInv, NotesExplainDrafts, HistoryExplainsRow, NEW c \in Sessions, ResolveExpired(c)
  PROVE  (NotesExplainDrafts /\ HistoryExplainsRow)'
  <1>1. /\ tx[c].at = "visit" /\ tx[c].op = "recover" /\ tx[c].op \notin OwnerOps
        /\ tx' = [tx EXCEPT ![c].at = "commit"]
        /\ UNCHANGED <<row, history, lock>>
    BY DEF ResolveExpired, ScanDone, OwnerOps
  <1>2. ASSUME NEW s \in Steps, s \in tx[c].picked
        PROVE  /\ lock[s] = c /\ GenerationsAgree(draft'[s]) /\ note'[s] # Null
               /\ Records(note'[s], row[s], draft'[s])
    <2>1. lock[s] = c /\ row[s].status = "RUNNING"
      BY <1>1, <1>2 DEF IInv, PickedStillMatch, Matches, Expired
    <2>2. draft[s] = row[s] /\ row[s] \in Row /\ row[s].version \in Nat /\ GenerationsAgree(row[s])
      BY <1>1, <2>1, UnwrittenRow
    <2> DEFINE new == RecoveredRow(row[s], s)
               type == IF new.status = "READY" THEN "LEASE_RECOVERED" ELSE "STEP_DEAD_LETTERED"
               event == EventOf(type, row[s].owner, new)
    <2>3. draft'[s] = new /\ note'[s] = event
      BY <1>2, <2>2 DEF ResolveExpired, RecoveryEvent
    <2>4. /\ new.status \in {"READY", "DEAD_LETTERED"} /\ new.version = row[s].version
          /\ new.attempts = row[s].attempts /\ new.result = row[s].result
      BY <2>2 DEF RecoveredRow, Row
    <2>5. new \in Row
      BY <2>3, ResolveExpiredPreserves DEF IInv, TypeOK
    <2> HIDE DEF new
    <2>6. GenerationsAgree(new)
      BY <2>1, <2>2, <2>4 DEF GenerationsAgree
    <2>7. Records(event, row[s], new)
      BY <2>1, <2>2, <2>4 DEF Records, GenerationsAgree, EventOf, StatusAfter, IsLegal,
                              LegalTransitions
    <2>8. event # Null
      <3>1. type \in EventType /\ row[s].owner \in Workers \cup {Null}
        BY <2>2 DEF EventType, Row
      <3> HIDE DEF type
      <3> QED BY <2>5, <3>1, EventOfType, EventAssumption
    <2> QED BY <2>1, <2>3, <2>6, <2>7, <2>8
  <1>3. \A s \in Steps : s \notin tx[c].picked => draft'[s] = draft[s] /\ note'[s] = note[s]
    BY DEF ResolveExpired
  <1> QED BY <1>1, <1>2, <1>3, WriteExplains

LEMMA PromoteDueExplains ==
  ASSUME IInv, NotesExplainDrafts, HistoryExplainsRow, NEW c \in Sessions, PromoteDue(c)
  PROVE  (NotesExplainDrafts /\ HistoryExplainsRow)'
  <1>1. /\ tx[c].at = "visit" /\ tx[c].op = "promote" /\ tx[c].op \notin OwnerOps
        /\ tx' = [tx EXCEPT ![c].at = "commit"]
        /\ UNCHANGED <<row, history, lock>>
    BY DEF PromoteDue, ScanDone, OwnerOps
  <1>2. ASSUME NEW s \in Steps, s \in tx[c].picked
        PROVE  /\ lock[s] = c /\ GenerationsAgree(draft'[s]) /\ note'[s] # Null
               /\ Records(note'[s], row[s], draft'[s])
    <2>1. lock[s] = c /\ row[s].status = "RETRY_WAIT"
      BY <1>1, <1>2 DEF IInv, PickedStillMatch, Matches, Due
    <2>2. draft[s] = row[s] /\ row[s] \in Row /\ row[s].version \in Nat /\ GenerationsAgree(row[s])
      BY <1>1, <2>1, UnwrittenRow
    <2> DEFINE new == PromotedRow(row[s])
               event == EventOf("RETRY_READY", Null, new)
    <2>3. draft'[s] = new /\ note'[s] = event
      BY <1>2, <2>2 DEF PromoteDue
    <2>4. /\ new.status = "READY" /\ new.version = row[s].version
          /\ new.attempts = row[s].attempts /\ new.result = row[s].result
      BY <2>2 DEF PromotedRow, Row
    <2>5. new \in Row
      BY <2>3, PromoteDuePreserves DEF IInv, TypeOK
    <2> HIDE DEF new
    <2>6. GenerationsAgree(new)
      BY <2>1, <2>2, <2>4 DEF GenerationsAgree
    <2>7. Records(event, row[s], new)
      BY <2>1, <2>2, <2>4 DEF Records, GenerationsAgree, EventOf, StatusAfter, IsLegal,
                              LegalTransitions
    <2>8. event # Null
      BY <2>5, EventOfType, EventAssumption DEF EventType
    <2> QED BY <2>1, <2>3, <2>6, <2>7, <2>8
  <1>3. \A s \in Steps : s \notin tx[c].picked => draft'[s] = draft[s] /\ note'[s] = note[s]
    BY DEF PromoteDue
  <1> QED BY <1>1, <1>2, <1>3, WriteExplains

LEMMA HistoryInvPreserved == HistoryInv /\ [Next]_vars => HistoryInv'
  <1> SUFFICES ASSUME HistoryInv, [Next]_vars PROVE HistoryInv'
    OBVIOUS
  <1> USE DEF HistoryInv
  <1>1. IInv'
    BY NextPreserves
  <1>2. CASE Quiet
    BY <1>1, <1>2, QuietExplains
  <1>3. ASSUME NEW c \in Sessions, ClaimUpdate(c) PROVE HistoryInv'
    BY <1>1, <1>3, ClaimUpdateExplains
  <1>4. ASSUME NEW c \in Sessions, OwnerStep(c) PROVE HistoryInv'
    BY <1>1, <1>4, OwnerStepExplains
  <1>5. ASSUME NEW c \in Sessions, ResolveExpired(c) PROVE HistoryInv'
    BY <1>1, <1>5, ResolveExpiredExplains
  <1>6. ASSUME NEW c \in Sessions, PromoteDue(c) PROVE HistoryInv'
    BY <1>1, <1>6, PromoteDueExplains
  <1>7. ASSUME NEW c \in Sessions, Commit(c) \/ Abort(c) PROVE HistoryInv'
    BY <1>1, <1>7, EndExplains
  <1> QED BY <1>2, <1>3, <1>4, <1>5, <1>6, <1>7, KindsOfSteps

\* Every uncommitted event records the uncommitted change of its row, and every
\* committed history explains its committed row.
THEOREM HistoryInvariance == Spec => []HistoryInv
  <1>1. Init => HistoryInv
    BY InitEstablishes, InitExplains DEF HistoryInv
  <1> QED BY <1>1, HistoryInvPreserved, PTL DEF Spec

\* All that is known of the store at any moment: the locks, the transactions,
\* what they are about to commit, and what the history says of it.
THEOREM StoreInvariance == Spec => []StoreInv
  <1> QED BY RefinementInvariance, HistoryInvariance, PTL DEF StoreInv

\* The committed events of a step, replayed from READY, are legal transitions
\* that end in the committed row: every transition commits with its event and
\* every event with its transition, through aborts and lock waits
\* (step-events.ts).
THEOREM HistoryExplainsRowHolds == Spec => []HistoryExplainsRow
  <1>1. HistoryInv => HistoryExplainsRow
    BY DEF HistoryInv
  <1> QED BY HistoryInvariance, <1>1, PTL

-----------------------------------------------------------------------------
(* What a worker may have been told                                        *)

LEMMA ClaimsGrow ==
  ASSUME NEW h, NEW i \in Nat, NEW j \in Nat, i <= j
  PROVE  Claims(h, i) <= Claims(h, j)
  <1> DEFINE Upto(n) == {k \in 1 .. n : h[k].type = "STEP_CLAIMED"}
  <1>1. IsFiniteSet(1 .. j)
    BY FS_Interval
  <1>2. IsFiniteSet(Upto(j))
    BY <1>1, FS_Subset
  <1>3. Upto(i) \subseteq Upto(j)
    OBVIOUS
  <1> HIDE DEF Upto
  <1>4. Cardinality(Upto(i)) <= Cardinality(Upto(j))
    BY <1>2, <1>3, FS_Subset
  <1> QED BY <1>4 DEF Claims, Upto

LEMMA ClaimCounts ==
  ASSUME NEW h, NEW i \in Nat \ {0}, h[i].type = "STEP_CLAIMED"
  PROVE  Claims(h, i) \in Nat \ {0}
  <1> DEFINE S == {k \in 1 .. i : h[k].type = "STEP_CLAIMED"}
  <1>1. IsFiniteSet(1 .. i)
    BY FS_Interval
  <1>2. IsFiniteSet(S)
    BY <1>1, FS_Subset
  <1>3. i \in S
    OBVIOUS
  <1> HIDE DEF S
  <1>4. Cardinality(S) # 0
    BY <1>2, <1>3, FS_EmptySet
  <1> QED BY <1>4, ClaimsInNat DEF Claims, S

\* A worker is told a generation only once the row has reached it, so the
\* generations that an owner write may present lie between 1 and the row's.
LEMMA IssuedIsReached ==
  ASSUME HistoryInv, NEW s \in Steps, NEW w, NEW v, Issued(s, w, v)
  PROVE  v \in 1 .. row[s].version
  <1>1. history[s] \in Seq(Event) /\ row[s].version \in Nat
    BY DEF HistoryInv, IInv, TypeOK, Row
  <1>2. PICK i \in 1 .. Len(history[s]) :
          history[s][i].type = "STEP_CLAIMED" /\ history[s][i].version = v
    BY <1>1 DEF Issued
  <1>3. v = Claims(history[s], i) /\ row[s].version = Claims(history[s], Len(history[s]))
    BY <1>2 DEF HistoryInv, HistoryExplainsRow, IsLegalHistory
  <1>4. i \in Nat \ {0} /\ Len(history[s]) \in Nat /\ i <= Len(history[s])
    BY <1>1
  <1>5. v \in Nat \ {0}
    BY <1>2, <1>3, <1>4, ClaimCounts
  <1>6. v <= row[s].version
    BY <1>3, <1>4, ClaimsGrow
  <1> QED BY <1>1, <1>5, <1>6
=============================================================================
