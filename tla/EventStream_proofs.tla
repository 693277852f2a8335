------------------------- MODULE EventStream_proofs -------------------------
(* Machine-checked proofs about EventStream, for every value of its constants. *)
EXTENDS EventStream, FiniteSetTheorems, TLAPS

\* A page is closed downward: LIMIT cuts the end of the ordered rows, never a gap.
LEMMA PageHasNoGap ==
  ASSUME NEW found \in SUBSET Event, IsFiniteSet(found), NEW n \in Nat,
         NEW e \in Page(found, n), NEW f \in found, Precedes(f, e)
  PROVE  f \in Page(found, n)
  <1> DEFINE upTo(x) == {g \in found : g = x \/ Precedes(g, x)}
  <1>1. e \in found /\ Cardinality(upTo(e)) <= n
    BY DEF Page
  <1>2. upTo(f) \subseteq upTo(e)
    BY <1>1 DEF Precedes, Event
  <1>3. IsFiniteSet(upTo(e)) /\ IsFiniteSet(upTo(f))
    BY FS_Subset
  <1>4. Cardinality(upTo(f)) <= Cardinality(upTo(e))
    BY <1>2, <1>3, FS_Subset
  <1>5. Cardinality(upTo(f)) \in Nat /\ Cardinality(upTo(e)) \in Nat
    BY <1>3, FS_CardinalityType
  <1>6. Cardinality(upTo(f)) <= n
    BY <1>1, <1>4, <1>5
  <1> QED BY <1>6 DEF Page

LEMMA PagesAreFound == \A found, n : Page(found, n) \subseteq found
  BY DEF Page

\* The position after a page lies at or after everything on the page, and
\* nothing of the page lies beyond it.
LEMMA NextPosition ==
  ASSUME NEW page \in SUBSET Event, NEW cursor \in Position, NEW next,
         IsNextPosition(next, page, cursor),
         \A e \in page : Precedes(cursor, e)
  PROVE  /\ next \in Position
         /\ ~Precedes(next, cursor)
         /\ \A e \in page : ~Precedes(next, e)
         /\ next = cursor \/ Precedes(cursor, next)
         /\ next = cursor \/ \E e \in page : next = PositionOf(e)
  <1>1. CASE page = {}
    BY <1>1 DEF IsNextPosition, Precedes, Position
  <1>2. CASE page # {}
    <2>1. PICK e \in page : next = PositionOf(e) /\ \A f \in page \ {e} : Precedes(f, e)
      BY <1>2 DEF IsNextPosition
    <2>2. e.xid \in Nat /\ e.id \in Nat /\ next.xid = e.xid /\ next.id = e.id /\ next \in Position
      BY <2>1 DEF PositionOf, Event, Position
    <2>3. Precedes(cursor, e)
      BY <2>1
    <2>4. ~Precedes(next, cursor) /\ Precedes(cursor, next)
      BY <2>2, <2>3 DEF Precedes, Position
    <2>5. ASSUME NEW f \in page PROVE ~Precedes(next, f)
      BY <2>1, <2>2 DEF Precedes, Event
    <2> QED BY <2>1, <2>2, <2>4, <2>5
  <1> QED BY <1>1, <1>2

LEMMA InitEstablishes == Init => IInv
  <1> SUFFICES ASSUME Init PROVE IInv
    OBVIOUS
  <1>1. TypeOK
    BY DEF Init, TypeOK, Closed, Start, Stream, Position, Filters
  <1>2. IdsAreUnique /\ ReadersAreOrdered /\ PagesHaveNoGap
    BY DEF Init, IdsAreUnique, ReadersAreOrdered, PagesHaveNoGap, Closed, Start
  <1>3. HistoryIsFinite
    BY FS_EmptySet DEF Init, HistoryIsFinite
  <1>4. NothingCommitsBehindAReader /\ NothingSkipped
    BY DEF Init, NothingCommitsBehindAReader, NothingSkipped
  <1> QED BY <1>1, <1>2, <1>3, <1>4 DEF IInv

-----------------------------------------------------------------------------
(* Writers                                                                 *)

\* What a writer does to the numbering alone keeps every reader where it is.
LEMMA AssignXidKeeps ==
  ASSUME IInv, NEW w \in Writers, AssignXid(w) PROVE IInv'
  <1> USE DEF AssignXid, readers
  <1>t. TypeOK /\ nextXid \in Nat \ {0} /\ txn \in [Writers -> Nat]
    BY DEF IInv, TypeOK
  <1>x. /\ nextXid' = nextXid + 1 /\ txn[w] = 0 /\ txn'[w] = nextXid
        /\ \A v \in Writers \ {w} : txn'[v] = txn[v]
        /\ txn' \in [Writers -> Nat]
    BY <1>t
  <1>1. TypeOK'
    BY <1>t, <1>x DEF TypeOK
  <1>2. IdsAreUnique'
    BY <1>t, <1>x DEF IInv, IdsAreUnique, TypeOK, Event
  <1>3. HistoryIsFinite'
    BY DEF IInv, HistoryIsFinite
  <1>4. ReadersAreOrdered'
    <2>1. \A c \in Clients : last[c].xid \in Nat /\ stream[c].cursor.xid \in Nat
      BY <1>t DEF TypeOK, Stream, Position
    <2>2. \A c \in Clients : last[c].xid < nextXid' /\ stream[c].cursor.xid < nextXid'
      BY <1>t, <1>x, <2>1 DEF IInv, ReadersAreOrdered
    <2> QED BY <2>2 DEF IInv, ReadersAreOrdered
  <1>5. \A e \in table : e.xid < nextXid
    BY DEF IInv, IdsAreUnique
  <1>6. PagesHaveNoGap'
    <2>1. \A e \in table : BelowWatermark(e) => BelowWatermark(e)'
      BY <1>x, <1>5 DEF BelowWatermark
    <2> QED BY <2>1 DEF IInv, PagesHaveNoGap
  <1>7. NothingCommitsBehindAReader'
    BY <1>x DEF IInv, NothingCommitsBehindAReader, ReadersAreOrdered
  <1>8. NothingSkipped'
    BY DEF IInv, NothingSkipped
  <1> QED BY <1>1, <1>2, <1>3, <1>4, <1>6, <1>7, <1>8 DEF IInv

LEMMA InsertKeeps ==
  ASSUME IInv, NEW w \in Writers, NEW s \in Steps, Insert(w, s) PROVE IInv'
  <1> USE DEF Insert, readers
  <1> DEFINE e == [xid |-> txn[w], id |-> nextId, step |-> s]
  <1>t. /\ TypeOK /\ nextId \in Nat \ {0} /\ txn[w] \in Nat \ {0}
        /\ pending \in [Writers -> SUBSET Event]
    BY DEF IInv, TypeOK
  <1>e. e \in Event /\ e.xid = txn[w] /\ e.id = nextId
    BY <1>t DEF Event
  <1>x. /\ nextId' = nextId + 1 /\ pending'[w] = pending[w] \cup {e}
        /\ \A v \in Writers \ {w} : pending'[v] = pending[v]
        /\ pending' \in [Writers -> SUBSET Event]
    BY <1>t, <1>e
  <1> HIDE DEF e
  <1>1. TypeOK'
    BY <1>t, <1>x DEF TypeOK
  <1>2. IdsAreUnique'
    <2>1. \A v \in Writers : \A f \in pending[v] : f.id < nextId /\ f.id \in Nat
      BY <1>t DEF IInv, IdsAreUnique, Event
    <2>2. \A f \in table : f.id < nextId /\ f.id \in Nat
      BY <1>t DEF IInv, IdsAreUnique, TypeOK, Event
    <2>3. \A v \in Writers : \A f \in pending'[v] : (f = e /\ v = w) \/ f \in pending[v]
      BY <1>x
    <2>4. ASSUME NEW v \in Writers PROVE
            /\ txn'[v] < nextXid'
            /\ txn'[v] = 0 => pending'[v] = {}
            /\ \A u \in Writers \ {v} : txn'[v] # 0 => txn'[v] # txn'[u]
            /\ \A f \in table' : f.xid # txn'[v]
      BY <1>t, <1>x DEF IInv, IdsAreUnique
    <2>5. ASSUME NEW v \in Writers, NEW f \in pending'[v]
          PROVE  f.xid = txn'[v] /\ f.id < nextId'
      BY <1>t, <1>e, <1>x, <2>1, <2>3 DEF IInv, IdsAreUnique
    <2>6. ASSUME NEW v \in Writers, NEW f \in pending'[v], NEW g \in pending'[v] \cup table',
                 f.id = g.id
          PROVE  f = g
      BY <1>t, <1>e, <1>x, <2>1, <2>2, <2>3, <2>6 DEF IInv, IdsAreUnique
    <2>7. ASSUME NEW v \in Writers, NEW u \in Writers, NEW f \in pending'[v], NEW g \in pending'[u],
                 f.id = g.id
          PROVE  v = u
      BY <1>t, <1>e, <1>x, <2>1, <2>3, <2>7 DEF IInv, IdsAreUnique
    <2>8. \A f \in table' : f.xid < nextXid' /\ f.id < nextId'
      BY <1>t, <1>x, <2>2 DEF IInv, IdsAreUnique
    <2>9. \A f, g \in table' : f.id = g.id => f = g
      BY DEF IInv, IdsAreUnique
    <2> QED BY <2>4, <2>5, <2>6, <2>7, <2>8, <2>9 DEF IdsAreUnique
  <1>3. HistoryIsFinite'
    <2>1. IsFiniteSet(pending[w] \cup {e})
      BY FS_AddElement DEF IInv, HistoryIsFinite
    <2> QED BY <1>x, <2>1 DEF IInv, HistoryIsFinite
  <1>4. ReadersAreOrdered' /\ NothingCommitsBehindAReader' /\ NothingSkipped'
    BY DEF IInv, ReadersAreOrdered, NothingCommitsBehindAReader, NothingSkipped
  <1>5. PagesHaveNoGap'
    <2>1. \A f \in table : BelowWatermark(f) => BelowWatermark(f)'
      BY DEF BelowWatermark
    <2> QED BY <2>1 DEF IInv, PagesHaveNoGap
  <1> QED BY <1>1, <1>2, <1>3, <1>4, <1>5 DEF IInv

\* A transaction that ends, with or without its events, lifts the watermark.
LEMMA WatermarkOnlyRises ==
  ASSUME TypeOK, NEW w \in Writers, txn' = [txn EXCEPT ![w] = 0], NEW e, BelowWatermark(e)
  PROVE  BelowWatermark(e)'
  BY DEF BelowWatermark, TypeOK

LEMMA RollbackKeeps ==
  ASSUME IInv, NEW w \in Writers, Rollback(w) PROVE IInv'
  <1> USE DEF Rollback, readers
  <1>t. TypeOK /\ txn \in [Writers -> Nat] /\ pending \in [Writers -> SUBSET Event]
    BY DEF IInv, TypeOK
  <1>x. /\ txn'[w] = 0 /\ pending'[w] = {}
        /\ \A v \in Writers \ {w} : txn'[v] = txn[v] /\ pending'[v] = pending[v]
        /\ txn' \in [Writers -> Nat] /\ pending' \in [Writers -> SUBSET Event]
    BY <1>t
  <1>1. TypeOK'
    BY <1>t, <1>x DEF TypeOK
  <1>2. IdsAreUnique'
    BY <1>t, <1>x DEF IInv, IdsAreUnique, TypeOK, Event
  <1>3. HistoryIsFinite'
    BY <1>x, FS_EmptySet DEF IInv, HistoryIsFinite
  <1>4. ReadersAreOrdered' /\ NothingSkipped'
    BY DEF IInv, ReadersAreOrdered, NothingSkipped
  <1>5. NothingCommitsBehindAReader'
    BY <1>x DEF IInv, NothingCommitsBehindAReader
  <1>6. PagesHaveNoGap'
    BY <1>t, WatermarkOnlyRises DEF IInv, PagesHaveNoGap
  <1> QED BY <1>1, <1>2, <1>3, <1>4, <1>5, <1>6 DEF IInv

\* The events that commit lie beyond every reader, and beyond every page that
\* has been read.
LEMMA CommitTxnKeeps ==
  ASSUME IInv, NEW w \in Writers, CommitTxn(w) PROVE IInv'
  <1> USE DEF CommitTxn, readers
  <1>t. /\ TypeOK /\ txn \in [Writers -> Nat] /\ pending \in [Writers -> SUBSET Event]
        /\ table \in SUBSET Event /\ txn[w] # 0
    BY DEF IInv, TypeOK
  <1>x. /\ txn'[w] = 0 /\ pending'[w] = {} /\ table' = table \cup pending[w]
        /\ \A v \in Writers \ {w} : txn'[v] = txn[v] /\ pending'[v] = pending[v]
        /\ txn' \in [Writers -> Nat] /\ pending' \in [Writers -> SUBSET Event]
    BY <1>t
  <1>n. \A e \in pending[w] : e.xid = txn[w] /\ e.id < nextId
    BY DEF IInv, IdsAreUnique
  <1>1. TypeOK'
    BY <1>t, <1>x DEF TypeOK
  <1>2. IdsAreUnique'
    <2>1. ASSUME NEW v \in Writers PROVE
            /\ txn'[v] < nextXid' /\ (txn'[v] = 0 => pending'[v] = {})
            /\ \A u \in Writers \ {v} : txn'[v] # 0 => txn'[v] # txn'[u]
            /\ \A e \in pending'[v] : e.xid = txn'[v] /\ e.id < nextId'
      BY <1>t, <1>x DEF IInv, IdsAreUnique, TypeOK
    <2>2. ASSUME NEW v \in Writers, NEW e \in pending'[v], NEW f \in pending'[v] \cup table',
                 e.id = f.id
          PROVE  e = f
      <3>1. v # w /\ e \in pending[v]
        BY <1>x
      <3>2. f \notin pending[w]
        BY <2>2, <3>1 DEF IInv, IdsAreUnique
      <3> QED BY <1>x, <2>2, <3>1, <3>2 DEF IInv, IdsAreUnique
    <2>3. ASSUME NEW v \in Writers, NEW e \in table' PROVE e.xid # txn'[v]
      <3>1. e.xid # 0
        BY <1>t, <1>x DEF Event
      <3>2. CASE v = w
        BY <1>x, <3>1, <3>2
      <3>3. CASE v # w
        BY <1>t, <1>x, <1>n, <3>3 DEF IInv, IdsAreUnique
      <3> QED BY <3>2, <3>3
    <2>4. \A v, u \in Writers : \A e \in pending'[v], f \in pending'[u] : e.id = f.id => v = u
      BY <1>x DEF IInv, IdsAreUnique
    <2>5. \A e \in table' : e.xid < nextXid' /\ e.id < nextId'
      BY <1>x, <1>n DEF IInv, IdsAreUnique
    <2>6. \A e, f \in table' : e.id = f.id => e = f
      BY <1>x DEF IInv, IdsAreUnique
    <2> QED BY <2>1, <2>2, <2>3, <2>4, <2>5, <2>6 DEF IdsAreUnique
  <1>3. HistoryIsFinite'
    <2>1. IsFiniteSet(table \cup pending[w])
      BY FS_Union DEF IInv, HistoryIsFinite
    <2>2. \A v \in Writers : IsFiniteSet(pending'[v])
      BY <1>x, FS_EmptySet DEF IInv, HistoryIsFinite
    <2> QED BY <1>x, <2>1, <2>2 DEF HistoryIsFinite
  <1>4. ReadersAreOrdered'
    BY DEF IInv, ReadersAreOrdered
  <1>5. NothingCommitsBehindAReader'
    BY <1>x DEF IInv, NothingCommitsBehindAReader
  <1>6. NothingSkipped'
    <2>1. ASSUME NEW c \in Clients, NEW e \in pending[w]
          PROVE  Precedes(last[c], e) /\ Precedes(stream[c].cursor, e)
      BY <1>t, <1>n DEF IInv, NothingCommitsBehindAReader, Precedes
    <2> QED BY <1>x, <2>1 DEF IInv, NothingSkipped
  <1>7. PagesHaveNoGap'
    <2>1. ASSUME NEW c \in Clients, NEW e \in stream[c].page, NEW f \in pending[w]
          PROVE  ~Precedes(f, e)
      <3>1. e.xid < txn[w] /\ f.xid = txn[w]
        BY <1>t, <1>n DEF IInv, PagesHaveNoGap, BelowWatermark
      <3>2. e.xid \in Nat /\ f.xid \in Nat
        BY <1>t DEF IInv, PagesHaveNoGap, Event
      <3> QED BY <3>1, <3>2 DEF Precedes
    <2>2. \A e : BelowWatermark(e) => BelowWatermark(e)'
      BY <1>t, WatermarkOnlyRises
    <2> QED BY <1>x, <2>1, <2>2 DEF IInv, PagesHaveNoGap
  <1> QED BY <1>1, <1>2, <1>3, <1>4, <1>5, <1>6, <1>7 DEF IInv

-----------------------------------------------------------------------------
(* Readers                                                                 *)

\* What a reader finds: committed, wanted, final and beyond its cursor.
LEMMA ReadableEvents ==
  ASSUME TypeOK, HistoryIsFinite, NEW c \in Clients, NEW cursor \in Position
  PROVE  /\ Readable(c, cursor) \in SUBSET Event
         /\ IsFiniteSet(Readable(c, cursor))
         /\ \A e \in Readable(c, cursor) : e \in table /\ e.step \in want[c]
                                           /\ BelowWatermark(e) /\ Precedes(cursor, e)
  BY FS_Subset DEF Readable, TypeOK, HistoryIsFinite

\* Below a final event everything is final.
LEMMA WatermarkIsDownwardClosed ==
  ASSUME TypeOK, NEW e \in Event, NEW f \in Event, BelowWatermark(e), Precedes(f, e)
  PROVE  BelowWatermark(f)
  <1> SUFFICES ASSUME NEW w \in Writers, txn[w] # 0 PROVE f.xid < txn[w]
    BY DEF BelowWatermark
  <1>1. e.xid < txn[w] /\ txn[w] \in Nat
    BY DEF BelowWatermark, TypeOK
  <1> QED BY <1>1 DEF Precedes, Event

\* A page of what is readable has no gap in the whole table.
LEMMA PageOfReadable ==
  ASSUME TypeOK, HistoryIsFinite, NEW c \in Clients, NEW cursor \in Position, NEW n \in Nat,
         NEW e \in Page(Readable(c, cursor), n), NEW f \in table, f.step \in want[c],
         Precedes(cursor, f), Precedes(f, e)
  PROVE  f \in Page(Readable(c, cursor), n)
  <1>1. e \in Readable(c, cursor) /\ e \in Event /\ f \in Event /\ BelowWatermark(e)
    BY ReadableEvents, PagesAreFound DEF TypeOK
  <1>2. f \in Readable(c, cursor)
    BY <1>1, WatermarkIsDownwardClosed DEF Readable
  <1> QED BY <1>2, ReadableEvents, PageHasNoGap

\* A reader's step leaves the writers and every other reader alone.
OthersKeep(c) ==
  /\ UNCHANGED <<writers, want>>
  /\ \A d \in Clients \ {c} : /\ stream'[d] = stream[d] /\ wire'[d] = wire[d]
                              /\ received'[d] = received[d] /\ last'[d] = last[d]

\* The invariant of one reader.
ReaderInv(c) ==
  /\ last[c] \in Position /\ stream[c] \in Stream
  /\ wire[c] \in SUBSET Event /\ received[c] \in SUBSET Event
  /\ last[c].xid < nextXid /\ stream[c].cursor.xid < nextXid
  /\ \A e \in received[c] : e.step \in want[c] /\ ~Precedes(last[c], e)
  /\ \A e \in wire[c] : /\ e.step \in want[c] /\ Precedes(last[c], e)
                        /\ ~Precedes(stream[c].cursor, e)
  /\ IF stream[c].at = "closed" THEN wire[c] = {}
     ELSE ~Precedes(stream[c].cursor, last[c])
  /\ stream[c].at # "reading" => stream[c].page = {}
  /\ \A e \in stream[c].page :
       /\ e \in table /\ e.step \in want[c] /\ Precedes(stream[c].cursor, e)
       /\ BelowWatermark(e)
       /\ \A f \in table :
            f.step \in want[c] /\ Precedes(stream[c].cursor, f) /\ Precedes(f, e) =>
              f \in stream[c].page
  /\ received[c] \cup wire[c] \subseteq table
  /\ \A w \in Writers : txn[w] # 0 => last[c].xid < txn[w] /\ stream[c].cursor.xid < txn[w]
  /\ \A e \in table :
       /\ e.step \in want[c] /\ ~Precedes(last[c], e) => e \in received[c]
       /\ e.step \in want[c] /\ stream[c].at # "closed" /\ ~Precedes(stream[c].cursor, e) =>
            e \in received[c] \cup wire[c]

LEMMA IInvOfReaders == IInv => \A c \in Clients : ReaderInv(c)
  BY DEF IInv, TypeOK, ReadersAreOrdered, PagesHaveNoGap, NothingCommitsBehindAReader,
         NothingSkipped, ReaderInv

\* It is enough to look at the reader that moved.
LEMMA OneReaderMoves ==
  ASSUME IInv, NEW c \in Clients, OthersKeep(c), ReaderInv(c)',
         stream' \in [Clients -> Stream], wire' \in [Clients -> SUBSET Event],
         received' \in [Clients -> SUBSET Event], last' \in [Clients -> Position]
  PROVE  IInv'
  <1> USE DEF OthersKeep, writers
  <1>1. TypeOK' /\ IdsAreUnique' /\ HistoryIsFinite'
    BY DEF IInv, TypeOK, IdsAreUnique, HistoryIsFinite
  <1>2. \A d \in Clients : ReaderInv(d)
    BY IInvOfReaders
  <1>4. ASSUME NEW d \in Clients \ {c} PROVE ReaderInv(d)'
    <2>1. /\ stream'[d] = stream[d] /\ wire'[d] = wire[d]
          /\ received'[d] = received[d] /\ last'[d] = last[d]
      OBVIOUS
    <2>2. txn' = txn /\ table' = table /\ nextXid' = nextXid /\ want' = want
      OBVIOUS
    <2>3. ReaderInv(d)
      BY <1>2
    <2> QED BY <2>1, <2>2, <2>3 DEF ReaderInv, BelowWatermark
  <1>5. \A d \in Clients : ReaderInv(d)'
    BY <1>4
  <1>6. ReadersAreOrdered'
    BY <1>5 DEF ReaderInv, ReadersAreOrdered
  <1>7. PagesHaveNoGap'
    BY <1>5 DEF ReaderInv, PagesHaveNoGap
  <1>8. NothingCommitsBehindAReader'
    BY <1>5 DEF ReaderInv, NothingCommitsBehindAReader
  <1>9. NothingSkipped'
    BY <1>5 DEF ReaderInv, NothingSkipped
  <1> QED BY <1>1, <1>6, <1>7, <1>8, <1>9 DEF IInv

LEMMA DisconnectKeeps == ASSUME IInv, NEW c \in Clients, Disconnect(c) PROVE IInv'
  <1> USE DEF Disconnect, writers
  <1>1. ReaderInv(c) /\ TypeOK
    BY IInvOfReaders DEF IInv
  <1>2. Closed \in Stream
    BY DEF Closed, Stream, Start, Position
  <1>3. stream'[c] = Closed /\ wire'[c] = {}
    BY <1>1 DEF TypeOK
  <1>4. ReaderInv(c)'
    BY <1>1, <1>2, <1>3 DEF ReaderInv, Closed, Start, TypeOK
  <1>5. OthersKeep(c)
    BY <1>1 DEF OthersKeep, TypeOK
  <1>6. stream' \in [Clients -> Stream] /\ wire' \in [Clients -> SUBSET Event]
    BY <1>1, <1>2 DEF TypeOK
  <1> QED BY <1>1, <1>4, <1>5, <1>6, OneReaderMoves DEF TypeOK

LEMMA ConnectKeeps == ASSUME IInv, NEW c \in Clients, Connect(c) PROVE IInv'
  <1> USE DEF Connect, writers
  <1> DEFINE new == [at |-> "polling", cursor |-> last[c], page |-> {}]
  <1>1. ReaderInv(c) /\ TypeOK
    BY IInvOfReaders DEF IInv
  <1>2. new \in Stream
    BY <1>1 DEF Stream, ReaderInv
  <1>3. stream'[c] = new
    BY <1>1 DEF TypeOK
  <1>4. ReaderInv(c)'
    BY <1>1, <1>2, <1>3 DEF ReaderInv, Precedes, Position
  <1>5. OthersKeep(c)
    BY <1>1 DEF OthersKeep, TypeOK
  <1>6. stream' \in [Clients -> Stream]
    BY <1>1, <1>2 DEF TypeOK
  <1> QED BY <1>1, <1>4, <1>5, <1>6, OneReaderMoves DEF TypeOK

LEMMA ReadPageKeeps == ASSUME IInv, NEW c \in Clients, ReadPage(c) PROVE IInv'
  <1> USE DEF ReadPage, writers
  <1> DEFINE cursor == stream[c].cursor
             page == Page(Readable(c, cursor), PageSize)
  <1>1. ReaderInv(c) /\ TypeOK /\ HistoryIsFinite
    BY IInvOfReaders DEF IInv
  <1>2. cursor \in Position /\ PageSize \in Nat
    BY <1>1, EventStreamAssumption DEF ReaderInv, Stream
  <1>3. page \in SUBSET Event /\ \A e \in page : /\ e \in table /\ e.step \in want[c]
                                                 /\ BelowWatermark(e) /\ Precedes(cursor, e)
    BY <1>1, <1>2, ReadableEvents, PagesAreFound
  <1>4. \A e \in page : \A f \in table :
          f.step \in want[c] /\ Precedes(cursor, f) /\ Precedes(f, e) => f \in page
    BY <1>1, <1>2, PageOfReadable
  <1> HIDE DEF page
  <1>5. /\ stream'[c].at = "reading" /\ stream'[c].cursor = stream[c].cursor
        /\ stream'[c].page = page /\ stream'[c] \in Stream
    BY <1>1, <1>3 DEF TypeOK, Stream, page
  <1>6. ReaderInv(c)'
    <2>1. txn' = txn /\ table' = table /\ nextXid' = nextXid /\ want' = want
          /\ received' = received /\ wire' = wire /\ last' = last
      OBVIOUS
    <2>2. \A e \in page : /\ e \in table /\ e.step \in want[c] /\ Precedes(cursor, e)
                          /\ \A w \in Writers : txn[w] # 0 => e.xid < txn[w]
      BY <1>3 DEF BelowWatermark
    <2> QED BY <1>1, <1>4, <1>5, <2>1, <2>2 DEF ReaderInv, BelowWatermark
  <1>7. OthersKeep(c)
    BY <1>1 DEF OthersKeep, TypeOK
  <1>8. stream' \in [Clients -> Stream]
    BY <1>1, <1>5 DEF TypeOK
  <1> QED BY <1>1, <1>6, <1>7, <1>8, OneReaderMoves DEF TypeOK

\* The page has no gap, so moving the cursor to its end passes over nothing.
LEMMA WritePageKeeps == ASSUME IInv, NEW c \in Clients, WritePage(c) PROVE IInv'
  <1> USE DEF WritePage, writers
  <1> DEFINE cursor == stream[c].cursor
             page == stream[c].page
  <1>1. ReaderInv(c) /\ TypeOK
    BY IInvOfReaders DEF IInv
  <1>2. PICK next \in Positions :
          /\ IsNextPosition(next, page, cursor)
          /\ stream' = [stream EXCEPT ![c] = [at |-> "polling", cursor |-> next, page |-> {}]]
    OBVIOUS
  <1>3. /\ page \in SUBSET Event /\ cursor \in Position /\ last[c] \in Position
        /\ stream[c].at = "reading" /\ table \in SUBSET Event
    BY <1>1 DEF ReaderInv, Stream, TypeOK
  <1>4. \A e \in page : e \in table /\ e.step \in want[c] /\ Precedes(cursor, e)
                        /\ BelowWatermark(e)
    BY <1>1 DEF ReaderInv
  <1>5. /\ next \in Position /\ ~Precedes(next, cursor)
        /\ \A e \in page : ~Precedes(next, e)
        /\ next = cursor \/ \E e \in page : next = PositionOf(e)
    <2>1. IsNextPosition(next, page, cursor) /\ \A e \in page : Precedes(cursor, e)
      BY <1>2, <1>4
    <2> HIDE DEF page, cursor
    <2> QED BY <1>3, <2>1, NextPosition
  <1>6. /\ stream'[c].at = "polling" /\ stream'[c].cursor = next /\ stream'[c].page = {}
        /\ stream'[c] \in Stream /\ wire'[c] = wire[c] \cup page
    BY <1>1, <1>2, <1>5 DEF TypeOK, Stream
  <1>7. next.xid < nextXid /\ \A w \in Writers : txn[w] # 0 => next.xid < txn[w]
    <2>1. CASE next = cursor
      BY <1>1, <2>1 DEF ReaderInv
    <2>2. CASE \E e \in page : next = PositionOf(e)
      BY <1>4, <2>2 DEF PositionOf, BelowWatermark, IInv, IdsAreUnique
    <2> QED BY <1>5, <2>1, <2>2
  <1>8. ~Precedes(next, last[c])
    BY SMTT(30), <1>1, <1>3, <1>5 DEF ReaderInv, Precedes, Position
  <1>9. \A e \in wire[c] : ~Precedes(next, e)
    <2>1. \A e \in wire[c] : ~Precedes(cursor, e) /\ e \in Event
      BY <1>1 DEF ReaderInv
    <2> QED BY <1>3, <1>5, <2>1 DEF Precedes, Position, Event
  <1>10. \A e \in page : Precedes(last[c], e)
    <2>1. ~Precedes(cursor, last[c])
      BY <1>1, <1>3 DEF ReaderInv
    <2> QED BY <1>3, <1>4, <2>1 DEF Precedes, Position, Event
  <1>11. ASSUME NEW e \in table, e.step \in want[c], ~Precedes(next, e)
         PROVE  e \in received[c] \cup wire[c] \cup page
    <2>1. CASE ~Precedes(cursor, e)
      BY <1>1, <1>3, <1>11, <2>1 DEF ReaderInv
    <2>2. CASE Precedes(cursor, e) /\ next = cursor
      BY <1>11, <2>2
    <2>3. CASE Precedes(cursor, e) /\ \E f \in page : next = PositionOf(f)
      <3>1. PICK f \in page : next = PositionOf(f)
        BY <2>3
      <3>2. f \in table /\ f \in Event /\ e \in Event /\ next.xid = f.xid /\ next.id = f.id
        BY <1>3, <1>4, <3>1 DEF PositionOf
      <3>3. Precedes(e, f) \/ (e.xid = f.xid /\ e.id = f.id)
        BY <1>11, <3>2 DEF Precedes, Event
      <3>4. CASE e.id = f.id
        BY <3>1, <3>2, <3>4 DEF IInv, IdsAreUnique
      <3>5. CASE Precedes(e, f)
        BY <1>1, <1>11, <2>3, <3>1, <3>5 DEF ReaderInv
      <3> QED BY <3>3, <3>4, <3>5
    <2> QED BY <1>5, <2>1, <2>2, <2>3
  <1> HIDE DEF cursor, page
  <1>12. ReaderInv(c)'
    <2>1. txn' = txn /\ table' = table /\ nextXid' = nextXid /\ want' = want
          /\ received' = received /\ last' = last
      OBVIOUS
    <2>2. /\ \A e \in received[c] : e.step \in want[c] /\ ~Precedes(last[c], e)
          /\ \A e \in wire[c] : e.step \in want[c] /\ Precedes(last[c], e)
          /\ received[c] \cup wire[c] \subseteq table
          /\ last[c].xid < nextXid
          /\ wire[c] \in SUBSET Event /\ received[c] \in SUBSET Event
          /\ \A w \in Writers : txn[w] # 0 => last[c].xid < txn[w]
          /\ \A e \in table : e.step \in want[c] /\ ~Precedes(last[c], e) => e \in received[c]
      BY <1>1 DEF ReaderInv
    <2>3. /\ wire'[c] \in SUBSET Event
          /\ \A e \in wire'[c] : e.step \in want[c] /\ Precedes(last[c], e) /\ ~Precedes(next, e)
          /\ received[c] \cup wire'[c] \subseteq table
      BY <1>3, <1>4, <1>5, <1>6, <1>9, <1>10, <2>2
    <2>4. \A e \in table : e.step \in want[c] /\ ~Precedes(next, e) => e \in received[c] \cup wire'[c]
      BY <1>6, <1>11
    <2> QED BY <1>3, <1>6, <1>7, <1>8, <2>1, <2>2, <2>3, <2>4 DEF ReaderInv
  <1>13. OthersKeep(c)
    BY <1>1, <1>2 DEF OthersKeep, TypeOK
  <1>14. stream' \in [Clients -> Stream] /\ wire' \in [Clients -> SUBSET Event]
    BY <1>1, <1>2, <1>3, <1>5 DEF TypeOK, Stream, page
  <1> QED BY <1>1, <1>12, <1>13, <1>14, OneReaderMoves DEF TypeOK

\* The client's position follows what it receives, in the order of the wire.
LEMMA ReceiveKeeps == ASSUME IInv, NEW c \in Clients, Receive(c) PROVE IInv'
  <1> USE DEF Receive, writers
  <1>1. ReaderInv(c) /\ TypeOK
    BY IInvOfReaders DEF IInv
  <1>2. PICK e \in wire[c] :
          /\ \A f \in wire[c] \ {e} : Precedes(e, f)
          /\ wire' = [wire EXCEPT ![c] = @ \ {e}]
          /\ received' = [received EXCEPT ![c] = @ \cup {e}]
          /\ last' = [last EXCEPT ![c] = PositionOf(e)]
    OBVIOUS
  <1> DEFINE next == PositionOf(e)
  <1>3. /\ e \in Event /\ e \in table /\ e.step \in want[c] /\ Precedes(last[c], e)
        /\ ~Precedes(stream[c].cursor, e) /\ last[c] \in Position
        /\ stream[c].at # "closed" /\ stream[c].cursor \in Position
    BY <1>1 DEF ReaderInv, Stream
  <1>4. next \in Position /\ next.xid = e.xid /\ next.id = e.id
    BY <1>3 DEF PositionOf, Position, Event
  <1>5. /\ wire'[c] = wire[c] \ {e} /\ received'[c] = received[c] \cup {e} /\ last'[c] = next
        /\ stream'[c] = stream[c]
    BY <1>1, <1>2 DEF TypeOK
  <1> HIDE DEF next
  <1>6. ~Precedes(stream[c].cursor, next) /\ ~Precedes(next, e)
    BY <1>3, <1>4 DEF Precedes, Position, Event
  <1>7. ASSUME NEW f \in received[c] PROVE ~Precedes(next, f)
    <2>1. ~Precedes(last[c], f) /\ f \in Event
      BY <1>1 DEF ReaderInv
    <2> QED BY <1>3, <1>4, <2>1 DEF Precedes, Position, Event
  <1>8. ASSUME NEW f \in wire'[c] PROVE Precedes(next, f) /\ f \in wire[c]
    BY <1>2, <1>4, <1>5 DEF Precedes
  <1>9. next.xid < nextXid /\ \A w \in Writers : txn[w] # 0 => next.xid < txn[w]
    <2>1. stream[c].cursor.xid < nextXid
          /\ \A w \in Writers : txn[w] # 0 => stream[c].cursor.xid < txn[w]
      BY <1>1 DEF ReaderInv
    <2>2. next.xid <= stream[c].cursor.xid
      BY <1>3, <1>4, <1>6 DEF Precedes, Position
    <2>3. nextXid \in Nat /\ \A w \in Writers : txn[w] \in Nat
      BY <1>1 DEF TypeOK
    <2> QED BY <1>3, <1>4, <2>1, <2>2, <2>3 DEF Position
  <1>10. ASSUME NEW f \in table, f.step \in want[c], ~Precedes(next, f) PROVE f \in received'[c]
    <2>1. f \in Event
      BY <1>1 DEF TypeOK
    <2>2. ~Precedes(stream[c].cursor, f)
      BY <1>3, <1>4, <1>6, <1>10, <2>1 DEF Precedes, Position, Event
    <2>3. f \in received[c] \cup wire[c]
      BY <1>1, <1>3, <1>10, <2>2 DEF ReaderInv
    <2>4. CASE f \in wire[c] \ {e}
      BY <1>2, <1>3, <1>4, <1>10, <2>1, <2>4 DEF Precedes, Event
    <2> QED BY <1>5, <2>3, <2>4
  <1>11. ReaderInv(c)'
    <2>1. txn' = txn /\ table' = table /\ nextXid' = nextXid /\ want' = want /\ stream' = stream
      OBVIOUS
    <2>2. /\ \A f \in received'[c] : f.step \in want[c] /\ ~Precedes(next, f)
          /\ \A f \in wire'[c] : /\ f.step \in want[c] /\ Precedes(next, f)
                                 /\ ~Precedes(stream[c].cursor, f)
          /\ wire'[c] \in SUBSET Event /\ received'[c] \in SUBSET Event
          /\ received'[c] \cup wire'[c] \subseteq table
      BY <1>1, <1>3, <1>5, <1>6, <1>7, <1>8 DEF ReaderInv
    <2>3. \A f \in table : f.step \in want[c] /\ ~Precedes(stream[c].cursor, f) =>
                             f \in received'[c] \cup wire'[c]
      BY <1>1, <1>3, <1>5 DEF ReaderInv
    <2> QED BY <1>1, <1>3, <1>4, <1>5, <1>6, <1>9, <1>10, <2>1, <2>2, <2>3
            DEF ReaderInv, BelowWatermark
  <1>12. OthersKeep(c)
    BY <1>1, <1>2 DEF OthersKeep, TypeOK
  <1>13. /\ wire' \in [Clients -> SUBSET Event] /\ received' \in [Clients -> SUBSET Event]
         /\ last' \in [Clients -> Position]
    BY <1>1, <1>2, <1>3, <1>4 DEF TypeOK, next
  <1> QED BY <1>1, <1>11, <1>12, <1>13, OneReaderMoves DEF TypeOK

LEMMA FetchPageKeeps == ASSUME IInv, NEW c \in Clients, FetchPage(c) PROVE IInv'
  <1> USE DEF FetchPage, writers
  <1>1. ReaderInv(c) /\ TypeOK /\ HistoryIsFinite
    BY IInvOfReaders DEF IInv
  <1>2. PICK n \in 1 .. PageSize :
          LET page == Page(Readable(c, last[c]), n)
          IN  /\ received' = [received EXCEPT ![c] = @ \cup page]
              /\ \E next \in Positions : /\ IsNextPosition(next, page, last[c])
                                         /\ last' = [last EXCEPT ![c] = next]
    OBVIOUS
  <1> DEFINE page == Page(Readable(c, last[c]), n)
  <1>3. PICK next \in Positions : /\ IsNextPosition(next, page, last[c])
                                  /\ last' = [last EXCEPT ![c] = next]
    BY <1>2
  <1>4. last[c] \in Position /\ n \in Nat /\ stream[c].at = "closed" /\ wire[c] = {}
    BY <1>1, EventStreamAssumption DEF ReaderInv
  <1>5. page \in SUBSET Event /\ \A e \in page : /\ e \in table /\ e.step \in want[c]
                                                 /\ BelowWatermark(e) /\ Precedes(last[c], e)
    BY <1>1, <1>4, ReadableEvents, PagesAreFound
  <1>6. \A e \in page : \A f \in table :
          f.step \in want[c] /\ Precedes(last[c], f) /\ Precedes(f, e) => f \in page
    BY <1>1, <1>4, PageOfReadable
  <1>7. /\ received'[c] = received[c] \cup page /\ last'[c] = next /\ wire'[c] = {}
        /\ stream'[c] = stream[c]
    BY <1>1, <1>2, <1>3, <1>4 DEF TypeOK
  <1> HIDE DEF page
  <1>8. /\ next \in Position /\ ~Precedes(next, last[c])
        /\ \A e \in page : ~Precedes(next, e)
        /\ next = last[c] \/ \E e \in page : next = PositionOf(e)
    BY <1>3, <1>4, <1>5, NextPosition
  <1>9. next.xid < nextXid /\ \A w \in Writers : txn[w] # 0 => next.xid < txn[w]
    <2>1. CASE next = last[c]
      BY <1>1, <2>1 DEF ReaderInv
    <2>2. CASE \E e \in page : next = PositionOf(e)
      BY <1>5, <2>2 DEF PositionOf, BelowWatermark, IInv, IdsAreUnique
    <2> QED BY <1>8, <2>1, <2>2
  <1>10. ASSUME NEW f \in received[c] PROVE ~Precedes(next, f)
    <2>1. ~Precedes(last[c], f) /\ f \in Event
      BY <1>1 DEF ReaderInv
    <2> QED BY <1>4, <1>8, <2>1 DEF Precedes, Position, Event
  <1>11. ASSUME NEW e \in table, e.step \in want[c], ~Precedes(next, e)
         PROVE  e \in received[c] \cup page
    <2>1. CASE ~Precedes(last[c], e)
      BY <1>1, <1>11, <2>1 DEF ReaderInv
    <2>2. CASE Precedes(last[c], e) /\ next = last[c]
      BY <1>11, <2>2
    <2>3. CASE Precedes(last[c], e) /\ \E f \in page : next = PositionOf(f)
      <3>1. PICK f \in page : next = PositionOf(f)
        BY <2>3
      <3>2. f \in table /\ f \in Event /\ e \in Event /\ next.xid = f.xid /\ next.id = f.id
        BY <1>1, <1>5, <3>1 DEF PositionOf, TypeOK
      <3>3. Precedes(e, f) \/ (e.xid = f.xid /\ e.id = f.id)
        BY <1>11, <3>2 DEF Precedes, Event
      <3>4. CASE e.id = f.id
        BY <3>1, <3>2, <3>4 DEF IInv, IdsAreUnique
      <3>5. CASE Precedes(e, f)
        BY <1>6, <1>11, <2>3, <3>1, <3>5
      <3> QED BY <3>3, <3>4, <3>5
    <2> QED BY <1>8, <2>1, <2>2, <2>3
  <1>12. ReaderInv(c)'
    <2>1. txn' = txn /\ table' = table /\ nextXid' = nextXid /\ want' = want
      OBVIOUS
    <2>2. /\ \A f \in received'[c] : f.step \in want[c] /\ ~Precedes(next, f)
          /\ received'[c] \in SUBSET Event /\ received'[c] \subseteq table
      BY <1>1, <1>5, <1>7, <1>8, <1>10 DEF ReaderInv
    <2>3. /\ stream[c] \in Stream /\ stream[c].cursor.xid < nextXid /\ stream[c].page = {}
          /\ \A w \in Writers : txn[w] # 0 => stream[c].cursor.xid < txn[w]
      BY <1>1, <1>4 DEF ReaderInv
    <2> QED BY <1>4, <1>7, <1>8, <1>9, <1>11, <2>1, <2>2, <2>3 DEF ReaderInv
  <1>13. OthersKeep(c)
    BY <1>1, <1>2, <1>3 DEF OthersKeep, TypeOK
  <1>14. received' \in [Clients -> SUBSET Event] /\ last' \in [Clients -> Position]
    BY <1>1, <1>2, <1>3, <1>5, <1>8 DEF TypeOK, page
  <1> QED BY <1>1, <1>12, <1>13, <1>14, OneReaderMoves DEF TypeOK

-----------------------------------------------------------------------------
(* Theorems                                                                *)

\* The inductive invariant holds in every reachable state.
THEOREM Invariance == Spec => []IInv
  <1>1. IInv /\ [Next]_vars => IInv'
    <2> SUFFICES ASSUME IInv, [Next]_vars PROVE IInv'
      OBVIOUS
    <2>1. CASE UNCHANGED vars
      BY <2>1 DEF vars, IInv, TypeOK, IdsAreUnique, HistoryIsFinite, ReadersAreOrdered,
                  PagesHaveNoGap, BelowWatermark, NothingCommitsBehindAReader, NothingSkipped
    <2>2. ASSUME NEW w \in Writers, Write(w) PROVE IInv'
      BY <2>2, AssignXidKeeps, InsertKeeps, CommitTxnKeeps, RollbackKeeps DEF Write
    <2>3. ASSUME NEW c \in Clients, Read(c) PROVE IInv'
      BY <2>3, FetchPageKeeps, ConnectKeeps, ReadPageKeeps, WritePageKeeps, ReceiveKeeps,
         DisconnectKeeps DEF Read
    <2> QED BY <2>1, <2>2, <2>3 DEF Next
  <1> QED BY InitEstablishes, <1>1, PTL DEF Spec

\* No reader ever comes past a committed event it asked for without having it.
THEOREM NothingIsSkipped == Spec => []NothingSkipped
  <1>1. IInv => NothingSkipped
    BY DEF IInv
  <1> QED BY Invariance, <1>1, PTL

\* Whatever is still to commit lies beyond every reader.
THEOREM NoCommitBehindAReader == Spec => []NothingCommitsBehindAReader
  <1>1. IInv => NothingCommitsBehindAReader
    BY DEF IInv
  <1> QED BY Invariance, <1>1, PTL

\* What a page holds lies beyond the client, and so beyond all it has received.
LEMMA BeyondReceived ==
  ASSUME IInv, NEW c \in Clients, NEW new \in Event, Precedes(last[c], new)
  PROVE  \A old \in received[c] : Precedes(old, new)
  <1> SUFFICES ASSUME NEW old \in received[c] PROVE Precedes(old, new)
    OBVIOUS
  <1>1. old \in Event /\ ~Precedes(last[c], old) /\ last[c] \in Position
    BY IInvOfReaders DEF ReaderInv
  <1> QED BY <1>1 DEF Precedes, Event, Position

\* The history a client collects only grows at its end.
THEOREM HistoryIsAscending == Spec => OneAscendingHistory
  <1>1. IInv /\ [Next]_vars => \A c \in Clients : ArrivesInOrder(c)
    <2> SUFFICES ASSUME IInv, [Next]_vars, NEW c \in Clients PROVE ArrivesInOrder(c)
      OBVIOUS
    <2>w. \A e \in wire[c] : e \in Event /\ e.step \in want[c] /\ Precedes(last[c], e)
      BY IInvOfReaders DEF ReaderInv
    <2>t. TypeOK /\ HistoryIsFinite /\ last[c] \in Position /\ stream[c] \in Stream
      BY DEF IInv, TypeOK
    <2>1. ASSUME received'[c] = received[c], last'[c] = last[c], want'[c] = want[c],
                 \A e \in wire'[c] : e \in Event /\ e.step \in want[c] /\ Precedes(last[c], e)
          PROVE  ArrivesInOrder(c)
      BY <2>1, BeyondReceived DEF ArrivesInOrder
    <2>2. CASE UNCHANGED <<received, last, want, wire>>
      BY <2>1, <2>2, <2>w
    <2>3. ASSUME NEW w \in Writers, Write(w) PROVE ArrivesInOrder(c)
      BY <2>2, <2>3 DEF Write, AssignXid, Insert, CommitTxn, Rollback, readers
    <2>4. ASSUME NEW d \in Clients, Connect(d) \/ ReadPage(d) PROVE ArrivesInOrder(c)
      BY <2>2, <2>4 DEF Connect, ReadPage
    <2>5. ASSUME NEW d \in Clients, Disconnect(d) PROVE ArrivesInOrder(c)
      <3>1. wire'[c] \subseteq wire[c]
        BY <2>5, <2>t DEF Disconnect, TypeOK
      <3> QED BY <2>1, <2>5, <2>w, <3>1 DEF Disconnect
    <2>6. ASSUME NEW d \in Clients, WritePage(d) PROVE ArrivesInOrder(c)
      <3>1. \A e \in stream[c].page : e \in Event /\ e.step \in want[c]
                                      /\ Precedes(stream[c].cursor, e)
        BY <2>t, IInvOfReaders DEF ReaderInv, Stream
      <3>2. CASE d = c
        <4>1. stream[c].at = "reading"
          BY <2>6, <3>2 DEF WritePage
        <4>2. ~Precedes(stream[c].cursor, last[c]) /\ stream[c].cursor \in Position
          BY <2>t, <4>1, IInvOfReaders DEF ReaderInv, Stream
        <4>3. \A e \in stream[c].page : Precedes(last[c], e)
          BY <2>t, <3>1, <4>2 DEF Precedes, Position, Event
        <4>4. wire'[c] = wire[c] \cup stream[c].page
          BY <2>6, <2>t, <3>2 DEF WritePage, TypeOK
        <4> QED BY <2>1, <2>6, <2>w, <3>1, <4>3, <4>4 DEF WritePage
      <3>3. CASE d # c
        <4>1. wire'[c] = wire[c]
          BY <2>6, <2>t, <3>3 DEF WritePage, TypeOK
        <4> QED BY <2>1, <2>6, <2>w, <4>1 DEF WritePage
      <3> QED BY <3>2, <3>3
    <2>7. ASSUME NEW d \in Clients, Receive(d) PROVE ArrivesInOrder(c)
      <3>1. PICK e \in wire[d] :
              /\ \A f \in wire[d] \ {e} : Precedes(e, f)
              /\ wire' = [wire EXCEPT ![d] = @ \ {e}]
              /\ received' = [received EXCEPT ![d] = @ \cup {e}]
              /\ last' = [last EXCEPT ![d] = PositionOf(e)]
        BY <2>7 DEF Receive
      <3>2. want' = want
        BY <2>7 DEF Receive
      <3>3. CASE d # c
        <4>1. wire'[c] = wire[c] /\ received'[c] = received[c] /\ last'[c] = last[c]
          BY <2>t, <3>1, <3>3 DEF TypeOK
        <4> QED BY <2>1, <2>w, <3>2, <4>1
      <3>4. CASE d = c
        <4>1. /\ wire'[c] = wire[c] \ {e} /\ received'[c] = received[c] \cup {e}
              /\ last'[c] = PositionOf(e)
          BY <2>t, <3>1, <3>4 DEF TypeOK
        <4>2. Precedes(last[c], PositionOf(e))
          BY <2>w, <3>4 DEF Precedes, PositionOf
        <4>3. \A new \in wire[c] : \A old \in received[c] : Precedes(old, new)
          BY <2>w, BeyondReceived
        <4> QED BY <2>w, <3>2, <3>4, <4>1, <4>2, <4>3 DEF ArrivesInOrder
      <3> QED BY <3>3, <3>4
    <2>8. ASSUME NEW d \in Clients, FetchPage(d) PROVE ArrivesInOrder(c)
      <3>1. PICK n \in 1 .. PageSize :
              LET page == Page(Readable(d, last[d]), n)
              IN  /\ received' = [received EXCEPT ![d] = @ \cup page]
                  /\ \E next \in Positions : /\ IsNextPosition(next, page, last[d])
                                             /\ last' = [last EXCEPT ![d] = next]
        BY <2>8 DEF FetchPage
      <3>2. wire' = wire /\ want' = want /\ stream[d].at = "closed"
        BY <2>8 DEF FetchPage
      <3>3. CASE d # c
        <4>1. received'[c] = received[c] /\ last'[c] = last[c]
          BY <2>t, <3>1, <3>3 DEF TypeOK
        <4> QED BY <2>1, <2>w, <3>2, <4>1
      <3>4. CASE d = c
        <4> DEFINE page == Page(Readable(c, last[c]), n)
        <4>1. PICK next \in Positions : /\ IsNextPosition(next, page, last[c])
                                        /\ last' = [last EXCEPT ![c] = next]
          BY <3>1, <3>4
        <4>2. /\ page \in SUBSET Event
              /\ \A e \in page : e.step \in want[c] /\ Precedes(last[c], e)
          BY <2>t, ReadableEvents, PagesAreFound
        <4>3. received'[c] = received[c] \cup page /\ last'[c] = next
          BY <2>t, <3>1, <3>4, <4>1 DEF TypeOK
        <4> HIDE DEF page
        <4>4. next = last[c] \/ Precedes(last[c], next)
          <5>1. \A e \in page : Precedes(last[c], e)
            BY <4>2
          <5>2. IsNextPosition(next, page, last[c]) /\ page \in SUBSET Event
            BY <4>1, <4>2
          <5>3. last[c] \in Position
            BY <2>t
          <5>4. next = last[c] \/ \E e \in page : next = PositionOf(e)
            BY <5>1, <5>2, <5>3, NextPosition
          <5> QED BY <5>1, <5>4 DEF Precedes, PositionOf
        <4>5. wire[c] = {}
          BY <3>2, <3>4, IInvOfReaders DEF ReaderInv
        <4>6. \A new \in page : \A old \in received[c] : Precedes(old, new)
          BY <4>2, BeyondReceived
        <4> QED BY <3>2, <4>2, <4>3, <4>4, <4>5, <4>6 DEF ArrivesInOrder
      <3> QED BY <3>3, <3>4
    <2>9. CASE UNCHANGED vars
      BY <2>2, <2>9 DEF vars
    <2> QED BY <2>3, <2>4, <2>5, <2>6, <2>7, <2>8, <2>9 DEF Next, Read
  <1> QED BY Invariance, <1>1, PTL DEF Spec, OneAscendingHistory
=============================================================================
