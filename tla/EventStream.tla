---------------------------- MODULE EventStream ----------------------------
(***************************************************************************)
(* Reading the step_events table while it is written (db/step-events.ts    *)
(* and api/events.ts).                                                     *)
(*                                                                         *)
(* Writers are the transactions of StepStore, reduced to what a reader can *)
(* tell: a transaction gets a transaction id (xid) at its first write or   *)
(* row lock, each event gets its id from a sequence when it is inserted,   *)
(* and both become visible together at commit, in any order.  A rolled     *)
(* back transaction leaves a gap in both numberings.                       *)
(*                                                                         *)
(* A client pages with GET /api/events or holds an SSE stream open.  The   *)
(* server polls for it from a cursor; what it wrote is on the wire until   *)
(* the client receives it, and is lost if the connection closes first.     *)
(***************************************************************************)
EXTENDS Integers, FiniteSets

CONSTANTS
  Writers,    \* concurrent write transactions
  Clients,    \* readers of the event history
  Steps,      \* step ids
  PageSize,   \* events one read may return
  MaxXid,     \* bound: transaction ids handed out
  MaxId       \* bound: event ids handed out

ASSUME EventStreamAssumption ==
  /\ PageSize \in Nat \ {0}
  /\ MaxXid \in Nat
  /\ MaxId \in Nat

VARIABLES
  nextXid,    \* the next transaction id
  nextId,     \* the next value of the event id sequence
  txn,        \* xid of each writer's open transaction, 0 when it has none
  pending,    \* events each writer has inserted and not committed
  table,      \* committed events
  want,       \* the steps whose events each client asks for (stepId filter)
  stream,     \* each client's stream: the server's side of it
  wire,       \* events written to the client and not received yet
  received,   \* events the client has received
  last        \* position of the newest event received: Last-Event-ID, afterId

writers == <<nextXid, nextId, txn, pending, table>>
readers == <<want, stream, wire, received, last>>
vars == <<nextXid, nextId, txn, pending, table, want, stream, wire, received, last>>

Event    == [xid : Nat \ {0}, id : Nat \ {0}, step : Steps]
Position == [xid : Nat, id : Nat]

\* EVENT_CURSOR_START
Start == [xid |-> 0, id |-> 0]

\* Mutant: the durable id is used as if its transaction were the oldest.
PositionById(e) == [xid |-> 0, id |-> e.id]

PositionOf(e) == [xid |-> e.xid, id |-> e.id]

Closed == [at |-> "closed", cursor |-> Start, page |-> {}]

Stream == [at : {"closed", "polling", "reading"}, cursor : Position, page : SUBSET Event]

TypeOK ==
  /\ nextXid \in Nat \ {0}
  /\ nextId \in Nat \ {0}
  /\ txn \in [Writers -> Nat]
  /\ pending \in [Writers -> SUBSET Event]
  /\ table \in SUBSET Event
  /\ want \in [Clients -> SUBSET Steps]
  /\ stream \in [Clients -> Stream]
  /\ wire \in [Clients -> SUBSET Event]
  /\ received \in [Clients -> SUBSET Event]
  /\ last \in [Clients -> Position]

\* No filter, or one step.
Filters == {Steps} \cup {{s} : s \in Steps}

Init ==
  /\ nextXid = 1 /\ nextId = 1
  /\ txn = [w \in Writers |-> 0]
  /\ pending = [w \in Writers |-> {}]
  /\ table = {}
  /\ want \in [Clients -> Filters]
  /\ stream = [c \in Clients |-> Closed]
  /\ wire = [c \in Clients |-> {}]
  /\ received = [c \in Clients |-> {}]
  /\ last = [c \in Clients |-> Start]

-----------------------------------------------------------------------------
(* Write transactions                                                      *)

\* The first row lock or write of a transaction gets it an xid.  It may write
\* no event at all: a lease renewal, a rejected owner write.
AssignXid(w) ==
  /\ txn[w] = 0 /\ nextXid <= MaxXid
  /\ txn' = [txn EXCEPT ![w] = nextXid]
  /\ nextXid' = nextXid + 1
  /\ UNCHANGED <<nextId, pending, table, readers>>

\* recordStepEvent, or one row of a sweep's INSERT: the id comes from the
\* sequence now, the row becomes visible later.
Insert(w, s) ==
  /\ txn[w] # 0 /\ nextId <= MaxId
  /\ pending' = [pending EXCEPT ![w] = @ \cup {[xid |-> txn[w], id |-> nextId, step |-> s]}]
  /\ nextId' = nextId + 1
  /\ UNCHANGED <<nextXid, txn, table, readers>>

CommitTxn(w) ==
  /\ txn[w] # 0
  /\ table' = table \cup pending[w]
  /\ txn' = [txn EXCEPT ![w] = 0]
  /\ pending' = [pending EXCEPT ![w] = {}]
  /\ UNCHANGED <<nextXid, nextId, readers>>

\* Mutant: a rollback that leaves its inserts to the next transaction.
RollbackKeepsInserts(w) ==
  /\ txn[w] # 0
  /\ txn' = [txn EXCEPT ![w] = 0]
  /\ UNCHANGED <<nextXid, nextId, pending, table, readers>>

Rollback(w) ==
  /\ txn[w] # 0
  /\ txn' = [txn EXCEPT ![w] = 0]
  /\ pending' = [pending EXCEPT ![w] = {}]
  /\ UNCHANGED <<nextXid, nextId, table, readers>>

-----------------------------------------------------------------------------
(* listStepEvents                                                          *)

\* (a.xid, a.id) < (b.xid, b.id)
Precedes(a, b) == a.xid < b.xid \/ (a.xid = b.xid /\ a.id < b.id)

\* xid < pg_snapshot_xmin(pg_current_snapshot()): older than every open transaction.
BelowWatermark(e) == \A w \in Writers : txn[w] # 0 => e.xid < txn[w]

\* The WHERE clause.
Readable(c, cursor) ==
  {e \in table : e.step \in want[c] /\ BelowWatermark(e) /\ Precedes(cursor, e)}

\* ORDER BY xid, id LIMIT n
Page(found, n) ==
  {e \in found : Cardinality({f \in found : f = e \/ Precedes(f, e)}) <= n}

\* The position after a page: its last event, or where the reader was.
IsNextPosition(next, page, cursor) ==
  IF page = {} THEN next = cursor
  ELSE \E e \in page : next = PositionOf(e) /\ \A f \in page \ {e} : Precedes(f, e)

Positions == {PositionOf(e) : e \in table} \cup {Start}

-----------------------------------------------------------------------------
(* The clients                                                             *)

\* GET /api/events: the cursor is resolved from afterId and one page read.
\* A response that is lost changes nothing: the client asks again.
FetchPage(c) ==
  /\ stream[c].at = "closed"
  /\ \E n \in 1 .. PageSize :
       LET page == Page(Readable(c, last[c]), n)
       IN  /\ received' = [received EXCEPT ![c] = @ \cup page]
           /\ \E next \in Positions :
                /\ IsNextPosition(next, page, last[c])
                /\ last' = [last EXCEPT ![c] = next]
  /\ UNCHANGED <<writers, want, stream, wire>>

\* GET /api/events/stream: the server resumes after the client's Last-Event-ID.
Connect(c) ==
  /\ stream[c].at = "closed"
  /\ stream' = [stream EXCEPT ![c] = [at |-> "polling", cursor |-> last[c], page |-> {}]]
  /\ UNCHANGED <<writers, want, wire, received, last>>

\* The statement of one poll takes its snapshot.
ReadPage(c) ==
  /\ stream[c].at = "polling"
  /\ stream' = [stream EXCEPT ![c].at = "reading",
                              ![c].page = Page(Readable(c, stream[c].cursor), PageSize)]
  /\ UNCHANGED <<writers, want, wire, received, last>>

\* Mutant: the stream ends at the first poll that finds nothing new.
WriteNonEmptyPage(c) ==
  /\ stream[c].at = "reading" /\ stream[c].page # {}
  /\ \E next \in Positions :
       /\ IsNextPosition(next, stream[c].page, stream[c].cursor)
       /\ stream' = [stream EXCEPT ![c] = [at |-> "polling", cursor |-> next, page |-> {}]]
  /\ wire' = [wire EXCEPT ![c] = @ \cup stream[c].page]
  /\ UNCHANGED <<writers, want, received, last>>

\* The page is written, and only then the cursor moves past it.
WritePage(c) ==
  /\ stream[c].at = "reading"
  /\ \E next \in Positions :
       /\ IsNextPosition(next, stream[c].page, stream[c].cursor)
       /\ stream' = [stream EXCEPT ![c] = [at |-> "polling", cursor |-> next, page |-> {}]]
  /\ wire' = [wire EXCEPT ![c] = @ \cup stream[c].page]
  /\ UNCHANGED <<writers, want, received, last>>

\* The bytes arrive in the order they were written.
Receive(c) ==
  /\ \E e \in wire[c] :
       /\ \A f \in wire[c] \ {e} : Precedes(e, f)
       /\ wire' = [wire EXCEPT ![c] = @ \ {e}]
       /\ received' = [received EXCEPT ![c] = @ \cup {e}]
       /\ last' = [last EXCEPT ![c] = PositionOf(e)]
  /\ UNCHANGED <<writers, want, stream>>

\* Mutant: the client counts what the server wrote as received.
DisconnectLosingWire(c) ==
  /\ stream[c].at # "closed"
  /\ stream' = [stream EXCEPT ![c] = Closed]
  /\ wire' = [wire EXCEPT ![c] = {}]
  /\ last' = [last EXCEPT ![c] = stream[c].cursor]
  /\ UNCHANGED <<writers, want, received>>

\* A closed connection, a failed read or a server shutdown: what was on the
\* wire is lost.
Disconnect(c) ==
  /\ stream[c].at # "closed"
  /\ stream' = [stream EXCEPT ![c] = Closed]
  /\ wire' = [wire EXCEPT ![c] = {}]
  /\ UNCHANGED <<writers, want, received, last>>

Write(w) == AssignXid(w) \/ (\E s \in Steps : Insert(w, s)) \/ CommitTxn(w) \/ Rollback(w)

Read(c) ==
  FetchPage(c) \/ Connect(c) \/ ReadPage(c) \/ WritePage(c) \/ Receive(c) \/ Disconnect(c)

Next == (\E w \in Writers : Write(w)) \/ (\E c \in Clients : Read(c))

Spec == Init /\ [][Next]_vars

\* Transactions end, a closed client reconnects, an open stream keeps polling,
\* and a client with events on the wire is not cut off every single time.
Fairness ==
  /\ \A w \in Writers : WF_vars(CommitTxn(w) \/ Rollback(w))
  /\ \A c \in Clients : /\ WF_vars(Connect(c))
                        /\ SF_vars(ReadPage(c))
                        /\ SF_vars(WritePage(c))
                        /\ SF_vars(Receive(c))

FairSpec == Spec /\ Fairness

-----------------------------------------------------------------------------
(* Properties                                                              *)

\* A client that has come past an event has it: every committed event at or
\* before a reader's position was delivered to it, also when the event
\* committed after a later one (step-events.ts, "no risk of skipping an event
\* that commits out of id order").
NothingSkipped ==
  \A c \in Clients : \A e \in table :
    /\ e.step \in want[c] /\ ~Precedes(last[c], e) => e \in received[c]
    /\ e.step \in want[c] /\ stream[c].at # "closed" /\ ~Precedes(stream[c].cursor, e) =>
         e \in received[c] \cup wire[c]

ArrivesInOrder(c) ==
  /\ received[c] \subseteq received'[c]
  /\ last'[c] = last[c] \/ Precedes(last[c], last'[c])
  /\ \A new \in (received'[c] \ received[c]) \cup wire'[c] :
       /\ new.step \in want[c]
       /\ \A old \in received[c] : Precedes(old, new)

\* The history a client collects, over any number of pages, streams and
\* reconnections, is one ascending sequence: nothing arrives twice and nothing
\* arrives behind what was already there (api/events.ts, "resumes exactly
\* where this page stopped").
OneAscendingHistory == [][\A c \in Clients : ArrivesInOrder(c)]_vars

\* Only what committed is ever delivered, and never from a transaction that
\* could still be followed by a smaller position: all that is still to commit
\* lies beyond every reader.
NothingCommitsBehindAReader ==
  \A c \in Clients :
    /\ received[c] \cup wire[c] \subseteq table
    /\ \A w \in Writers : txn[w] # 0 => last[c].xid < txn[w] /\ stream[c].cursor.xid < txn[w]

\* Every committed event a client asked for reaches it (the stream "trails the
\* oldest in-flight write transaction", but does not stop).
EveryEventArrives ==
  \A c \in Clients, i \in 1 .. MaxId :
    (\E e \in table : e.id = i /\ e.step \in want[c])
      ~> (\E e \in received[c] : e.id = i)

-----------------------------------------------------------------------------
(* The inductive invariant                                                 *)

\* Transaction ids and event ids are handed out once; an event carries the
\* xid of its transaction, and a committed event's transaction is over.
IdsAreUnique ==
  /\ \A w \in Writers : /\ txn[w] < nextXid
                        /\ txn[w] = 0 => pending[w] = {}
                        /\ \A v \in Writers \ {w} : txn[w] # 0 => txn[w] # txn[v]
                        /\ \A e \in pending[w] : e.xid = txn[w] /\ e.id < nextId
                        /\ \A e \in pending[w], f \in pending[w] \cup table :
                             e.id = f.id => e = f
                        /\ \A e \in table : e.xid # txn[w]
  /\ \A w, v \in Writers : \A e \in pending[w], f \in pending[v] : e.id = f.id => w = v
  /\ \A e \in table : e.xid < nextXid /\ e.id < nextId
  /\ \A e, f \in table : e.id = f.id => e = f

HistoryIsFinite == IsFiniteSet(table) /\ \A w \in Writers : IsFiniteSet(pending[w])

\* What a client has received lies at or before its position, what is on the
\* wire lies after it and at or before the server's cursor.
ReadersAreOrdered ==
  \A c \in Clients :
    /\ last[c].xid < nextXid /\ stream[c].cursor.xid < nextXid
    /\ \A e \in received[c] : e.step \in want[c] /\ ~Precedes(last[c], e)
    /\ \A e \in wire[c] : /\ e.step \in want[c] /\ Precedes(last[c], e)
                          /\ ~Precedes(stream[c].cursor, e)
    /\ IF stream[c].at = "closed" THEN wire[c] = {}
       ELSE ~Precedes(stream[c].cursor, last[c])

\* A page in the server's hands starts after its cursor and has no gap, also
\* when more events have committed since it was read.
PagesHaveNoGap ==
  \A c \in Clients :
    /\ stream[c].at # "reading" => stream[c].page = {}
    /\ \A e \in stream[c].page :
         /\ e \in table /\ e.step \in want[c] /\ Precedes(stream[c].cursor, e)
         /\ BelowWatermark(e)
         /\ \A f \in table :
              f.step \in want[c] /\ Precedes(stream[c].cursor, f) /\ Precedes(f, e) =>
                f \in stream[c].page

IInv ==
  /\ TypeOK
  /\ IdsAreUnique
  /\ HistoryIsFinite
  /\ ReadersAreOrdered
  /\ PagesHaveNoGap
  /\ NothingCommitsBehindAReader
  /\ NothingSkipped
=============================================================================
