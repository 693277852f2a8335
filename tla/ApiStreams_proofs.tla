------------------------- MODULE ApiStreams_proofs -------------------------
(* Machine-checked proofs about ApiStreams, for any number of clients. *)
EXTENDS ApiStreams, TLAPS

\* The two ways a handler changes what is registered, whatever it was doing: the
\* finally block, and a further turn of the loop while the server runs.
LEMMA EndStreamPreserves ==
  ASSUME RegisteredStreamsArePolling, NEW c \in Clients, Running, EndStream(c)
  PROVE  RegisteredStreamsArePolling'
  <1>1. TypeOK'
    BY DEF RegisteredStreamsArePolling, TypeOK, EndStream, Goto, Handler
  <1>2. controllers' = {d \in Clients : Polling(d)'}
    BY DEF RegisteredStreamsArePolling, TypeOK, EndStream, Goto, Polling
  <1>3. server' # "exited"
    BY DEF EndStream, Running
  <1> QED BY <1>1, <1>2, <1>3 DEF RegisteredStreamsArePolling

LEMMA BeginReadPreserves ==
  ASSUME RegisteredStreamsArePolling, NEW c \in Clients, Running, BeginRead(c)
  PROVE  RegisteredStreamsArePolling'
  <1>1. CASE server = "draining"
    BY <1>1, EndStreamPreserves DEF BeginRead
  <1>2. CASE server # "draining"
    <2>1. TypeOK'
      BY <1>2 DEF RegisteredStreamsArePolling, TypeOK, BeginRead, Goto, Handler
    <2>2. controllers' = {d \in Clients : Polling(d)'}
      BY <1>2 DEF RegisteredStreamsArePolling, TypeOK, BeginRead, Goto, Polling
    <2>3. server' # "exited"
      BY <1>2 DEF BeginRead, Running
    <2> QED BY <2>1, <2>2, <2>3 DEF RegisteredStreamsArePolling
  <1> QED BY <1>1, <1>2


LEMMA NextPreserves ==
  RegisteredStreamsArePolling /\ [Next]_vars => RegisteredStreamsArePolling'
  <1> SUFFICES ASSUME RegisteredStreamsArePolling, [Next]_vars
               PROVE  RegisteredStreamsArePolling'
    OBVIOUS
  <1> USE DEF RegisteredStreamsArePolling, TypeOK, Handler, Goto, Polling
  <1>1. ASSUME NEW c \in Clients, Open(c) PROVE RegisteredStreamsArePolling'
    BY <1>1 DEF Open
  <1>2. ASSUME NEW c \in Clients, Refuse(c) PROVE RegisteredStreamsArePolling'
    BY <1>2 DEF Refuse, Running
  <1>3. ASSUME NEW c \in Clients, Register(c) PROVE RegisteredStreamsArePolling'
    BY <1>3, BeginReadPreserves DEF Register
  <1>4. ASSUME NEW c \in Clients, PageRead(c) PROVE RegisteredStreamsArePolling'
    <2>1. CASE c \in aborted
      BY <1>4, <2>1, EndStreamPreserves DEF PageRead
    <2>2. CASE c \notin aborted
      BY <1>4, <2>2 DEF PageRead, Running
    <2> QED BY <2>1, <2>2
  <1>5. ASSUME NEW c \in Clients, ReadFails(c) PROVE RegisteredStreamsArePolling'
    BY <1>5, EndStreamPreserves DEF ReadFails
  <1>6. ASSUME NEW c \in Clients, Wake(c) PROVE RegisteredStreamsArePolling'
    BY <1>6, EndStreamPreserves, BeginReadPreserves DEF Wake
  <1>7. ASSUME NEW c \in Clients, Disconnect(c) PROVE RegisteredStreamsArePolling'
    BY <1>7 DEF Disconnect, Running
  <1>8. CASE BeginShutdown \/ AppClosed
    BY <1>8 DEF BeginShutdown, AppClosed
  <1>9. CASE PoolEnded
    BY <1>9 DEF PoolEnded
  <1>10. CASE UNCHANGED vars
    BY <1>10 DEF vars
  <1> QED BY <1>1, <1>2, <1>3, <1>4, <1>5, <1>6, <1>7, <1>8, <1>9, <1>10 DEF Next

\* streamControllers holds exactly the streams whose loop is running, so what
\* openEventStreamCount counts and shutdown aborts is what is there, and the
\* process does not exit under a query (events.ts, index.ts).
THEOREM RegistryIsExact == Spec => []RegisteredStreamsArePolling
  <1>1. Init => RegisteredStreamsArePolling
    BY DEF Init, RegisteredStreamsArePolling, TypeOK, Handler, Polling
  <1> QED BY <1>1, NextPreserves, PTL DEF Spec

=============================================================================
