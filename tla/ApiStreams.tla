---------------------------- MODULE ApiStreams ----------------------------
(***************************************************************************)
(* The API process as a host of event streams: the SSE handler of          *)
(* api/events.ts, the set of abort controllers it keeps, and the shutdown  *)
(* of index.ts.  What the streams deliver is EventStream's subject; here   *)
(* it is who is still running, and whether everybody stops.                *)
(*                                                                         *)
(* The handler runs on one thread and can only be overtaken at an await:   *)
(* resolving the cursor, reading a page, sleeping.                         *)
(***************************************************************************)
EXTENDS Naturals

CONSTANT Clients   \* each opens one stream

VARIABLES
  at,           \* where each client's handler is
  connected,    \* the clients whose connection waits for its response to end
  aborted,      \* the streams whose signal has been aborted
  controllers,  \* streamControllers: the streams that are registered
  server        \* the life of the process

vars == <<at, connected, aborted, controllers, server>>

\* resolving: awaiting cursorFor, not registered yet
Handler == {"none", "resolving", "reading", "sleeping", "ended"}

TypeOK ==
  /\ at \in [Clients -> Handler]
  /\ connected \in SUBSET Clients
  /\ aborted \in SUBSET Clients
  /\ controllers \in SUBSET Clients
  /\ server \in {"serving", "closing", "draining", "exited"}

Init ==
  /\ at = [c \in Clients |-> "none"]
  /\ connected = {}
  /\ aborted = {}
  /\ controllers = {}
  /\ server = "serving"

Goto(c, place) == at' = [at EXCEPT ![c] = place]

Running == server # "exited"

\* The polling loop of a stream, once the handler has got that far.
Polling(c) == at[c] \in {"reading", "sleeping"}

-----------------------------------------------------------------------------
(* The handler                                                             *)

\* A request arrives; its query and its Last-Event-ID are well formed.
Open(c) ==
  /\ at[c] = "none" /\ server = "serving"
  /\ connected' = connected \cup {c}
  /\ Goto(c, "resolving")
  /\ UNCHANGED <<aborted, controllers, server>>

\* The cursor is unknown (400) or the query failed (500).
Refuse(c) ==
  /\ Running /\ at[c] = "resolving"
  /\ Goto(c, "ended")
  /\ connected' = connected \ {c}
  /\ UNCHANGED <<aborted, controllers, server>>

\* Mutant: the response is not ended.
EndStreamHanging(c) ==
  /\ controllers' = controllers \ {c}
  /\ Goto(c, "ended")
  /\ UNCHANGED <<connected, aborted, server>>

\* Mutant: the controller is not deleted.
EndStreamRegistered(c) ==
  /\ connected' = connected \ {c}
  /\ Goto(c, "ended")
  /\ UNCHANGED <<controllers, aborted, server>>

\* The finally block: deregister, and end the response.
EndStream(c) ==
  /\ controllers' = controllers \ {c}
  /\ Goto(c, "ended")
  /\ connected' = connected \ {c}
  /\ UNCHANGED <<aborted, server>>

\* Read a page.  A pool that has been ended rejects the query, and the handler
\* leaves its loop.
BeginRead(c) ==
  IF server = "draining"
  THEN EndStream(c)
  ELSE /\ controllers' = controllers \cup {c}
       /\ Goto(c, "reading")
       /\ UNCHANGED <<connected, aborted, server>>

\* cursorFor has returned: register the controller, write the header, listen
\* for the connection to close, and read the first page.
Register(c) ==
  /\ Running /\ at[c] = "resolving"
  /\ BeginRead(c)

\* A page has been read.  Unless the signal was aborted meanwhile it is
\* written, to a connection that may be gone, and the handler sleeps.
PageRead(c) ==
  /\ Running /\ at[c] = "reading"
  /\ IF c \in aborted
     THEN EndStream(c)
     ELSE Goto(c, "sleeping") /\ UNCHANGED <<connected, aborted, controllers, server>>

ReadFails(c) ==
  /\ Running /\ at[c] = "reading"
  /\ EndStream(c)

\* The poll interval is over, or was cut short by the signal.
Wake(c) ==
  /\ Running /\ at[c] = "sleeping"
  /\ IF c \in aborted THEN EndStream(c) ELSE BeginRead(c)

-----------------------------------------------------------------------------
(* Clients and shutdown                                                    *)

\* The client goes away.  Only a handler that has registered listens for it.
Disconnect(c) ==
  /\ Running /\ c \in connected
  /\ connected' = connected \ {c}
  /\ aborted' = IF Polling(c) THEN aborted \cup {c} ELSE aborted
  /\ UNCHANGED <<at, controllers, server>>

\* A signal, or a rejected password: closeOpenEventStreams, then app.close().
BeginShutdown ==
  /\ server = "serving" /\ server' = "closing"
  /\ aborted' = aborted \cup controllers
  /\ UNCHANGED <<at, connected, controllers>>

\* app.close() resolves when no connection has a response outstanding.
AppClosed ==
  /\ server = "closing" /\ connected = {}
  /\ server' = "draining"
  /\ UNCHANGED <<at, connected, aborted, controllers>>

\* pool.end() resolves when no query is in flight; then process.exit().
PoolEnded ==
  /\ server = "draining"
  /\ \A c \in Clients : at[c] \notin {"resolving", "reading"}
  /\ server' = "exited"
  /\ UNCHANGED <<at, connected, aborted, controllers>>

Next ==
  \/ \E c \in Clients :
       \/ Open(c) \/ Refuse(c) \/ Register(c)
       \/ PageRead(c) \/ ReadFails(c) \/ Wake(c)
       \/ Disconnect(c)
  \/ BeginShutdown \/ AppClosed \/ PoolEnded

Spec == Init /\ [][Next]_vars

\* Queries are answered, timers fire, and close() and end() resolve when they
\* can.  Nothing makes a client come, stay or leave, or the process stop.
Fairness ==
  /\ \A c \in Clients :
       /\ WF_vars(Refuse(c) \/ Register(c))
       /\ WF_vars(PageRead(c) \/ ReadFails(c))
       /\ WF_vars(Wake(c))
  /\ WF_vars(AppClosed) /\ WF_vars(PoolEnded)

FairSpec == Spec /\ Fairness

-----------------------------------------------------------------------------
(* Properties                                                              *)

\* What openEventStreamCount counts, and what shutdown aborts, is exactly the
\* streams whose loop is running; and the server does not exit under a query.
RegisteredStreamsArePolling ==
  /\ TypeOK
  /\ controllers = {c \in Clients : Polling(c)}
  /\ server = "exited" => \A c \in Clients : at[c] \notin {"resolving", "reading"}

\* Once the connections that remain all belong to aborted streams, shutdown
\* completes: whatever loops run on without a client cannot hold it up.
ShutdownCompletesOnceAborted ==
  (server = "closing" /\ connected \subseteq aborted) ~> server = "exited"

\* Claimed in docs/architecture.md, "a disconnect stops the loop", and by the
\* comment on streamControllers.  Not so: a client that leaves while its cursor
\* is being resolved is not heard, and its loop polls on until shutdown.
DisconnectStopsTheLoop ==
  \A c \in Clients : (at[c] # "none" /\ c \notin connected) ~> (at[c] = "ended" \/ ~Running)

\* Claimed in index.ts: open streams are aborted first, so app.close() can
\* complete; every long-lived response has a close path.  Not so: a stream that
\* registers after the abort is never told, and shutdown waits for its client.
ShutdownCompletes == server = "closing" ~> server = "exited"
=============================================================================
