------------------------ MODULE WorkerProcess_proofs ------------------------
(* Machine-checked proofs about WorkerProcess, for any pool and any number of faults. *)
EXTENDS WorkerProcess, FiniteSetTheorems, TLAPS

\* The queries that hold a connection.
Running == {u \in Users : query[u] = "running"}

LEMMA UsersAreFinite ==
  /\ IsFiniteSet(Users)
  /\ \A S \in SUBSET Users : IsFiniteSet(S) /\ Cardinality(S) \in Nat
  <1>1. IsFiniteSet(Users)
    <2>1. IsFiniteSet({})
      BY FS_EmptySet
    <2>2. IsFiniteSet({"main"})
      BY FS_Singleton
    <2>3. IsFiniteSet({"main"} \cup {"work"}) /\ IsFiniteSet({"renewal"} \cup {"beat"})
      BY FS_Singleton, FS_Union
    <2>4. Users = ({"main"} \cup {"work"}) \cup ({"renewal"} \cup {"beat"})
      BY DEF Users
    <2> QED BY <2>3, <2>4, FS_Union
  <1> QED BY <1>1, FS_Subset, FS_CardinalityType

\* Fewer running queries hold no more connections.
LEMMA FewerRun ==
  ASSUME IInv, idle' \in Nat, idle' <= idle, Running' \subseteq Running
  PROVE  PoolIsBounded'
  <1>1. Cardinality(Running') <= Cardinality(Running)
    BY UsersAreFinite, FS_Subset DEF Running
  <1>2. Cardinality(Running) \in Nat /\ Cardinality(Running') \in Nat
    BY UsersAreFinite DEF Running
  <1>3. idle \in Nat /\ MaxConns \in Nat
    BY WorkerProcessAssumption DEF IInv, TypeOK
  <1> QED BY <1>1, <1>2, <1>3 DEF IInv, PoolIsBounded, Open, Running

LEMMA InitEstablishes == Init => IInv
  <1> SUFFICES ASSUME Init PROVE IInv
    OBVIOUS
  <1>1. TypeOK
    <2>1. /\ threw \in BOOLEAN /\ workStop \in BOOLEAN /\ beatStop \in BOOLEAN
          /\ renewing \in BOOLEAN /\ rotated \in BOOLEAN /\ registered \in BOOLEAN
      BY DEF Init
    <2>2. idle \in 0 .. MaxConns /\ faults \in 0 .. MaxFaults
      BY WorkerProcessAssumption DEF Init
    <2> QED BY <2>1, <2>2 DEF Init, TypeOK, Users
  <1>2. /\ MainShape /\ LoopShape /\ HeartbeatFindsItsRow /\ CodeFollowsCause
    BY DEF Init, MainShape, LoopShape, HeartbeatFindsItsRow, CodeFollowsCause,
           RejectionIsReported, Users
  <1>3. PoolIsBounded
    <2>1. {u \in Users : query[u] = "running"} = {}
      BY DEF Init, Users
    <2> QED BY <2>1, FS_EmptySet, WorkerProcessAssumption DEF Init, PoolIsBounded, Open
  <1> QED BY <1>1, <1>2, <1>3 DEF IInv


\* TypeOK in parts: the flags, the places of the loops, and what is counted.
Flags ==
  /\ threw \in BOOLEAN /\ workStop \in BOOLEAN /\ beatStop \in BOOLEAN
  /\ renewing \in BOOLEAN /\ rotated \in BOOLEAN /\ registered \in BOOLEAN

Places ==
  /\ main \in {"down", "registering", "serving", "draining", "closing"}
  /\ work \in {"off", "head", "claiming", "sleeping", "executing", "joining", "reporting"}
  /\ beat \in {"off", "sleeping", "writing"}
  /\ exitCode \in {0, 1} /\ lastExit \in {0, 1, 2}
  /\ first \in {"none", "signal", "rejected"}
  /\ query \in [Users -> {"none", "waiting", "running", "ok", "failed"}]

Counts == idle \in 0 .. MaxConns /\ faults \in 0 .. MaxFaults

LEMMA TypeParts ==
  /\ TypeOK <=> Flags /\ Places /\ Counts
  /\ TypeOK' <=> Flags' /\ Places' /\ Counts'
  BY DEF TypeOK, Flags, Places, Counts

-----------------------------------------------------------------------------
(* The bound on the pool                                                   *)

\* A query that starts or stops running is counted.
LEMMA RunningIsCounted ==
  ASSUME IInv, NEW u \in Users, NEW x, query' = [query EXCEPT ![u] = x]
  PROVE  /\ Cardinality(Running) \in Nat /\ Cardinality(Running') \in Nat
         /\ query[u] # "running" /\ x = "running"
              => Cardinality(Running') = Cardinality(Running) + 1
         /\ query[u] = "running" /\ x # "running"
              => Cardinality(Running') = Cardinality(Running) - 1
  <1>1. /\ IsFiniteSet(Running) /\ Cardinality(Running) \in Nat
        /\ Cardinality(Running') \in Nat
    BY UsersAreFinite DEF Running
  <1>2. query \in [Users -> {"none", "waiting", "running", "ok", "failed"}]
    BY DEF IInv, TypeOK
  <1>3. CASE query[u] # "running" /\ x = "running"
    <2>1. Running' = Running \cup {u} /\ u \notin Running
      BY <1>2, <1>3 DEF Running
    <2> QED BY <1>1, <1>3, <2>1, FS_AddElement
  <1>4. CASE query[u] = "running" /\ x # "running"
    <2>1. Running' = Running \ {u} /\ u \in Running
      BY <1>2, <1>4 DEF Running
    <2> QED BY <1>1, <1>4, <2>1, FS_RemoveElement
  <1> QED BY <1>1, <1>3, <1>4

LEMMA OpenIsCounted ==
  /\ PoolIsBounded <=> idle + Cardinality(Running) <= MaxConns
  /\ PoolIsBounded' <=> idle' + Cardinality(Running') <= MaxConns
  BY DEF PoolIsBounded, Open, Running

\* An idle connection is used: what was idle is running.
LEMMA ReuseKeepsTheBound == ASSUME IInv, NEW u \in Users, Reuse(u) PROVE PoolIsBounded'
  <1>1. /\ Cardinality(Running) \in Nat
        /\ Cardinality(Running') = Cardinality(Running) + 1
    BY RunningIsCounted DEF Reuse
  <1>2. idle \in Nat /\ idle' = idle - 1 /\ MaxConns \in Nat /\ PoolIsBounded
    BY WorkerProcessAssumption DEF Reuse, IInv, TypeOK
  <1> QED BY <1>1, <1>2, OpenIsCounted

\* A new connection is opened within the bound, or the stop begins.
LEMMA ConnectKeepsTheBound == ASSUME IInv, NEW u \in Users, Connect(u) PROVE PoolIsBounded'
  <1>1. idle = 0 /\ idle' = 0 /\ MaxConns \in Nat /\ idle + Cardinality(Running) < MaxConns
    BY WorkerProcessAssumption DEF Connect, database, Open, Running
  <1>2. CASE query' = [query EXCEPT ![u] = "running"]
    <2>1. /\ Cardinality(Running) \in Nat
          /\ Cardinality(Running') = Cardinality(Running) + 1
      BY <1>2, RunningIsCounted DEF Connect
    <2> QED BY <1>1, <2>1, OpenIsCounted
  <1>3. CASE query' = [query EXCEPT ![u] = "failed"]
    BY <1>1, <1>3, FewerRun DEF Running, IInv, TypeOK
  <1> QED BY <1>2, <1>3 DEF Connect

\* The connection was running, so there is room for it among the idle.
LEMMA AnswerKeepsTheBound ==
  ASSUME IInv, NEW u \in Users, Answer(u)
  PROVE  PoolIsBounded' /\ idle' \in 0 .. MaxConns
  <1>1. /\ Cardinality(Running) \in Nat /\ Cardinality(Running') \in Nat
        /\ Cardinality(Running') = Cardinality(Running) - 1
    <2>1. query[u] = "running" /\ query' = [query EXCEPT ![u] = "ok"]
      BY DEF Answer
    <2>2. \A x : query' = [query EXCEPT ![u] = x] /\ x # "running" =>
                 /\ Cardinality(Running) \in Nat /\ Cardinality(Running') \in Nat
                 /\ Cardinality(Running') = Cardinality(Running) - 1
      BY <2>1, RunningIsCounted
    <2>3. "ok" # "running"
      OBVIOUS
    <2> QED BY <2>1, <2>2, <2>3
  <1>2. idle \in Nat /\ idle' = idle + 1 /\ MaxConns \in Nat /\ PoolIsBounded
    BY WorkerProcessAssumption DEF Answer, IInv, TypeOK
  <1> QED BY <1>1, <1>2, OpenIsCounted

-----------------------------------------------------------------------------
(* The pool                                                                *)

LEMMA ReusePreserves == ASSUME IInv, NEW u \in Users, Reuse(u) PROVE IInv'
  <1> USE TypeParts DEF IInv, Flags, Places, Counts, Users, Reuse, loops, status
  <1>1. Flags'
    OBVIOUS
  <1>2. Places'
    OBVIOUS
  <1>3. Counts'
    BY WorkerProcessAssumption
  <1>4. MainShape'
    BY DEF MainShape, LoopShape
  <1>5. LoopShape'
    BY DEF MainShape, LoopShape
  <1>6. HeartbeatFindsItsRow'
    BY DEF MainShape, LoopShape, HeartbeatFindsItsRow
  <1>7. PoolIsBounded'
    BY ReuseKeepsTheBound
  <1>8. CodeFollowsCause'
    BY DEF MainShape, LoopShape, CodeFollowsCause, RejectionIsReported
  <1> QED BY <1>1, <1>2, <1>3, <1>4, <1>5, <1>6, <1>7, <1>8

LEMMA ConnectPreserves == ASSUME IInv, NEW u \in Users, Connect(u) PROVE IInv'
  <1> USE TypeParts DEF IInv, Flags, Places, Counts, Users, Connect, Rejected, loops, status, database
  <1>1. Flags'
    OBVIOUS
  <1>2. Places'
    OBVIOUS
  <1>3. Counts'
    BY WorkerProcessAssumption
  <1>4. MainShape'
    BY DEF MainShape, LoopShape
  <1>5. LoopShape'
    BY DEF MainShape, LoopShape
  <1>6. HeartbeatFindsItsRow'
    BY DEF MainShape, LoopShape, HeartbeatFindsItsRow
  <1>7. PoolIsBounded'
    BY ConnectKeepsTheBound
  <1>8. CodeFollowsCause'
    BY DEF MainShape, LoopShape, CodeFollowsCause, RejectionIsReported
  <1> QED BY <1>1, <1>2, <1>3, <1>4, <1>5, <1>6, <1>7, <1>8

LEMMA AnswerPreserves == ASSUME IInv, NEW u \in Users, Answer(u) PROVE IInv'
  <1> USE TypeParts DEF IInv, Flags, Places, Counts, Users, Answer, loops, status
  <1>1. Flags'
    OBVIOUS
  <1>2. Places'
    OBVIOUS
  <1>3. Counts'
    BY AnswerKeepsTheBound
  <1>4. MainShape'
    BY DEF MainShape, LoopShape
  <1>5. LoopShape'
    BY DEF MainShape, LoopShape
  <1>6. HeartbeatFindsItsRow'
    BY DEF MainShape, LoopShape, HeartbeatFindsItsRow
  <1>7. PoolIsBounded'
    BY AnswerKeepsTheBound
  <1>8. CodeFollowsCause'
    BY DEF MainShape, LoopShape, CodeFollowsCause, RejectionIsReported
  <1> QED BY <1>1, <1>2, <1>3, <1>4, <1>5, <1>6, <1>7, <1>8

LEMMA BreakPreserves == ASSUME IInv, NEW u \in Users, Break(u) PROVE IInv'
  <1> USE TypeParts DEF IInv, Flags, Places, Counts, Users, Break, Fault, loops, status
  <1>1. Flags'
    OBVIOUS
  <1>2. Places'
    OBVIOUS
  <1>3. Counts'
    BY WorkerProcessAssumption
  <1>4. MainShape'
    BY DEF MainShape, LoopShape
  <1>5. LoopShape'
    BY DEF MainShape, LoopShape
  <1>6. HeartbeatFindsItsRow'
    BY DEF MainShape, LoopShape, HeartbeatFindsItsRow
  <1>7. PoolIsBounded'
    BY FewerRun DEF Running
  <1>8. CodeFollowsCause'
    BY DEF MainShape, LoopShape, CodeFollowsCause, RejectionIsReported
  <1> QED BY <1>1, <1>2, <1>3, <1>4, <1>5, <1>6, <1>7, <1>8

LEMMA IdleClosesPreserves == ASSUME IInv, IdleCloses PROVE IInv'
  <1> USE TypeParts DEF IInv, Flags, Places, Counts, Users, IdleCloses, loops, status
  <1>1. Flags'
    OBVIOUS
  <1>2. Places'
    OBVIOUS
  <1>3. Counts'
    BY WorkerProcessAssumption
  <1>4. MainShape'
    BY DEF MainShape, LoopShape
  <1>5. LoopShape'
    BY DEF MainShape, LoopShape
  <1>6. HeartbeatFindsItsRow'
    BY DEF MainShape, LoopShape, HeartbeatFindsItsRow
  <1>7. PoolIsBounded'
    BY FewerRun DEF Running
  <1>8. CodeFollowsCause'
    BY DEF MainShape, LoopShape, CodeFollowsCause, RejectionIsReported
  <1> QED BY <1>1, <1>2, <1>3, <1>4, <1>5, <1>6, <1>7, <1>8

-----------------------------------------------------------------------------
(* main()                                                                  *)

LEMMA StartPreserves == ASSUME IInv, Start PROVE IInv'
  <1> USE TypeParts DEF IInv, Flags, Places, Counts, Users, Start, Ask
  <1>1. Flags'
    OBVIOUS
  <1>2. Places'
    OBVIOUS
  <1>3. Counts'
    BY WorkerProcessAssumption
  <1>4. MainShape'
    BY DEF MainShape, LoopShape
  <1>5. LoopShape'
    BY DEF MainShape, LoopShape
  <1>6. HeartbeatFindsItsRow'
    BY DEF MainShape, LoopShape, HeartbeatFindsItsRow
  <1>7. PoolIsBounded'
    BY FewerRun DEF Running
  <1>8. CodeFollowsCause'
    BY DEF MainShape, LoopShape, CodeFollowsCause, RejectionIsReported
  <1> QED BY <1>1, <1>2, <1>3, <1>4, <1>5, <1>6, <1>7, <1>8

\* However the process ends, it reports a rejected password.
LEMMA ExitPreserves ==
  ASSUME IInv, NEW code \in {0, 1, 2}, Exit(code), first = "rejected" => code # 0,
         faults' \in 0 .. MaxFaults
  PROVE  IInv'
  <1> USE TypeParts DEF Exit, IInv, Flags, Places, Counts, Users
  <1>1. Flags'
    OBVIOUS
  <1>2. Places'
    OBVIOUS
  <1>3. Counts'
    BY WorkerProcessAssumption
  <1>4. MainShape' /\ LoopShape'
    BY DEF MainShape, LoopShape
  <1>5. HeartbeatFindsItsRow'
    BY DEF HeartbeatFindsItsRow
  <1>6. CodeFollowsCause'
    BY DEF CodeFollowsCause, RejectionIsReported
  <1>7. PoolIsBounded'
    BY FewerRun, WorkerProcessAssumption DEF Running
  <1> QED BY <1>1, <1>2, <1>3, <1>4, <1>5, <1>6, <1>7

LEMMA RegisterFailsPreserves == ASSUME IInv, RegisterFails PROVE IInv'
  BY ExitPreserves DEF RegisterFails, IInv, TypeOK

LEMMA FinishPreserves == ASSUME IInv, Finish PROVE IInv'
  <1> USE DEF Finish, IInv
  <1>1. CASE Exit(1)
    BY <1>1, ExitPreserves DEF TypeOK
  <1>2. CASE ~threw /\ main' = "closing" /\ UNCHANGED <<loops, status, query, database>>
    <2> USE <1>2 DEF loops, status, database
    <2>1. TypeOK'
      BY TypeParts DEF Flags, Places, Counts
    <2>2. MainShape' /\ LoopShape'
      BY DEF MainShape, LoopShape
    <2>3. HeartbeatFindsItsRow' /\ CodeFollowsCause'
      BY DEF HeartbeatFindsItsRow, CodeFollowsCause, RejectionIsReported
    <2>4. PoolIsBounded'
      BY DEF PoolIsBounded, Open
    <2> QED BY <2>1, <2>2, <2>3, <2>4
  <1> QED BY <1>1, <1>2

LEMMA PoolEndsPreserves == ASSUME IInv, PoolEnds PROVE IInv'
  BY ExitPreserves DEF PoolEnds, IInv, TypeOK, CodeFollowsCause

LEMMA KillPreserves == ASSUME IInv, Kill PROVE IInv'
  <1>1. faults' \in 0 .. MaxFaults
    BY WorkerProcessAssumption DEF Kill, Fault, IInv, TypeOK
  <1> QED BY <1>1, ExitPreserves DEF Kill

LEMMA RegisterPreserves == ASSUME IInv, Register PROVE IInv'
  <1> USE TypeParts DEF IInv, Flags, Places, Counts, Users, Register, Done, status, database
  <1>1. Flags'
    OBVIOUS
  <1>2. Places'
    OBVIOUS
  <1>3. Counts'
    BY WorkerProcessAssumption
  <1>4. MainShape'
    BY DEF MainShape, LoopShape
  <1>5. LoopShape'
    BY DEF MainShape, LoopShape
  <1>6. HeartbeatFindsItsRow'
    BY DEF MainShape, LoopShape, HeartbeatFindsItsRow
  <1>7. PoolIsBounded'
    BY FewerRun DEF Running
  <1>8. CodeFollowsCause'
    BY DEF MainShape, LoopShape, CodeFollowsCause, RejectionIsReported
  <1> QED BY <1>1, <1>2, <1>3, <1>4, <1>5, <1>6, <1>7, <1>8

LEMMA SignalPreserves == ASSUME IInv, Signal PROVE IInv'
  <1> USE TypeParts DEF IInv, Flags, Places, Counts, Users, Signal, Fault, loops, database
  <1>1. Flags'
    OBVIOUS
  <1>2. Places'
    OBVIOUS
  <1>3. Counts'
    BY WorkerProcessAssumption
  <1>4. MainShape'
    BY DEF MainShape, LoopShape
  <1>5. LoopShape'
    BY DEF MainShape, LoopShape
  <1>6. HeartbeatFindsItsRow'
    BY DEF MainShape, LoopShape, HeartbeatFindsItsRow
  <1>7. PoolIsBounded'
    BY FewerRun DEF Running
  <1>8. CodeFollowsCause'
    BY DEF MainShape, LoopShape, CodeFollowsCause, RejectionIsReported
  <1> QED BY <1>1, <1>2, <1>3, <1>4, <1>5, <1>6, <1>7, <1>8

LEMMA RotatePreserves == ASSUME IInv, Rotate PROVE IInv'
  <1> USE TypeParts DEF IInv, Flags, Places, Counts, Users, Rotate, Fault, loops, status
  <1>1. Flags'
    OBVIOUS
  <1>2. Places'
    OBVIOUS
  <1>3. Counts'
    BY WorkerProcessAssumption
  <1>4. MainShape'
    BY DEF MainShape, LoopShape
  <1>5. LoopShape'
    BY DEF MainShape, LoopShape
  <1>6. HeartbeatFindsItsRow'
    BY DEF MainShape, LoopShape, HeartbeatFindsItsRow
  <1>7. PoolIsBounded'
    BY FewerRun DEF Running
  <1>8. CodeFollowsCause'
    BY DEF MainShape, LoopShape, CodeFollowsCause, RejectionIsReported
  <1> QED BY <1>1, <1>2, <1>3, <1>4, <1>5, <1>6, <1>7, <1>8

-----------------------------------------------------------------------------
(* The work loop                                                           *)

LEMMA WorkStopsPreserves == ASSUME IInv, WorkStops PROVE IInv'
  <1> USE TypeParts DEF IInv, Flags, Places, Counts, Users, WorkStops, WorkEnds, status, database
  <1>1. Flags'
    OBVIOUS
  <1>2. Places'
    OBVIOUS
  <1>3. Counts'
    BY WorkerProcessAssumption
  <1>4. MainShape'
    BY DEF MainShape, LoopShape
  <1>5. LoopShape'
    BY DEF MainShape, LoopShape
  <1>6. HeartbeatFindsItsRow'
    BY DEF MainShape, LoopShape, HeartbeatFindsItsRow
  <1>7. PoolIsBounded'
    BY FewerRun DEF Running
  <1>8. CodeFollowsCause'
    BY DEF MainShape, LoopShape, CodeFollowsCause, RejectionIsReported
  <1> QED BY <1>1, <1>2, <1>3, <1>4, <1>5, <1>6, <1>7, <1>8

LEMMA ClaimPreserves == ASSUME IInv, Claim PROVE IInv'
  <1> USE TypeParts DEF IInv, Flags, Places, Counts, Users, Claim, WorkMoves, Ask, status, database
  <1>1. Flags'
    OBVIOUS
  <1>2. Places'
    OBVIOUS
  <1>3. Counts'
    BY WorkerProcessAssumption
  <1>4. MainShape'
    BY DEF MainShape, LoopShape
  <1>5. LoopShape'
    BY DEF MainShape, LoopShape
  <1>6. HeartbeatFindsItsRow'
    BY DEF MainShape, LoopShape, HeartbeatFindsItsRow
  <1>7. PoolIsBounded'
    BY FewerRun DEF Running
  <1>8. CodeFollowsCause'
    BY DEF MainShape, LoopShape, CodeFollowsCause, RejectionIsReported
  <1> QED BY <1>1, <1>2, <1>3, <1>4, <1>5, <1>6, <1>7, <1>8

LEMMA ClaimThrowsPreserves == ASSUME IInv, ClaimThrows PROVE IInv'
  <1> USE TypeParts DEF IInv, Flags, Places, Counts, Users, ClaimThrows, WorkEnds, Done, status, database
  <1>1. Flags'
    OBVIOUS
  <1>2. Places'
    OBVIOUS
  <1>3. Counts'
    BY WorkerProcessAssumption
  <1>4. MainShape'
    BY DEF MainShape, LoopShape
  <1>5. LoopShape'
    BY DEF MainShape, LoopShape
  <1>6. HeartbeatFindsItsRow'
    BY DEF MainShape, LoopShape, HeartbeatFindsItsRow
  <1>7. PoolIsBounded'
    BY FewerRun DEF Running
  <1>8. CodeFollowsCause'
    BY DEF MainShape, LoopShape, CodeFollowsCause, RejectionIsReported
  <1> QED BY <1>1, <1>2, <1>3, <1>4, <1>5, <1>6, <1>7, <1>8

LEMMA ClaimedPreserves == ASSUME IInv, Claimed PROVE IInv'
  <1> USE TypeParts DEF IInv, Flags, Places, Counts, Users, Claimed, WorkMoves, Done, status, database
  <1>1. Flags'
    OBVIOUS
  <1>2. Places'
    OBVIOUS
  <1>3. Counts'
    BY WorkerProcessAssumption
  <1>4. MainShape'
    BY DEF MainShape, LoopShape
  <1>5. LoopShape'
    BY DEF MainShape, LoopShape
  <1>6. HeartbeatFindsItsRow'
    BY DEF MainShape, LoopShape, HeartbeatFindsItsRow
  <1>7. PoolIsBounded'
    BY FewerRun DEF Running
  <1>8. CodeFollowsCause'
    BY DEF MainShape, LoopShape, CodeFollowsCause, RejectionIsReported
  <1> QED BY <1>1, <1>2, <1>3, <1>4, <1>5, <1>6, <1>7, <1>8

LEMMA PollAgainPreserves == ASSUME IInv, PollAgain PROVE IInv'
  <1> USE TypeParts DEF IInv, Flags, Places, Counts, Users, PollAgain, WorkMoves, status, database
  <1>1. Flags'
    OBVIOUS
  <1>2. Places'
    OBVIOUS
  <1>3. Counts'
    BY WorkerProcessAssumption
  <1>4. MainShape'
    BY DEF MainShape, LoopShape
  <1>5. LoopShape'
    BY DEF MainShape, LoopShape
  <1>6. HeartbeatFindsItsRow'
    BY DEF MainShape, LoopShape, HeartbeatFindsItsRow
  <1>7. PoolIsBounded'
    BY FewerRun DEF Running
  <1>8. CodeFollowsCause'
    BY DEF MainShape, LoopShape, CodeFollowsCause, RejectionIsReported
  <1> QED BY <1>1, <1>2, <1>3, <1>4, <1>5, <1>6, <1>7, <1>8

LEMMA ApplyEffectPreserves == ASSUME IInv, ApplyEffect PROVE IInv'
  <1> USE TypeParts DEF IInv, Flags, Places, Counts, Users, ApplyEffect, WorkMoves, Ask, status, database
  <1>1. Flags'
    OBVIOUS
  <1>2. Places'
    OBVIOUS
  <1>3. Counts'
    BY WorkerProcessAssumption
  <1>4. MainShape'
    BY DEF MainShape, LoopShape
  <1>5. LoopShape'
    BY DEF MainShape, LoopShape
  <1>6. HeartbeatFindsItsRow'
    BY DEF MainShape, LoopShape, HeartbeatFindsItsRow
  <1>7. PoolIsBounded'
    BY FewerRun DEF Running
  <1>8. CodeFollowsCause'
    BY DEF MainShape, LoopShape, CodeFollowsCause, RejectionIsReported
  <1> QED BY <1>1, <1>2, <1>3, <1>4, <1>5, <1>6, <1>7, <1>8

LEMMA ExecutedPreserves == ASSUME IInv, Executed PROVE IInv'
  <1> USE TypeParts DEF IInv, Flags, Places, Counts, Users, Executed, WorkMoves, Done, status, database
  <1>1. Flags'
    OBVIOUS
  <1>2. Places'
    OBVIOUS
  <1>3. Counts'
    BY WorkerProcessAssumption
  <1>4. MainShape'
    BY DEF MainShape, LoopShape
  <1>5. LoopShape'
    BY DEF MainShape, LoopShape
  <1>6. HeartbeatFindsItsRow'
    BY DEF MainShape, LoopShape, HeartbeatFindsItsRow
  <1>7. PoolIsBounded'
    BY FewerRun DEF Running
  <1>8. CodeFollowsCause'
    BY DEF MainShape, LoopShape, CodeFollowsCause, RejectionIsReported
  <1> QED BY <1>1, <1>2, <1>3, <1>4, <1>5, <1>6, <1>7, <1>8

LEMMA RenewalFiresPreserves == ASSUME IInv, RenewalFires PROVE IInv'
  <1> USE TypeParts DEF IInv, Flags, Places, Counts, Users, RenewalFires, Ask, loops, status, database
  <1>1. Flags'
    OBVIOUS
  <1>2. Places'
    OBVIOUS
  <1>3. Counts'
    BY WorkerProcessAssumption
  <1>4. MainShape'
    BY DEF MainShape, LoopShape
  <1>5. LoopShape'
    BY DEF MainShape, LoopShape
  <1>6. HeartbeatFindsItsRow'
    BY DEF MainShape, LoopShape, HeartbeatFindsItsRow
  <1>7. PoolIsBounded'
    BY FewerRun DEF Running
  <1>8. CodeFollowsCause'
    BY DEF MainShape, LoopShape, CodeFollowsCause, RejectionIsReported
  <1> QED BY <1>1, <1>2, <1>3, <1>4, <1>5, <1>6, <1>7, <1>8

LEMMA RenewalReturnsPreserves == ASSUME IInv, RenewalReturns PROVE IInv'
  <1> USE TypeParts DEF IInv, Flags, Places, Counts, Users, RenewalReturns, Done, status, database
  <1>1. Flags'
    OBVIOUS
  <1>2. Places'
    OBVIOUS
  <1>3. Counts'
    BY WorkerProcessAssumption
  <1>4. MainShape'
    BY DEF MainShape, LoopShape
  <1>5. LoopShape'
    BY DEF MainShape, LoopShape
  <1>6. HeartbeatFindsItsRow'
    BY DEF MainShape, LoopShape, HeartbeatFindsItsRow
  <1>7. PoolIsBounded'
    BY FewerRun DEF Running
  <1>8. CodeFollowsCause'
    BY DEF MainShape, LoopShape, CodeFollowsCause, RejectionIsReported
  <1> QED BY <1>1, <1>2, <1>3, <1>4, <1>5, <1>6, <1>7, <1>8

LEMMA ReportPreserves == ASSUME IInv, Report PROVE IInv'
  <1> USE TypeParts DEF IInv, Flags, Places, Counts, Users, Report, WorkMoves, Ask, status, database
  <1>1. Flags'
    OBVIOUS
  <1>2. Places'
    OBVIOUS
  <1>3. Counts'
    BY WorkerProcessAssumption
  <1>4. MainShape'
    BY DEF MainShape, LoopShape
  <1>5. LoopShape'
    BY DEF MainShape, LoopShape
  <1>6. HeartbeatFindsItsRow'
    BY DEF MainShape, LoopShape, HeartbeatFindsItsRow
  <1>7. PoolIsBounded'
    BY FewerRun DEF Running
  <1>8. CodeFollowsCause'
    BY DEF MainShape, LoopShape, CodeFollowsCause, RejectionIsReported
  <1> QED BY <1>1, <1>2, <1>3, <1>4, <1>5, <1>6, <1>7, <1>8

LEMMA ReportedPreserves == ASSUME IInv, Reported PROVE IInv'
  <1> USE TypeParts DEF IInv, Flags, Places, Counts, Users, Reported, WorkMoves, Done, status, database
  <1>1. Flags'
    OBVIOUS
  <1>2. Places'
    OBVIOUS
  <1>3. Counts'
    BY WorkerProcessAssumption
  <1>4. MainShape'
    BY DEF MainShape, LoopShape
  <1>5. LoopShape'
    BY DEF MainShape, LoopShape
  <1>6. HeartbeatFindsItsRow'
    BY DEF MainShape, LoopShape, HeartbeatFindsItsRow
  <1>7. PoolIsBounded'
    BY FewerRun DEF Running
  <1>8. CodeFollowsCause'
    BY DEF MainShape, LoopShape, CodeFollowsCause, RejectionIsReported
  <1> QED BY <1>1, <1>2, <1>3, <1>4, <1>5, <1>6, <1>7, <1>8

-----------------------------------------------------------------------------
(* The heartbeat loop                                                      *)

LEMMA BeatFiresPreserves == ASSUME IInv, BeatFires PROVE IInv'
  <1> USE TypeParts DEF IInv, Flags, Places, Counts, Users, BeatFires, BeatMoves, Ask, status, database
  <1>1. Flags'
    OBVIOUS
  <1>2. Places'
    OBVIOUS
  <1>3. Counts'
    BY WorkerProcessAssumption
  <1>4. MainShape'
    BY DEF MainShape, LoopShape
  <1>5. LoopShape'
    BY DEF MainShape, LoopShape
  <1>6. HeartbeatFindsItsRow'
    BY DEF MainShape, LoopShape, HeartbeatFindsItsRow
  <1>7. PoolIsBounded'
    BY FewerRun DEF Running
  <1>8. CodeFollowsCause'
    BY DEF MainShape, LoopShape, CodeFollowsCause, RejectionIsReported
  <1> QED BY <1>1, <1>2, <1>3, <1>4, <1>5, <1>6, <1>7, <1>8

LEMMA BeatReturnsPreserves == ASSUME IInv, BeatReturns PROVE IInv'
  <1> USE TypeParts DEF IInv, Flags, Places, Counts, Users, BeatReturns, BeatMoves, Done, status, database
  <1>1. Flags'
    OBVIOUS
  <1>2. Places'
    OBVIOUS
  <1>3. Counts'
    BY WorkerProcessAssumption
  <1>4. MainShape'
    BY DEF MainShape, LoopShape
  <1>5. LoopShape'
    BY DEF MainShape, LoopShape
  <1>6. HeartbeatFindsItsRow'
    BY DEF MainShape, LoopShape, HeartbeatFindsItsRow
  <1>7. PoolIsBounded'
    BY FewerRun DEF Running
  <1>8. CodeFollowsCause'
    BY DEF MainShape, LoopShape, CodeFollowsCause, RejectionIsReported
  <1> QED BY <1>1, <1>2, <1>3, <1>4, <1>5, <1>6, <1>7, <1>8

LEMMA BeatEndsPreserves == ASSUME IInv, BeatEnds PROVE IInv'
  <1> USE TypeParts DEF IInv, Flags, Places, Counts, Users, BeatEnds, BeatMoves, status, database
  <1>1. Flags'
    OBVIOUS
  <1>2. Places'
    OBVIOUS
  <1>3. Counts'
    BY WorkerProcessAssumption
  <1>4. MainShape'
    BY DEF MainShape, LoopShape
  <1>5. LoopShape'
    BY DEF MainShape, LoopShape
  <1>6. HeartbeatFindsItsRow'
    BY DEF MainShape, LoopShape, HeartbeatFindsItsRow
  <1>7. PoolIsBounded'
    BY FewerRun DEF Running
  <1>8. CodeFollowsCause'
    BY DEF MainShape, LoopShape, CodeFollowsCause, RejectionIsReported
  <1> QED BY <1>1, <1>2, <1>3, <1>4, <1>5, <1>6, <1>7, <1>8

-----------------------------------------------------------------------------
(* The theorems                                                            *)

LEMMA NextPreserves == IInv /\ [Next]_vars => IInv'
  <1> SUFFICES ASSUME IInv, [Next]_vars PROVE IInv'
    OBVIOUS
  <1>1. CASE UNCHANGED vars
    <2> USE <1>1 DEF vars, loops, status, database, IInv
    <2>1. TypeOK'
      BY TypeParts DEF Flags, Places, Counts
    <2>2. MainShape' /\ LoopShape'
      BY DEF MainShape, LoopShape
    <2>3. HeartbeatFindsItsRow' /\ CodeFollowsCause'
      BY DEF HeartbeatFindsItsRow, CodeFollowsCause, RejectionIsReported
    <2>4. PoolIsBounded'
      BY DEF PoolIsBounded, Open
    <2> QED BY <2>1, <2>2, <2>3, <2>4
  <1>2. CASE \E u \in Users : Pool(u) \/ Break(u)
    BY <1>2, ReusePreserves, ConnectPreserves, AnswerPreserves, BreakPreserves DEF Pool
  <1>3. CASE Main
    BY <1>3, StartPreserves, RegisterPreserves, RegisterFailsPreserves, FinishPreserves,
       PoolEndsPreserves DEF Main
  <1>4. CASE Work
    BY <1>4, WorkStopsPreserves, ClaimPreserves, ClaimThrowsPreserves, ClaimedPreserves,
       PollAgainPreserves, ExecutedPreserves, ReportPreserves, ReportedPreserves DEF Work
  <1>5. CASE Beat
    BY <1>5, BeatFiresPreserves, BeatReturnsPreserves, BeatEndsPreserves DEF Beat
  <1> QED
    BY <1>1, <1>2, <1>3, <1>4, <1>5, IdleClosesPreserves, ApplyEffectPreserves,
       RenewalFiresPreserves, RenewalReturnsPreserves, SignalPreserves, KillPreserves,
       RotatePreserves DEF Next

\* At every stage of a process, what it leaves running and awaited is as IInv
\* says.
THEOREM Invariance == Spec => []IInv
  BY InitEstablishes, NextPreserves, PTL DEF Spec

\* The heartbeat never stops while the work loop runs, whatever stops it.
THEOREM HeartbeatCoversWork == Spec => []HeartbeatOutlivesWork
  <1>1. IInv => HeartbeatOutlivesWork
    BY DEF IInv, MainShape, HeartbeatOutlivesWork
  <1> QED BY <1>1, Invariance, PTL

\* pool.end() is called when nobody in the process awaits a query.
THEOREM PoolIsEndedLast == Spec => []PoolEndsLast
  <1>1. IInv => PoolEndsLast
    BY DEF IInv, TypeOK, MainShape, LoopShape, PoolEndsLast, Users
  <1> QED BY <1>1, Invariance, PTL

\* A process that stopped because its password was rejected exited non-zero.
THEOREM RejectionReachesTheSupervisor == Spec => []RejectionIsReported
  <1>1. IInv => RejectionIsReported
    BY DEF IInv, CodeFollowsCause
  <1> QED BY <1>1, Invariance, PTL

\* The pool never opens more connections than DB_POOL_MAX.
THEOREM PoolStaysBounded == Spec => []PoolIsBounded
  <1>1. IInv => PoolIsBounded
    BY DEF IInv
  <1> QED BY <1>1, Invariance, PTL

\* WorkerNotRegisteredError is unreachable.
THEOREM BeatsFindTheirRow == Spec => []HeartbeatFindsItsRow
  <1>1. IInv => HeartbeatFindsItsRow
    BY DEF IInv
  <1> QED BY <1>1, Invariance, PTL
=============================================================================
