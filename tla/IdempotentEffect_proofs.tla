---------------------- MODULE IdempotentEffect_proofs ----------------------
(***************************************************************************)
(* The safety properties of IdempotentEffect, for any number of calls and  *)
(* keys.  IInv is inductive: the one uncommitted or committed row of a key *)
(* (OneRowPerKey) is what every later answer is read from (PastInsert,     *)
(* AnswersAreTrue).                                                        *)
(***************************************************************************)
EXTENDS IdempotentEffect, TLAPS

\* A row of a call is never the missing row.
LEMMA MyRowIsARow ==
  ASSUME NEW c \in Calls
  PROVE  MyRow(c) \in Row /\ MyRow(c) # NoRow
BY CallsAssumption DEF MyRow, Row, NoRow

\* Initially there are no rows and no answers.
LEMMA InitIInv == Init => IInv
<1> SUFFICES ASSUME Init PROVE IInv
  OBVIOUS
<1> USE CallsAssumption DEF Init
<1>1. TypeOK
  BY DEF TypeOK, Table, Row, NoRow, Statements, Outcomes, Pending
<1>2. PastInsert
  <2>1. \A c \in Calls : effects[KeyOf[c]] # MyRow(c)
    BY MyRowIsARow
  <2> QED  BY <2>1 DEF PastInsert
<1>3. OneRowPerKey /\ RowsHaveCalls /\ AnswersAreTrue
  BY DEF OneRowPerKey, RowsHaveCalls, AnswersAreTrue, Pending
<1> QED  BY <1>1, <1>2, <1>3 DEF IInv

\* Every step of every call preserves the type invariant.
LEMMA TypeStep ==
  ASSUME TypeOK, [Next]_vars
  PROVE  TypeOK'
<1> USE CallsAssumption DEF TypeOK
<1>1. CASE UNCHANGED vars
  BY <1>1 DEF vars
<1>2. ASSUME NEW c \in Calls,
             \/ Start(c) \/ InsertRow(c) \/ InsertConflicts(c) \/ Select(c)
      PROVE  TypeOK'
  BY <1>2 DEF Start, InsertRow, InsertConflicts, Select, Goto, Statements
<1>3. ASSUME NEW c \in Calls, CommitInsert(c)
      PROVE  TypeOK'
  <2>1. KeyOf[c] \in Keys /\ MyRow(c) \in Row
    BY MyRowIsARow
  <2>2. effects' \in Table
    BY <1>3, <2>1 DEF CommitInsert, Table
  <2> QED  BY <1>3, <2>2 DEF CommitInsert, Goto, Statements
<1>4. ASSUME NEW c \in Calls, RollbackInsert(c) \/ Lose(c) \/ ReturnApplied(c)
      PROVE  TypeOK'
  BY <1>4 DEF RollbackInsert, Lose, ReturnApplied, Goto, Tell, Statements, Outcomes
<1>5. ASSUME NEW c \in Calls, Return(c)
      PROVE  TypeOK'
  <2>1. snapshot[c][KeyOf[c]] = NoRow \/ snapshot[c][KeyOf[c]] \in Row
    BY DEF Table
  <2>2. answer' \in [Calls -> [outcome : Outcomes, result : Calls \cup {None}]]
    BY <1>5, <2>1 DEF Return, ReadBack, Tell, Outcomes, Row
  <2> QED  BY <1>5, <2>2 DEF Return, Goto, Statements
<1> QED  BY <1>1, <1>2, <1>3, <1>4, <1>5 DEF Next

\* A key gets at most one row: the next one waits, then conflicts.
LEMMA OneRowStep ==
  ASSUME IInv, [Next]_vars
  PROVE  OneRowPerKey'
<1> USE CallsAssumption DEF IInv, TypeOK, OneRowPerKey, Exists, Blocked
<1>1. CASE UNCHANGED vars
  BY <1>1 DEF vars
<1>2. ASSUME NEW c \in Calls, InsertRow(c)
      PROVE  OneRowPerKey'
  BY <1>2 DEF InsertRow, Goto
<1>3. ASSUME NEW c \in Calls, CommitInsert(c)
      PROVE  OneRowPerKey'
  BY <1>3 DEF CommitInsert, Goto, Table
<1>4. ASSUME NEW c \in Calls,
             \/ Start(c) \/ InsertConflicts(c) \/ Select(c) \/ Return(c)
             \/ RollbackInsert(c) \/ Lose(c) \/ ReturnApplied(c)
      PROVE  OneRowPerKey'
  BY <1>4 DEF Start, InsertConflicts, Select, Return, RollbackInsert, Lose, ReturnApplied, Goto
<1> QED  BY <1>1, <1>2, <1>3, <1>4 DEF Next

\* Only a commit adds a row, and only where there was none.
LEMMA RowsStayPut ==
  ASSUME IInv, [Next]_vars
  PROVE  \A k \in Keys : effects[k] # NoRow => effects'[k] = effects[k]
<1> USE CallsAssumption DEF IInv, TypeOK, Table
<1>1. CASE UNCHANGED vars
  BY <1>1 DEF vars
<1>2. ASSUME NEW c \in Calls, CommitInsert(c)
      PROVE  \A k \in Keys : effects[k] # NoRow => effects'[k] = effects[k]
  <2>1. effects[KeyOf[c]] = NoRow
    BY <1>2 DEF CommitInsert, OneRowPerKey, Exists
  <2> QED  BY <1>2, <2>1 DEF CommitInsert
<1>3. ASSUME NEW c \in Calls, ~CommitInsert(c),
             \/ Start(c) \/ InsertRow(c) \/ InsertConflicts(c) \/ Select(c) \/ Return(c)
             \/ RollbackInsert(c) \/ Lose(c) \/ ReturnApplied(c)
      PROVE  effects' = effects
  BY <1>3 DEF Start, InsertRow, InsertConflicts, Select, Return, RollbackInsert, Lose,
             ReturnApplied
<1> QED  BY <1>1, <1>2, <1>3 DEF Next

\* A row that a commit adds is the row of its call.
LEMMA RowsHaveCallsStep ==
  ASSUME IInv, [Next]_vars
  PROVE  RowsHaveCalls'
<1> USE CallsAssumption DEF IInv, TypeOK, Table, RowsHaveCalls
<1>1. CASE UNCHANGED vars
  BY <1>1 DEF vars
<1>2. ASSUME NEW c \in Calls, CommitInsert(c)
      PROVE  RowsHaveCalls'
  BY <1>2 DEF CommitInsert, MyRow
<1>3. ASSUME NEW c \in Calls,
             \/ Start(c) \/ InsertRow(c) \/ InsertConflicts(c) \/ Select(c) \/ Return(c)
             \/ RollbackInsert(c) \/ Lose(c) \/ ReturnApplied(c)
      PROVE  RowsHaveCalls'
  BY <1>3 DEF Start, InsertRow, InsertConflicts, Select, Return, RollbackInsert, Lose,
             ReturnApplied, MyRow
<1> QED  BY <1>1, <1>2, <1>3 DEF Next

\* What a call knows after its INSERT stays true: its row does not change, and
\* no other call commits that row.
LEMMA PastInsertStep ==
  ASSUME IInv, [Next]_vars
  PROVE  PastInsert'
<1> USE CallsAssumption DEF IInv, TypeOK, Exists
<1>0. \A k \in Keys : effects[k] # NoRow => effects'[k] = effects[k]
  BY RowsStayPut
<1>1. CASE UNCHANGED vars
  BY <1>1 DEF vars, PastInsert, MyRow
<1>2. ASSUME NEW c \in Calls, CommitInsert(c)
      PROVE  PastInsert'
  <2> SUFFICES ASSUME NEW d \in Calls
               PROVE  /\ stmt'[d] = "applied" => effects'[KeyOf[d]] = MyRow(d)
                      /\ effects'[KeyOf[d]] = MyRow(d) => stmt'[d] \in {"applied", "over"}
                      /\ stmt'[d] = "conflict" => effects'[KeyOf[d]] # NoRow
                      /\ stmt'[d] = "reading" =>
                           /\ effects'[KeyOf[d]] # NoRow
                           /\ snapshot'[d][KeyOf[d]] = effects'[KeyOf[d]]
    BY DEF PastInsert, MyRow
  <2>1. CASE d = c
    BY <1>2, <2>1 DEF CommitInsert, Goto, Table
  <2>2. CASE d # c
    <3>1. stmt'[d] = stmt[d] /\ snapshot' = snapshot
      BY <1>2, <2>2 DEF CommitInsert, Goto
    <3>2. MyRow(d) # NoRow /\ MyRow(c) # MyRow(d)
      BY <2>2, MyRowIsARow DEF MyRow
    <3>3. effects'[KeyOf[d]] = MyRow(d) => effects[KeyOf[d]] = MyRow(d)
      BY <1>2, <3>2 DEF CommitInsert, Table
    <3> QED  BY <1>0, <3>1, <3>2, <3>3 DEF PastInsert
  <2> QED  BY <2>1, <2>2
<1>3. ASSUME NEW c \in Calls, Select(c)
      PROVE  PastInsert'
  BY <1>3 DEF Select, Goto, PastInsert, MyRow
<1>4. ASSUME NEW c \in Calls, Start(c)
      PROVE  PastInsert'
  BY <1>4 DEF Start, Goto, PastInsert, MyRow
<1>5. ASSUME NEW c \in Calls, InsertRow(c) \/ InsertConflicts(c) \/ RollbackInsert(c)
      PROVE  PastInsert'
  BY <1>5 DEF InsertRow, InsertConflicts, RollbackInsert, Goto, PastInsert, MyRow
<1>6. ASSUME NEW c \in Calls, Return(c) \/ Lose(c) \/ ReturnApplied(c)
      PROVE  PastInsert'
  BY <1>6 DEF Return, Lose, ReturnApplied, Goto, PastInsert, MyRow
<1> QED  BY <1>1, <1>2, <1>3, <1>4, <1>5, <1>6 DEF Next

\* An answer is true when it is given, and the row it was read from stays.
LEMMA AnswersStep ==
  ASSUME IInv, [Next]_vars
  PROVE  AnswersAreTrue'
<1> USE CallsAssumption DEF IInv, TypeOK
<1> DEFINE True(d, row, a) ==
             /\ a.outcome = "applied" => row = MyRow(d) /\ a.result = d
             /\ a.outcome = "reused" => /\ row # NoRow
                                        /\ row.request = RequestOf[d]
                                        /\ row.result = a.result
             /\ a.outcome = "conflict" => row # NoRow /\ row.request # RequestOf[d]
             /\ a.outcome # "missing"
<1>0. \A k \in Keys : effects[k] # NoRow => effects'[k] = effects[k]
  BY RowsStayPut
<1>1. SUFFICES ASSUME NEW d \in Calls
               PROVE  True(d, effects'[KeyOf[d]], answer'[d])
  BY DEF AnswersAreTrue, MyRow
<1>2. True(d, effects[KeyOf[d]], answer[d])
  BY DEF AnswersAreTrue
<1>3. MyRow(d) # NoRow /\ KeyOf[d] \in Keys
  BY MyRowIsARow
<1>4. ASSUME answer'[d] = answer[d]
      PROVE  True(d, effects'[KeyOf[d]], answer'[d])
  <2>1. CASE effects[KeyOf[d]] # NoRow
    BY <1>0, <1>2, <1>3, <1>4, <2>1
  <2>2. CASE effects[KeyOf[d]] = NoRow
    BY <1>2, <1>3, <1>4, <2>2
  <2> QED  BY <2>1, <2>2
<1>5. CASE RollbackInsert(d) \/ Lose(d)
  <2>1. answer' = answer \/ answer' = [answer EXCEPT ![d] = [outcome |-> "error", result |-> None]]
    BY <1>5 DEF RollbackInsert, Lose, Tell
  <2>2. answer'[d] = answer[d] \/ answer'[d].outcome = "error"
    BY <2>1
  <2>3. CASE answer'[d].outcome = "error"
    BY <2>3
  <2> QED  BY <1>4, <2>2, <2>3
<1>6. CASE ReturnApplied(d)
  BY <1>6 DEF ReturnApplied, Tell, PastInsert
<1>7. CASE Return(d)
  <2>1. /\ effects[KeyOf[d]] # NoRow
        /\ snapshot[d][KeyOf[d]] = effects[KeyOf[d]]
        /\ effects' = effects
    BY <1>7 DEF Return, PastInsert, Exists
  <2> QED  BY <1>7, <2>1 DEF Return, ReadBack, Tell
<1>8. CASE ~(RollbackInsert(d) \/ Lose(d) \/ ReturnApplied(d) \/ Return(d))
  <2>1. CASE UNCHANGED vars
    BY <1>4, <2>1 DEF vars
  <2>2. ASSUME NEW c \in Calls,
               \/ Start(c) \/ InsertRow(c) \/ InsertConflicts(c) \/ CommitInsert(c) \/ Select(c)
        PROVE  answer' = answer
    BY <2>2 DEF Start, InsertRow, InsertConflicts, CommitInsert, Select
  <2>3. ASSUME NEW c \in Calls \ {d},
               \/ Return(c) \/ RollbackInsert(c) \/ Lose(c) \/ ReturnApplied(c)
        PROVE  answer'[d] = answer[d]
    BY <2>3 DEF Return, ReadBack, RollbackInsert, Lose, ReturnApplied, Tell
  <2>4. answer'[d] = answer[d]
    BY <1>8, <2>1, <2>2, <2>3 DEF Next, vars
  <2> QED  BY <1>4, <2>4
<1> QED  BY <1>5, <1>6, <1>7, <1>8

\* IInv holds in every reachable state.
THEOREM Invariance == Spec => []IInv
<1>1. IInv /\ [Next]_vars => IInv'
  <2> SUFFICES ASSUME IInv, [Next]_vars PROVE IInv'
    OBVIOUS
  <2>1. TypeOK'
    BY TypeStep DEF IInv
  <2> QED  BY <2>1, OneRowStep, RowsHaveCallsStep, PastInsertStep, AnswersStep DEF IInv
<1> QED  BY InitIInv, <1>1, PTL DEF Spec

\* Whatever executions share a key, those that succeed report one result and
\* one of them at most applied it.
THEOREM Agreement == Spec => []CallersAgree
<1>1. IInv => CallersAgree
  <2> SUFFICES ASSUME IInv, NEW c \in Calls, NEW d \in Calls,
                      Succeeded(c), Succeeded(d), KeyOf[c] = KeyOf[d]
               PROVE  /\ answer[c].result = answer[d].result
                      /\ RequestOf[c] = RequestOf[d]
                      /\ answer[c].outcome = "applied" /\ answer[d].outcome = "applied" => c = d
    BY DEF CallersAgree
  <2>1. ASSUME NEW e \in {c, d}
        PROVE  /\ effects[KeyOf[e]].result = answer[e].result
               /\ effects[KeyOf[e]].request = RequestOf[e]
               /\ answer[e].outcome = "applied" => answer[e].result = e
    <3>1. e \in Calls /\ Succeeded(e)
      OBVIOUS
    <3>2. CASE answer[e].outcome = "applied"
      <4>1. effects[KeyOf[e]] = MyRow(e) /\ answer[e].result = e
        BY <3>1, <3>2 DEF IInv, AnswersAreTrue
      <4> QED  BY <4>1 DEF MyRow
    <3>3. CASE answer[e].outcome = "reused"
      BY <3>1, <3>3 DEF IInv, AnswersAreTrue
    <3> QED  BY <3>1, <3>2, <3>3 DEF Succeeded
  <2> QED  BY <2>1
<1> QED  BY Invariance, <1>1, PTL

\* The SELECT after a conflict always finds the row.
THEOREM RowIsFound == Spec => []ConflictingRowIsFound
<1>1. IInv => ConflictingRowIsFound
  BY DEF IInv, AnswersAreTrue, ConflictingRowIsFound
<1> QED  BY Invariance, <1>1, PTL

\* A refused call shares its key with a call for another request.
THEOREM ConflictIsRealHolds == Spec => []ConflictIsReal
<1>1. IInv => ConflictIsReal
  <2> SUFFICES ASSUME IInv, NEW c \in Calls, answer[c].outcome = "conflict"
               PROVE  \E d \in Calls : /\ KeyOf[d] = KeyOf[c] /\ RequestOf[d] # RequestOf[c]
                                       /\ effects[KeyOf[c]] = MyRow(d)
    BY DEF ConflictIsReal
  <2>1. effects[KeyOf[c]] # NoRow /\ effects[KeyOf[c]].request # RequestOf[c]
    BY DEF IInv, AnswersAreTrue
  <2>2. PICK d \in Calls : KeyOf[d] = KeyOf[c] /\ effects[KeyOf[c]] = MyRow(d)
    BY <2>1, CallsAssumption DEF IInv, RowsHaveCalls
  <2>3. MyRow(d).request = RequestOf[d]
    BY DEF MyRow
  <2> QED  BY <2>1, <2>2, <2>3
<1> QED  BY Invariance, <1>1, PTL

\* No step of any call alters or removes a committed effect.
THEOREM EffectsAreFinalHolds == Spec => EffectsAreFinal
<1>1. IInv /\ [Next]_vars => [\A k \in Keys : effects[k] # NoRow => effects'[k] = effects[k]]_vars
  BY RowsStayPut
<1> QED  BY Invariance, <1>1, PTL DEF Spec, EffectsAreFinal

\* What a call is told is what the register of its key holds.
LEMMA AnswersAreTheRegister ==
  ASSUME IInv, NEW c \in Calls, ReturnApplied(c) \/ Return(c)
  PROVE  Register!Answer(c)
<1> USE CallsAssumption DEF IInv, TypeOK, Register!MyRow, MyRow, Register!NoRow, NoRow
<1> DEFINE row == effects[KeyOf[c]]
<1>1. answer[c] = Register!Pending
  BY DEF ReturnApplied, Return, Waiting, Pending, Register!Pending
<1>2. row # NoRow /\ effects' = effects
  <2>1. CASE ReturnApplied(c)
    <3>1. row = MyRow(c) /\ effects' = effects
      BY <2>1 DEF ReturnApplied, PastInsert
    <3> QED  BY <3>1, MyRowIsARow
  <2>2. CASE Return(c)
    BY <2>2 DEF Return, PastInsert, Exists
  <2> QED  BY <2>1, <2>2
<1>3. answer' = [answer EXCEPT ![c] = Register!Told(c, row)]
  <2>1. CASE ReturnApplied(c)
    <3>1. row = MyRow(c)
      BY <2>1 DEF ReturnApplied, PastInsert
    <3>2. Register!Told(c, row) = [outcome |-> "applied", result |-> c]
      BY <3>1 DEF Register!Told
    <3> QED  BY <2>1, <3>2 DEF ReturnApplied, Tell
  <2>2. CASE Return(c)
    <3>1. row = snapshot[c][KeyOf[c]] /\ row # MyRow(c)
      BY <2>2 DEF Return, PastInsert
    <3>2. CASE row.request = RequestOf[c]
      <4>1. Register!Told(c, row) = [outcome |-> "reused", result |-> row.result]
        BY <3>1, <3>2 DEF Register!Told
      <4> QED  BY <1>2, <2>2, <3>1, <3>2, <4>1 DEF Return, ReadBack, Tell
    <3>3. CASE row.request # RequestOf[c]
      <4>1. Register!Told(c, row) = [outcome |-> "conflict", result |-> None]
        BY <3>1, <3>3 DEF Register!Told
      <4> QED  BY <1>2, <2>2, <3>1, <3>3, <4>1 DEF Return, ReadBack, Tell
    <3> QED  BY <3>2, <3>3
  <2> QED  BY <2>1, <2>2
<1> QED  BY <1>1, <1>2, <1>3 DEF Register!Answer

\* Two statements, with their waits, snapshots and losses, are one operation on
\* a register: the commit of the INSERT sets it, the reply reads it, and every
\* other step is invisible (idempotent-effect.ts, applyIdempotentEffect).
THEOREM CallsImplementRegister == Spec => ImplementsRegister
<1>1. Init => Register!RegisterInit
  BY DEF Init, Register!RegisterInit, NoRow, Register!NoRow, Pending, Register!Pending
<1>2. IInv /\ [Next]_vars => [Register!RegisterNext]_<<effects, answer>>
  <2> SUFFICES ASSUME IInv, [Next]_vars
               PROVE  [Register!RegisterNext]_<<effects, answer>>
    OBVIOUS
  <2>1. CASE UNCHANGED vars
    BY <2>1 DEF vars
  <2>2. ASSUME NEW c \in Calls, Start(c) \/ InsertRow(c) \/ InsertConflicts(c) \/ Select(c)
        PROVE  UNCHANGED <<effects, answer>>
    BY <2>2 DEF Start, InsertRow, InsertConflicts, Select
  <2>3. ASSUME NEW c \in Calls, CommitInsert(c)
        PROVE  Register!Apply(c)
    BY <2>3 DEF CommitInsert, IInv, OneRowPerKey, Exists, Register!Apply, NoRow, Register!NoRow,
                MyRow, Register!MyRow
  <2>4. ASSUME NEW c \in Calls, RollbackInsert(c) \/ Lose(c)
        PROVE  Register!Lose(c) \/ UNCHANGED <<effects, answer>>
    BY <2>4 DEF RollbackInsert, Lose, Waiting, Tell, Register!Lose, Pending, Register!Pending
  <2>5. ASSUME NEW c \in Calls, ReturnApplied(c) \/ Return(c)
        PROVE  Register!Answer(c)
    BY <2>5, AnswersAreTheRegister
  <2> QED  BY <2>1, <2>2, <2>3, <2>4, <2>5 DEF Next, Register!RegisterNext
<1> QED  BY <1>1, <1>2, Invariance, PTL DEF Spec, ImplementsRegister, Register!RegisterSpec
=============================================================================
