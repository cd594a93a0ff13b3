---------------------- MODULE CatalogFulfillment_proofs ----------------------
(***************************************************************************)
(* For every service item, any number of people and any number of cut      *)
(* attempts: the variables keep their types, a request that is rejected or *)
(* cancelled leaves no task open, the groups of tasks are worked on one    *)
(* after the other, no approval is passed by, and the workflow implements  *)
(* the journey that RequestJourney promises.                               *)
(***************************************************************************)
EXTENDS CatalogFulfillment, TLAPS

TableRow == [status : TaskStatus, at : 0..MaxGate]
Table    == [Ids -> TableRow]

RunState == [pc : RunPCs, outcome : Outcomes \cup {"none"}, gate : 0..MaxGate,
             copy : Copies, tries : 1..MaxTries, result : Results]

\* The id of a task, or of a child of it, is an id.
LEMMA IdType ==
  ASSUME NEW t \in Tasks, NEW g \in 0..MaxGate, NEW c \in Copies
  PROVE  Top(t, c) \in Ids /\ Child(t, g, c) \in Ids
BY CatalogAssumption DEF Top, Child, Ids

LEMMA InitialIdType == SomeId \in Ids /\ SomeId.gate = 0
<1>1. PICK t \in Tasks : TRUE
  BY CatalogAssumption
<1>2. Top(t, 1) \in Ids /\ Top(t, 1).gate = 0
  BY <1>1, CatalogAssumption DEF Copies, Top, Ids
<1> QED BY <1>2 DEF SomeId

LEMMA OffType == Off \in RunState
BY CatalogAssumption DEF Off, RunState, RunPCs, Outcomes, Copies, MaxTries, Results

\* Writing a status, whichever rows get it, keeps the table a table.
LEMMA SetRowType ==
  ASSUME row \in Table, NEW id \in Ids, NEW status \in TaskStatus, SetRow(id, status)
  PROVE  row' \in Table
BY DEF Table, TableRow, SetRow

LEMMA SkipRowsType ==
  ASSUME row \in Table, decisions \in [Ids -> SUBSET Outcomes], NEW ids, SkipRows(ids)
  PROVE  row' \in Table /\ decisions' \in [Ids -> SUBSET Outcomes]
<1>1. "skipped" \in TaskStatus /\ "skipped" \in Outcomes
  BY DEF TaskStatus, Outcomes
<1> QED BY <1>1 DEF Table, TableRow, SkipRows

LEMMA InsertTasksType ==
  ASSUME row \in Table, decisions \in [Ids -> SUBSET Outcomes], NEW inserted,
         InsertTasks(inserted)
  PROVE  row' \in Table /\ decisions' \in [Ids -> SUBSET Outcomes]
<1>1. {"skipped", "pending"} \subseteq TaskStatus /\ "skipped" \in Outcomes /\ 0 \in 0..MaxGate
  BY CatalogAssumption DEF TaskStatus, Outcomes, Open
<1> QED BY <1>1 DEF Table, TableRow, InsertTasks

\* A pause writes the checkpoint and one child task.
LEMMA PausingType ==
  ASSUME TypeOK, NEW t \in Tasks, NEW from \in 0..MaxGate, NEW a \in PausingAttempts(t, from)
  PROVE  a.rows \in Table /\ a.run \in RunState
<1> USE CatalogAssumption
<1> DEFINE g == from + 1
           c == FreeCopy(t, g)
<1>1. row \in Table /\ Top(t, mine) \in Ids
  BY IdType DEF TypeOK, Table, TableRow
<1>2. g \in 1..MaxGate /\ g \in 0..MaxGate
  <2>1. from < Len(Gates[t])
    BY DEF PausingAttempts
  <2>2. Len(Gates[t]) \in Nat /\ Len(Gates[t]) <= MaxGate
    BY DEF CatalogAssumption
  <2> QED BY <2>1, <2>2
<1>3. c \in Copies /\ Child(t, g, c) \in Ids
  BY <1>2, IdType DEF FreeCopy, Copies
<1>4. a = [rows |-> [row EXCEPT ![Top(t, mine)].at = g,
                                ![Child(t, g, c)].status = "in_progress"],
           run  |-> Paused(g, c)]
  BY DEF PausingAttempts
<1>5. [row EXCEPT ![Top(t, mine)].at = g, ![Child(t, g, c)].status = "in_progress"] \in Table
  <2> DEFINE paused == [row EXCEPT ![Top(t, mine)].at = g]
  <2>1. paused \in Table
    BY <1>1, <1>2 DEF Table, TableRow
  <2>2. "in_progress" \in TaskStatus
    BY DEF TaskStatus, Open
  <2>3. \A id \in Ids : [paused EXCEPT ![id].status = "in_progress"] \in Table
    <3> HIDE DEF paused
    <3> QED BY <2>1, <2>2 DEF Table, TableRow
  <2> QED BY <1>3, <2>3
<1>6. Paused(g, c) \in RunState
  BY OffType, <1>2, <1>3 DEF Paused, RunState, RunPCs
<1> QED BY <1>4, <1>5, <1>6

\* What an attempt of an automation may leave and answer.
LEMMA AttemptType ==
  ASSUME TypeOK, NEW t \in Tasks, NEW a \in Attempts(t)
  PROVE  a.rows \in Table /\ a.run \in RunState
<1> USE CatalogAssumption
<1>1. row \in Table /\ mine \in Copies /\ runs[t] \in RunState
  BY DEF TypeOK, Table, TableRow, RunState
<1>2. ASSUME NEW res \in Results PROVE Ended(res) \in RunState
  BY OffType, <1>2 DEF Ended, RunState, RunPCs
<1>3. ASSUME NEW g \in 0..MaxGate, NEW c \in Copies PROVE Paused(g, c) \in RunState
  BY OffType DEF Paused, RunState, RunPCs
<1>4. Top(t, mine) \in Ids
  BY <1>1, IdType
<1>5. CASE a = [rows |-> row, run |-> Ended("ok")]
  BY <1>1, <1>2, <1>5 DEF Results
<1>6. CASE a = ThrowingAttempt(t)
  <2>1. [row EXCEPT ![Top(t, mine)].status = "failed"] \in Table
    <3>1. "failed" \in TaskStatus
      BY DEF TaskStatus
    <3>2. \A id \in Ids : [row EXCEPT ![id].status = "failed"] \in Table
      BY <1>1, <3>1 DEF Table, TableRow
    <3> QED BY <1>4, <3>2
  <2>2. Ended("reject") \in RunState
    BY <1>2 DEF Results
  <2> QED BY <1>6, <2>1, <2>2 DEF ThrowingAttempt
<1>7. CASE \E id \in WaitingChildren(t) : a = [rows |-> row, run |-> Paused(id.gate, id.copy)]
  <2>1. PICK id \in WaitingChildren(t) : a = [rows |-> row, run |-> Paused(id.gate, id.copy)]
    BY <1>7
  <2>2. id \in Ids
    BY <2>1 DEF WaitingChildren
  <2> QED BY <1>1, <1>3, <2>1, <2>2 DEF Ids
<1>8. CASE a \in EndingAttempts(t)
  <2>1. PICK res \in Results :
          a = [rows |-> [row EXCEPT ![Top(t, mine)] =
                           [status |-> IF res \in {"ok", "skip"} THEN "completed" ELSE "failed",
                            at |-> 0]],
               run |-> Ended(res)]
    BY <1>8 DEF EndingAttempts
  <2>2. [status |-> IF res \in {"ok", "skip"} THEN "completed" ELSE "failed", at |-> 0]
          \in TableRow
    BY DEF TableRow, TaskStatus
  <2> QED BY <1>1, <1>2, <1>4, <2>1, <2>2 DEF Table
<1>9. ASSUME NEW from \in 0..MaxGate, NEW p \in PausingAttempts(t, from)
      PROVE  p.rows \in Table /\ p.run \in RunState
  BY PausingType
<1>10. row[Top(t, mine)].at \in 0..MaxGate /\ 0 \in 0..MaxGate
  BY <1>1, <1>4 DEF Table, TableRow
<1>11. ASSUME NEW from \in 0..MaxGate, a \in AbortedAttempts(t, from)
       PROVE  a.rows \in Table /\ a.run \in RunState
  <2>1. PICK p \in PausingAttempts(t, from) :
          a = [rows |-> [p.rows EXCEPT ![Top(t, mine)].status = "failed"],
               run |-> Ended("reject")]
    BY <1>11 DEF AbortedAttempts
  <2>2. p.rows \in Table
    BY <1>9
  <2>3. [p.rows EXCEPT ![Top(t, mine)].status = "failed"] \in Table
    <3>1. "failed" \in TaskStatus
      BY DEF TaskStatus
    <3> QED BY <1>4, <2>2, <3>1 DEF Table, TableRow
  <2> QED BY <1>2, <2>1, <2>3 DEF Results
<1> QED BY <1>5, <1>6, <1>7, <1>8, <1>9, <1>10, <1>11 DEF Attempts

-----------------------------------------------------------------------------
(***************************************************************************)
(* Type correctness.                                                       *)
(***************************************************************************)

LEMMA TypeIsTable == TypeOK <=>
  /\ request \in RequestStatus /\ row \in Table /\ pc \in PCs /\ group \in 1..LastOrder
  /\ mine \in Copies /\ runs \in [Tasks -> RunState] /\ todo \subseteq Ids
  /\ sig \in [Ids -> Outcomes \cup {"none"}] /\ cancel \in BOOLEAN
  /\ desk \in [Users -> [pc : {"idle", "signal", "update"}, id : Ids, outcome : Outcomes]]
  /\ faults \in Nat /\ decisions \in [Ids -> SUBSET Outcomes]
BY DEF TypeOK, Table, TableRow, RunState

LEMMA InitType == Init => TypeOK
<1> SUFFICES ASSUME Init PROVE TypeOK
  OBVIOUS
<1> USE CatalogAssumption DEF Init
<1>1. row \in Table
  BY DEF Table, TableRow, TaskStatus
<1>2. runs \in [Tasks -> RunState]
  BY OffType
<1>3. desk \in [Users -> [pc : {"idle", "signal", "update"}, id : Ids, outcome : Outcomes]]
  BY InitialIdType DEF Idle, Outcomes
<1>4. sig \in [Ids -> Outcomes \cup {"none"}] /\ decisions \in [Ids -> SUBSET Outcomes]
  OBVIOUS
<1>5. group \in 1..LastOrder /\ mine \in Copies /\ todo \subseteq Ids /\ faults \in Nat
  BY DEF Copies
<1>6. request \in RequestStatus /\ pc \in PCs /\ cancel \in BOOLEAN
  BY DEF RequestStatus, PCs
<1> QED
  BY <1>1, <1>2, <1>3, <1>4, <1>5, <1>6, TypeIsTable

\* The statements that open the request and its groups.
LEMMA OpeningType ==
  ASSUME TypeOK, CreateTasks \/ CreateIsCut \/ OpenRequest \/ ActivateGroup \/ AnnounceGroup
  PROVE  TypeOK'
<1>1. /\ row \in Table /\ decisions \in [Ids -> SUBSET Outcomes]
      /\ runs \in [Tasks -> RunState] /\ faults \in Nat
  BY TypeIsTable
<1>2. CASE CreateTasks
  <2>1. row' \in Table /\ decisions' \in [Ids -> SUBSET Outcomes]
    BY <1>1, <1>2, InsertTasksType DEF CreateTasks
  <2> QED BY <1>2, <2>1, TypeIsTable DEF CreateTasks, PCs, TypeOK, Table, TableRow
<1>3. CASE CreateIsCut
  <2>1. row' \in Table /\ decisions' \in [Ids -> SUBSET Outcomes]
    BY <1>1, <1>3, InsertTasksType DEF CreateIsCut
  <2> QED BY <1>1, <1>3, <2>1 DEF CreateIsCut, Copies, TypeOK, Table, TableRow
<1>4. CASE OpenRequest
  BY <1>4 DEF OpenRequest, StatusFor, RequestStatus, PCs, TypeOK
<1>5. CASE ActivateGroup
  <2>1. row' \in Table
    BY <1>1, <1>5 DEF ActivateGroup, Table, TableRow, TaskStatus, Open
  <2> QED BY <1>5, <2>1 DEF ActivateGroup, PCs, TypeOK, Table, TableRow
<1>6. CASE AnnounceGroup
  <2>1. runs' \in [Tasks -> RunState]
    BY <1>1, <1>6, OffType DEF AnnounceGroup, RunState, RunPCs
  <2> QED BY <1>6, <2>1 DEF AnnounceGroup, StatusFor, RequestStatus, PCs, TypeOK, RunState
<1> QED BY <1>2, <1>3, <1>4, <1>5, <1>6

\* The steps of one automation.
LEMMA RunStepType ==
  ASSUME TypeOK, NEW t \in Tasks, RunStep(t) \/ ExecuteIsCut(t)
  PROVE  TypeOK'
<1>1. /\ row \in Table /\ runs \in [Tasks -> RunState] /\ mine \in Copies
      /\ sig \in [Ids -> Outcomes \cup {"none"}] /\ faults \in Nat
  BY TypeIsTable
<1>2. ChildOf(t) \in Ids /\ Top(t, mine) \in Ids
  BY <1>1, IdType, CatalogAssumption DEF ChildOf, RunState
<1>3. CASE Execute(t)
  <2>1. PICK a \in Attempts(t) : row' = a.rows /\ runs' = [runs EXCEPT ![t] = a.run]
    BY <1>3 DEF Execute
  <2>2. row' \in Table /\ runs' \in [Tasks -> RunState]
    BY <1>1, <2>1, AttemptType
  <2> QED BY <1>3, <2>2 DEF Execute, TypeOK, Table, TableRow, RunState
<1>4. CASE ExecuteIsCut(t)
  <2>1. PICK a \in Attempts(t) :
          \/ row' = a.rows
          \/ row' = [a.rows EXCEPT ![Top(t, mine)] = row[Top(t, mine)]]
    BY <1>4 DEF ExecuteIsCut
  <2>2. row' \in Table
    BY <1>1, <1>2, <2>1, AttemptType DEF Table
  <2>3. runs' \in [Tasks -> RunState]
    BY <1>1, <1>4 DEF ExecuteIsCut, RunState, MaxTries
  <2>4. pc' \in PCs /\ faults' \in Nat
    BY <1>1, <1>4 DEF ExecuteIsCut, PCs, TypeOK
  <2> QED BY <1>4, <2>2, <2>3, <2>4 DEF ExecuteIsCut, TypeOK, Table, TableRow, RunState
<1>5. CASE Suspend(t)
  <2>1. runs' \in [Tasks -> RunState]
    <3>1. Ended("ok") \in RunState
      BY OffType DEF Ended, RunState, RunPCs, Results
    <3>2. [runs[t] EXCEPT !.pc = "await"] \in RunState
      BY <1>1 DEF RunState, RunPCs
    <3> QED BY <1>1, <1>5, <3>1, <3>2 DEF Suspend
  <2> QED BY <1>5, <2>1 DEF Suspend, RequestStatus, TypeOK, RunState
<1>6. CASE Answer(t)
  <2>1. sig[ChildOf(t)] \in Outcomes
    BY <1>1, <1>2, <1>6 DEF Answer, Answered
  <2>2. PICK status \in {"rejected", "completed", "skipped"} : SetRow(ChildOf(t), status)
    BY <1>6 DEF Answer
  <2>3. row' \in Table
    BY <1>1, <1>2, <2>2, SetRowType DEF TaskStatus
  <2>4. PICK outcome \in Outcomes :
          runs' = [runs EXCEPT ![t].pc = "answered", ![t].outcome = outcome]
    <3>1. "completed" \in Outcomes
      BY DEF Outcomes
    <3> QED BY <1>6, <2>1, <3>1 DEF Answer
  <2>5. runs' \in [Tasks -> RunState]
    <3> DEFINE answered == [runs EXCEPT ![t].pc = "answered"]
    <3>1. answered \in [Tasks -> RunState]
      BY <1>1 DEF RunState, RunPCs
    <3>2. [answered EXCEPT ![t].outcome = outcome] \in [Tasks -> RunState]
      <4> HIDE DEF answered
      <4> QED BY <3>1 DEF RunState
    <3> QED BY <2>4, <3>2
  <2> QED BY <1>6, <2>3, <2>5 DEF Answer, TypeOK, Table, TableRow, RunState
<1>7. CASE Resume(t)
  <2>1. runs' \in [Tasks -> RunState]
    BY <1>1, <1>7 DEF Resume, RunState, RunPCs
  <2> QED BY <1>7, <2>1 DEF Resume, RequestStatus, TypeOK, RunState
<1>8. CASE RunCancelled(t)
  <2>1. runs' \in [Tasks -> RunState]
    BY <1>1, <1>8, OffType DEF RunCancelled, Ended, RunState, RunPCs, Results
  <2> QED BY <1>8, <2>1 DEF RunCancelled, TypeOK, RunState
<1> QED BY <1>3, <1>4, <1>5, <1>6, <1>7, <1>8 DEF RunStep

\* The rest of the workflow.
LEMMA ClosingType ==
  ASSUME TypeOK,
         \/ EndRuns \/ Fetch \/ EndWait \/ EndGroup
         \/ CancelTask \/ SkipRemaining \/ CloseRequest
         \/ \E id \in Ids : Process(id)
  PROVE  TypeOK'
<1>1. /\ row \in Table /\ decisions \in [Ids -> SUBSET Outcomes] /\ mine \in Copies
      /\ todo \subseteq Ids
  BY TypeIsTable
<1>2. CASE EndRuns
  <2>1. row' \in Table /\ decisions' \in [Ids -> SUBSET Outcomes]
    BY <1>1, <1>2, SkipRowsType DEF EndRuns, SkipBranch
  <2>2. runs' \in [Tasks -> RunState] /\ pc' \in PCs
    BY <1>2, OffType DEF EndRuns, PCs
  <2> QED BY <1>2, <2>1, <2>2 DEF EndRuns, TypeOK, Table, TableRow, RunState
<1>3. CASE Fetch
  <2>1. todo' \subseteq Ids
    BY <1>3 DEF Fetch, AwaitingHuman, TopsOf
  <2> QED BY <1>3, <2>1 DEF Fetch, PCs, TypeOK
<1>4. CASE EndWait
  <2>1. todo' \subseteq Ids
    <3>1. \A t \in Tasks : Top(t, mine) \in Ids
      BY <1>1, IdType, CatalogAssumption
    <3> QED BY <1>4, <3>1 DEF EndWait, InGroup
  <2> QED BY <1>4, <2>1 DEF EndWait, PCs, TypeOK
<1>5. CASE EndGroup
  BY <1>5, CatalogAssumption DEF EndGroup, PCs, TypeOK
<1>6. CASE CancelTask
  <2>1. row' \in Table
    BY <1>1, <1>6, SetRowType DEF CancelTask, TaskStatus
  <2> QED BY <1>6, <2>1 DEF CancelTask, PCs, TypeOK, Table, TableRow
<1>7. CASE SkipRemaining
  <2>1. row' \in Table /\ decisions' \in [Ids -> SUBSET Outcomes]
    BY <1>1, <1>7, SkipRowsType DEF SkipRemaining
  <2> QED BY <1>7, <2>1 DEF SkipRemaining, PCs, TypeOK, Table, TableRow
<1>8. CASE CloseRequest
  BY <1>8 DEF CloseRequest, RequestStatus, PCs, TypeOK
<1>9. ASSUME NEW id \in Ids, Process(id) PROVE TypeOK'
  <2>1. row' \in Table
    BY <1>1, <1>9, SetRowType DEF Process, ProcessedRow, TaskStatus
  <2> QED BY <1>1, <1>9, <2>1 DEF Process, PCs, TypeOK, Table, TableRow
<1> QED BY <1>2, <1>3, <1>4, <1>5, <1>6, <1>7, <1>8, <1>9

\* The people.
LEMMA DeskType ==
  ASSUME TypeOK, NEW u \in Users, DeskStep(u) \/ DeskDies(u) \/ \E id \in Ids : ReadTask(u, id)
  PROVE  TypeOK'
<1>1. /\ row \in Table /\ faults \in Nat
      /\ desk \in [Users -> [pc : {"idle", "signal", "update"}, id : Ids, outcome : Outcomes]]
      /\ sig \in [Ids -> Outcomes \cup {"none"}] /\ cancel \in BOOLEAN
      /\ decisions \in [Ids -> SUBSET Outcomes]
  BY TypeIsTable
<1>2. Idle \in [pc : {"idle", "signal", "update"}, id : Ids, outcome : Outcomes]
  BY InitialIdType DEF Idle, Outcomes
<1>3. CASE SignalTask(u)
  <2> DEFINE id == desk[u].id
             outcome == desk[u].outcome
  <2>1. id \in Ids /\ outcome \in Outcomes
    BY <1>1
  <2>2. desk' \in [Users -> [pc : {"idle", "signal", "update"}, id : Ids, outcome : Outcomes]]
    BY <1>1, <1>2, <1>3 DEF SignalTask
  <2>3. sig' \in [Ids -> Outcomes \cup {"none"}]
    BY <1>1, <1>3, <2>1 DEF SignalTask
  <2>4. decisions' \in [Ids -> SUBSET Outcomes]
    BY <1>1, <1>3, <2>1 DEF SignalTask
  <2>5. cancel' \in BOOLEAN
    BY <1>1, <1>3 DEF SignalTask
  <2> QED BY <1>3, <2>2, <2>3, <2>4, <2>5 DEF SignalTask, TypeOK
<1>4. CASE UpdateTask(u)
  <2>1. StatusOf(desk[u].outcome) \in TaskStatus
    BY <1>1 DEF StatusOf, Outcomes, TaskStatus
  <2>2. row' \in Table
    BY <1>1, <1>4, <2>1, SetRowType DEF UpdateTask
  <2> QED BY <1>1, <1>2, <1>4, <2>2 DEF UpdateTask, TypeOK, Table, TableRow
<1>5. CASE DeskDies(u)
  BY <1>1, <1>2, <1>5 DEF DeskDies, TypeOK
<1>6. ASSUME NEW id \in Ids, ReadTask(u, id) PROVE TypeOK'
  BY <1>1, <1>6 DEF ReadTask, Answers, Outcomes, TypeOK
<1> QED BY <1>3, <1>4, <1>5, <1>6 DEF DeskStep

\* The variables keep their types: no attempt, answer or retry puts a status
\* into the tables that their columns do not allow.
THEOREM CatalogTypeCorrect == Spec => []TypeOK
<1>1. TypeOK /\ [Next]_vars => TypeOK'
  <2> SUFFICES ASSUME TypeOK, [Next]_vars PROVE TypeOK'
    OBVIOUS
  <2>1. CASE WorkflowStep
    BY <2>1, OpeningType, RunStepType, ClosingType DEF WorkflowStep
  <2>2. CASE CreateIsCut
    BY <2>2, OpeningType
  <2>3. ASSUME NEW t \in Tasks, ExecuteIsCut(t) PROVE TypeOK'
    BY <2>3, RunStepType
  <2>4. ASSUME NEW u \in Users, DeskStep(u) \/ DeskDies(u) \/ \E id \in Ids : ReadTask(u, id)
        PROVE  TypeOK'
    BY <2>4, DeskType
  <2>5. CASE UNCHANGED vars
    BY <2>5 DEF vars, TypeOK
  <2> QED BY <2>1, <2>2, <2>3, <2>4, <2>5 DEF Next
<1> QED BY <1>1, InitType, PTL DEF Spec

-----------------------------------------------------------------------------
(***************************************************************************)
(* What a rejected or cancelled request leaves behind.                     *)
(***************************************************************************)

AllClosed == \A id \in Ids : row[id].status \notin Open

\* Between skipRemainingTasks and the last UPDATE of the request, and for ever
\* after that, no task is open.
ClosingInv ==
  /\ request \in {"rejected", "cancelled"} => pc = "done"
  /\ pc \in {"rejected", "cancelled"} \/ request \in {"rejected", "cancelled"} => AllClosed

\* People close tasks: a row they write is not open.
LEMMA DeskCloses ==
  ASSUME TypeOK, NEW u \in Users,
         DeskStep(u) \/ DeskDies(u) \/ \E id \in Ids : ReadTask(u, id)
  PROVE  \A id \in Ids : row'[id] = row[id] \/ row'[id].status \notin Open
<1>1. row \in Table
  BY TypeIsTable
<1>2. CASE UpdateTask(u)
  <2>1. desk[u].outcome \in Outcomes /\ desk[u].id \in Ids
    BY DEF TypeOK
  <2>2. StatusOf(desk[u].outcome) \notin Open
    BY <2>1 DEF StatusOf, Outcomes, Open
  <2> QED BY <1>1, <1>2, <2>1, <2>2 DEF UpdateTask, SetRow, Table, TableRow
<1>3. CASE ~UpdateTask(u)
  BY <1>3 DEF DeskStep, SignalTask, DeskDies, ReadTask
<1> QED BY <1>2, <1>3

LEMMA ClosingStep ==
  ASSUME TypeOK, ClosingInv, [Next]_vars
  PROVE  ClosingInv'
<1>1. row \in Table
  BY TypeIsTable
<1>2. CASE SkipRemaining
  <2>1. AllClosed'
    BY <1>1, <1>2 DEF SkipRemaining, SkipRows, Remaining, AllClosed, Open, Table, TableRow
  <2> QED BY <1>2, <2>1 DEF SkipRemaining, ClosingInv
<1>3. CASE CloseRequest
  BY <1>3 DEF CloseRequest, ClosingInv, AllClosed
<1>4. ASSUME NEW u \in Users, DeskStep(u) \/ DeskDies(u) \/ \E id \in Ids : ReadTask(u, id)
      PROVE  ClosingInv'
  <2>1. request' = request /\ pc' = pc
    BY <1>4 DEF DeskStep, SignalTask, UpdateTask, DeskDies, ReadTask
  <2>2. AllClosed => AllClosed'
    BY <1>4, DeskCloses DEF AllClosed
  <2> QED BY <2>1, <2>2 DEF ClosingInv
<1>5. CASE CreateTasks \/ CreateIsCut \/ OpenRequest \/ ActivateGroup \/ AnnounceGroup
  BY <1>5 DEF CreateTasks, CreateIsCut, OpenRequest, ActivateGroup, AnnounceGroup, StatusFor,
              ClosingInv
<1>6. ASSUME NEW t \in Tasks, RunStep(t) \/ ExecuteIsCut(t) PROVE ClosingInv'
  BY <1>6 DEF RunStep, Execute, Suspend, Answer, Resume, RunCancelled, ExecuteIsCut, Running,
              ClosingInv
<1>7. CASE EndRuns \/ Fetch \/ EndWait \/ EndGroup \/ CancelTask
  BY <1>7 DEF EndRuns, Fetch, EndWait, EndGroup, CancelTask, ClosingInv
<1>8. ASSUME NEW id \in Ids, Process(id) PROVE ClosingInv'
  BY <1>8 DEF Process, ClosingInv
<1>9. CASE UNCHANGED vars
  BY <1>9 DEF vars, ClosingInv, AllClosed
<1> QED BY <1>2, <1>3, <1>4, <1>5, <1>6, <1>7, <1>8, <1>9 DEF Next, WorkflowStep

\* A rejected or cancelled request has no open task: neither child tasks of
\* automations nor the copies that repeated attempts have left, and no late
\* answer opens one again.
THEOREM NothingIsLeftOpen == Spec => []NothingStaysOpen
<1>1. Init => ClosingInv
  BY DEF Init, ClosingInv
<1>2. TypeOK /\ ClosingInv /\ [Next]_vars => ClosingInv'
  BY ClosingStep
<1>3. ClosingInv => NothingStaysOpen
  BY DEF ClosingInv, AllClosed, NothingStaysOpen
<1> QED BY <1>1, <1>2, <1>3, CatalogTypeCorrect, PTL DEF Spec

-----------------------------------------------------------------------------
(***************************************************************************)
(* The order of the groups.                                                *)
(***************************************************************************)

\* The status of the row that createRequestTasks returned for a task.
OwnStatus(t) == row[Top(t, mine)].status

NothingHasBegun ==
  pc = "create" => group = 1 /\ \A id \in Ids : row[id].status # "in_progress"

LaterWaits == \A t \in Tasks : Order[t] > group => OwnStatus(t) # "in_progress"

EarlierIsClosed == \A t \in Tasks : Order[t] < group => OwnStatus(t) \notin Open

UnmanagedIsClosed == pc # "create" => \A t \in Unmanaged : OwnStatus(t) \notin Open

\* An automation is not waited for because its row is closed when it ends.
EndedIsClosed ==
  /\ pc = "run" => \A t \in Flows :
       runs[t].pc = "ended" => OwnStatus(t) \notin Open \/ cancel = TRUE
  /\ pc \in {"fetch", "wait", "process"} => \A t \in Flows : OwnStatus(t) \notin Open

\* Whatever is still open is waited for, and then processed with an answer.
OpenIsAwaited ==
  /\ pc = "wait" => \A t \in InGroup(group) \cap Needs :
       OwnStatus(t) \in Open => Top(t, mine) \in todo
  /\ pc = "process" => \A t \in InGroup(group) \cap Needs :
       OwnStatus(t) \in Open => Top(t, mine) \in todo /\ sig[Top(t, mine)] # "none"

OrderInv ==
  /\ NothingHasBegun /\ LaterWaits /\ EarlierIsClosed /\ UnmanagedIsClosed
  /\ EndedIsClosed /\ OpenIsAwaited


\* No row is opened by this step.
Closes ==
  /\ group' = group /\ mine' = mine
  /\ \A t \in Tasks : OwnStatus(t)' = OwnStatus(t) \/ OwnStatus(t)' \notin Open

LEMMA ClosingKeepsOrder ==
  ASSUME Closes, LaterWaits, EarlierIsClosed
  PROVE  LaterWaits' /\ EarlierIsClosed'
BY DEF Closes, LaterWaits, EarlierIsClosed, Open

LEMMA ClosingKeepsUnmanaged ==
  ASSUME Closes, UnmanagedIsClosed, pc # "create"
  PROVE  UnmanagedIsClosed'
BY CatalogAssumption DEF Closes, UnmanagedIsClosed

\* Different tasks have different rows, and a child of a task has another one.
LEMMA IdsDiffer ==
  ASSUME NEW t \in Tasks, NEW u \in Tasks, NEW c \in Copies, NEW d \in Copies,
         NEW g \in 1..MaxGate
  PROVE  /\ Top(t, c) = Top(u, d) <=> t = u /\ c = d
         /\ Child(t, g, c) # Top(u, d)
BY DEF Top, Child

\* An attempt touches the row of its own task only to close it, and closes it
\* when it ends.
LEMMA AttemptCloses ==
  ASSUME TypeOK, NEW t \in Tasks, NEW a \in Attempts(t), NEW u \in Tasks
  PROVE  /\ u # t => a.rows[Top(u, mine)] = row[Top(u, mine)]
         /\ \/ a.rows[Top(t, mine)].status = OwnStatus(t)
            \/ a.rows[Top(t, mine)].status \notin Open
         /\ a.run.pc = "ended" => a.rows[Top(t, mine)].status \notin Open
<1> USE CatalogAssumption
<1>1. row \in Table /\ mine \in Copies
  BY TypeIsTable
<1>2. Top(t, mine) \in Ids /\ Top(u, mine) \in Ids /\ (u # t => Top(u, mine) # Top(t, mine))
  BY <1>1, IdType, IdsDiffer DEF Top
<1>3. CASE OwnStatus(t) \notin Open
  BY <1>3 DEF Attempts, OwnStatus
<1>4. CASE a = ThrowingAttempt(t)
  BY <1>1, <1>2, <1>4 DEF ThrowingAttempt, Table, TableRow, Open
<1>5. CASE \E id \in WaitingChildren(t) : a = [rows |-> row, run |-> Paused(id.gate, id.copy)]
  <2>1. PICK id \in WaitingChildren(t) : a = [rows |-> row, run |-> Paused(id.gate, id.copy)]
    BY <1>5
  <2>2. Paused(id.gate, id.copy).pc = "suspended"
    BY DEF Paused, Off
  <2> QED BY <2>1, <2>2 DEF OwnStatus
<1>6. CASE a \in EndingAttempts(t)
  BY <1>1, <1>2, <1>6 DEF EndingAttempts, Table, TableRow, Open
<1>7. ASSUME NEW from \in 0..MaxGate, NEW p \in PausingAttempts(t, from)
      PROVE  /\ u # t => p.rows[Top(u, mine)] = row[Top(u, mine)]
             /\ p.rows[Top(t, mine)].status = OwnStatus(t)
             /\ p.run.pc # "ended"
  <2> DEFINE g == from + 1
             c == FreeCopy(t, g)
  <2>1. g \in 1..MaxGate
    <3>1. from < Len(Gates[t])
      BY <1>7 DEF PausingAttempts
    <3>2. Len(Gates[t]) \in Nat /\ Len(Gates[t]) <= MaxGate
      BY DEF CatalogAssumption
    <3> QED BY <3>1, <3>2
  <2>2. c \in Copies
    BY DEF FreeCopy, Copies
  <2>3. Child(t, g, c) # Top(t, mine) /\ Child(t, g, c) # Top(u, mine)
    BY <1>1, <2>1, <2>2, IdsDiffer
  <2>4. p = [rows |-> [row EXCEPT ![Top(t, mine)].at = g,
                                  ![Child(t, g, c)].status = "in_progress"],
             run  |-> Paused(g, c)]
    BY <1>7 DEF PausingAttempts
  <2>5. p.run.pc = "suspended"
    BY <2>4 DEF Paused, Off
  <2> HIDE DEF g, c
  <2>6. DOMAIN row = Ids /\ row[Top(t, mine)] \in TableRow
    BY <1>1, <1>2 DEF Table
  <2>7. p.rows[Top(t, mine)] = [row[Top(t, mine)] EXCEPT !.at = g]
    BY <1>2, <2>3, <2>4, <2>6
  <2>8. u # t => p.rows[Top(u, mine)] = row[Top(u, mine)]
    BY <1>2, <2>3, <2>4, <2>6
  <2> QED BY <2>5, <2>6, <2>7, <2>8 DEF OwnStatus, TableRow
<1>8. row[Top(t, mine)].at \in 0..MaxGate /\ 0 \in 0..MaxGate
  BY <1>1, <1>2 DEF Table, TableRow
<1>9. ASSUME NEW from \in 0..MaxGate, a \in AbortedAttempts(t, from)
      PROVE  /\ u # t => a.rows[Top(u, mine)] = row[Top(u, mine)]
             /\ a.rows[Top(t, mine)].status \notin Open
  <2>1. PICK p \in PausingAttempts(t, from) :
          a = [rows |-> [p.rows EXCEPT ![Top(t, mine)].status = "failed"],
               run |-> Ended("reject")]
    BY <1>9 DEF AbortedAttempts
  <2>2. p.rows \in Table /\ (u # t => p.rows[Top(u, mine)] = row[Top(u, mine)])
    <3>1. u # t => p.rows[Top(u, mine)] = row[Top(u, mine)]
      BY <1>7
    <3>2. p.rows \in Table
      BY <1>1, <1>2, <1>8, PausingType
    <3> QED BY <3>1, <3>2
  <2>3. a.rows[Top(t, mine)].status = "failed"
    BY <1>2, <2>1, <2>2 DEF Table, TableRow
  <2>4. u # t => a.rows[Top(u, mine)] = row[Top(u, mine)]
    BY <1>2, <2>1, <2>2 DEF Table
  <2> QED BY <2>3, <2>4 DEF Open
<1> QED BY <1>3, <1>4, <1>5, <1>6, <1>7, <1>8, <1>9 DEF Attempts, OwnStatus

LEMMA OrderInit == Init => OrderInv
<1> SUFFICES ASSUME Init PROVE OrderInv
  OBVIOUS
<1> USE CatalogAssumption DEF Init, OwnStatus
<1>1. \A t \in Tasks : Top(t, mine) \in Ids
  BY IdType DEF Copies
<1>2. \A t \in Tasks : OwnStatus(t) = "absent"
  BY <1>1
<1> QED
  BY <1>2 DEF OrderInv, NothingHasBegun, LaterWaits, EarlierIsClosed, UnmanagedIsClosed,
              EndedIsClosed, OpenIsAwaited, Open

\* Until the workflow has its tasks.
LEMMA OpeningOrder ==
  ASSUME TypeOK, OrderInv,
         CreateTasks \/ CreateIsCut \/ OpenRequest \/ ActivateGroup \/ AnnounceGroup
  PROVE  OrderInv'
<1> USE CatalogAssumption
<1>1. /\ row \in Table /\ group \in 1..LastOrder /\ \A t \in Tasks : Order[t] \in 1..LastOrder
      /\ mine \in Copies
  BY TypeIsTable
<1>2. \A t \in Tasks, c \in Copies : Top(t, c) \in Ids
  BY IdType
<1>3. CASE CreateTasks \/ CreateIsCut
  <2>1. pc = "create" /\ group = 1 /\ group' = 1 /\ pc' \in {"create", "open"}
    BY <1>3 DEF CreateTasks, CreateIsCut, OrderInv, NothingHasBegun
  <2>2. PICK inserted : InsertTasks(inserted) /\ (CreateTasks => inserted = Tasks)
    BY <1>3 DEF CreateTasks, CreateIsCut
  <2>3. \A id \in Ids : row'[id].status # "in_progress"
    BY <2>1, <2>2 DEF InsertTasks, OrderInv, NothingHasBegun
  <2>4. mine' \in Copies
    BY <1>1, <1>3 DEF CreateTasks, CreateIsCut, Copies
  <2>5. \A t \in Tasks : OwnStatus(t)' # "in_progress"
    BY <1>2, <2>3, <2>4 DEF OwnStatus
  <2>6. ASSUME CreateTasks, NEW t \in Unmanaged PROVE OwnStatus(t)' = "skipped"
    <3>1. t \in Tasks /\ Top(t, mine) \in Ids /\ Top(t, mine).task = t
      BY <1>1, <1>2 DEF Top
    <3>2. mine' = mine /\ Top(t, mine) \in {Top(u, mine) : u \in inserted}
      BY <2>2, <2>6, <3>1 DEF CreateTasks
    <3> QED BY <2>2, <3>1, <3>2 DEF InsertTasks, OwnStatus
  <2>7. NothingHasBegun' /\ LaterWaits' /\ EarlierIsClosed'
    BY <1>1, <2>1, <2>3, <2>5 DEF NothingHasBegun, LaterWaits, EarlierIsClosed
  <2>8. UnmanagedIsClosed'
    <3>1. pc' # "create" => CreateTasks
      BY <1>3, <2>1 DEF CreateIsCut
    <3> QED BY <2>6, <3>1 DEF UnmanagedIsClosed, Open
  <2> QED BY <2>1, <2>7, <2>8 DEF OrderInv, EndedIsClosed, OpenIsAwaited
<1>4. CASE OpenRequest
  BY <1>4 DEF OpenRequest, OrderInv, NothingHasBegun, LaterWaits, EarlierIsClosed,
              UnmanagedIsClosed, EndedIsClosed, OpenIsAwaited, OwnStatus
<1>5. CASE ActivateGroup
  <2>1. ASSUME NEW t \in Tasks
        PROVE  IF Order[t] = group /\ OwnStatus(t) = "pending"
               THEN OwnStatus(t)' = "in_progress" ELSE OwnStatus(t)' = OwnStatus(t)
    <3>1. Top(t, mine) \in Ids /\ Top(t, mine).gate = 0 /\ Top(t, mine).task = t
      BY <1>1, <1>2 DEF Top
    <3> QED BY <1>1, <1>5, <3>1 DEF ActivateGroup, InGroup, OwnStatus, Table, TableRow
  <2>2. pc = "activate" /\ pc' = "announce" /\ group' = group /\ mine' = mine
    BY <1>5 DEF ActivateGroup
  <2>3. LaterWaits' /\ EarlierIsClosed'
    BY <1>1, <2>1, <2>2 DEF OrderInv, LaterWaits, EarlierIsClosed, Open
  <2>4. UnmanagedIsClosed'
    BY <2>1, <2>2 DEF OrderInv, UnmanagedIsClosed, Open
  <2> QED BY <2>2, <2>3, <2>4 DEF OrderInv, NothingHasBegun, EndedIsClosed, OpenIsAwaited
<1>6. CASE AnnounceGroup
  <2>1. /\ group' = group /\ mine' = mine /\ row' = row /\ pc # "create"
        /\ pc' \in {"fetch", "run"} /\ (pc' = "fetch" => Flows' = {})
        /\ (pc' = "run" => \A t \in Flows : runs'[t].pc # "ended")
    BY <1>6 DEF AnnounceGroup, Off, Flows, InGroup
  <2>2. Flows' = Flows
    BY <2>1 DEF Flows, InGroup
  <2>3. \A t \in Tasks : OwnStatus(t)' = OwnStatus(t)
    BY <2>1 DEF OwnStatus
  <2>4. LaterWaits' /\ EarlierIsClosed' /\ UnmanagedIsClosed'
    BY <2>1, <2>3, ClosingKeepsOrder, ClosingKeepsUnmanaged DEF Closes, OrderInv
  <2>5. EndedIsClosed'
    BY <2>1, <2>2 DEF EndedIsClosed
  <2> QED BY <2>1, <2>4, <2>5 DEF OrderInv, NothingHasBegun, OpenIsAwaited
<1> QED BY <1>3, <1>4, <1>5, <1>6

\* While its automations run.
LEMMA RunOrder ==
  ASSUME TypeOK, OrderInv, NEW t \in Tasks, RunStep(t) \/ ExecuteIsCut(t)
  PROVE  OrderInv'
<1> USE CatalogAssumption
<1>1. /\ row \in Table /\ mine \in Copies /\ runs \in [Tasks -> RunState]
      /\ cancel \in BOOLEAN
  BY TypeIsTable
<1>2. \A u \in Tasks : Top(u, mine) \in Ids
  BY <1>1, IdType
<1>3. /\ pc = "run" /\ pc' \in {"run", "failed"} /\ t \in Flows
      /\ group' = group /\ mine' = mine /\ cancel' = cancel /\ Flows' = Flows
  BY DEF RunStep, Execute, Suspend, Answer, Resume, RunCancelled, ExecuteIsCut, Running,
         Flows, InGroup
<1>4. /\ \A u \in Tasks : OwnStatus(u)' = OwnStatus(u) \/ OwnStatus(u)' \notin Open
      /\ pc' = "run" => \A u \in Tasks :
           runs'[u].pc = "ended" =>
             \/ runs[u].pc = "ended"
             \/ OwnStatus(u)' \notin Open
             \/ cancel = TRUE
  <2>1. CASE Execute(t)
    <3>1. PICK a \in Attempts(t) : row' = a.rows /\ runs' = [runs EXCEPT ![t] = a.run]
      BY <2>1 DEF Execute
    <3>2. \A u \in Tasks : OwnStatus(u)' = OwnStatus(u) \/ OwnStatus(u)' \notin Open
      BY <1>3, <3>1, AttemptCloses DEF OwnStatus
    <3>3. runs'[t] = a.run /\ \A u \in Tasks : u # t => runs'[u] = runs[u]
      BY <1>1, <3>1
    <3>4. a.run.pc = "ended" => OwnStatus(t)' \notin Open
      BY <1>3, <3>1, AttemptCloses DEF OwnStatus
    <3> QED BY <3>2, <3>3, <3>4
  <2>2. CASE ExecuteIsCut(t)
    <3>1. PICK a \in Attempts(t) :
            \/ row' = a.rows
            \/ row' = [a.rows EXCEPT ![Top(t, mine)] = row[Top(t, mine)]]
      BY <2>2 DEF ExecuteIsCut
    <3>2. ASSUME NEW u \in Tasks
          PROVE  OwnStatus(u)' = OwnStatus(u) \/ OwnStatus(u)' \notin Open
      <4>1. a.rows \in Table
        BY AttemptType
      <4>2. CASE row' = a.rows
        BY <1>3, <4>2, AttemptCloses DEF OwnStatus
      <4>3. CASE row' = [a.rows EXCEPT ![Top(t, mine)] = row[Top(t, mine)]]
        <5>1. CASE u = t
          BY <1>2, <1>3, <4>1, <4>3, <5>1 DEF OwnStatus, Table
        <5>2. CASE u # t
          <6>1. row'[Top(u, mine)] = a.rows[Top(u, mine)]
            BY <1>1, <1>2, <4>1, <4>3, <5>2 DEF Table, Top
          <6>2. a.rows[Top(u, mine)] = row[Top(u, mine)]
            BY <5>2, AttemptCloses
          <6> QED BY <1>3, <6>1, <6>2 DEF OwnStatus
        <5> QED BY <5>1, <5>2
      <4> QED BY <3>1, <4>2, <4>3
    <3>3. pc' = "run" => \A u \in Tasks : runs'[u].pc = runs[u].pc
      <4>1. pc' = "run" => runs' = [runs EXCEPT ![t].tries = @ + 1]
        BY <2>2 DEF ExecuteIsCut
      <4>2. ASSUME NEW u \in Tasks, NEW tries PROVE [runs EXCEPT ![t].tries = tries][u].pc = runs[u].pc
        <5>1. CASE u = t
          BY <1>1, <5>1 DEF RunState
        <5>2. CASE u # t
          BY <1>1, <5>2
        <5> QED BY <5>1, <5>2
      <4>3. pc' = "run" => runs' = [runs EXCEPT ![t].tries = runs[t].tries + 1]
        BY <4>1
      <4> QED BY <4>2, <4>3
    <3> QED BY <3>2, <3>3
  <2>3. CASE Answer(t)
    <3>1. PICK status \in {"rejected", "completed", "skipped"} : SetRow(ChildOf(t), status)
      BY <2>3 DEF Answer
    <3>2. \A u \in Tasks : OwnStatus(u)' = OwnStatus(u) \/ OwnStatus(u)' \notin Open
      BY <1>1, <1>2, <1>3, <3>1 DEF SetRow, OwnStatus, Open, Table, TableRow
    <3>3. \A u \in Tasks : runs'[u].pc = "ended" => runs[u].pc = "ended"
      BY <1>1, <2>3 DEF Answer, RunState
    <3> QED BY <3>2, <3>3
  <2>4. CASE Suspend(t) \/ Resume(t) \/ RunCancelled(t)
    <3>1. row' = row
      BY <2>4 DEF Suspend, Resume, RunCancelled
    <3>2. \A u \in Tasks : runs'[u].pc = "ended" => runs[u].pc = "ended" \/ cancel = TRUE
      <4>1. CASE cancel = TRUE
        BY <4>1
      <4>2. CASE cancel = FALSE
        <5>1. ~RunCancelled(t)
          BY <4>2 DEF RunCancelled
        <5>2. PICK to \in {"await", "execute"} : runs' = [runs EXCEPT ![t].pc = to]
          BY <2>4, <4>2, <5>1 DEF Suspend, Resume
        <5> QED BY <1>1, <5>2 DEF RunState
      <4> QED BY <1>1, <4>1, <4>2
    <3> QED BY <1>3, <3>1, <3>2 DEF OwnStatus
  <2> QED BY <2>1, <2>2, <2>3, <2>4 DEF RunStep
<1>5. LaterWaits' /\ EarlierIsClosed' /\ UnmanagedIsClosed'
  BY <1>3, <1>4, ClosingKeepsOrder, ClosingKeepsUnmanaged DEF Closes, OrderInv
<1>6. EndedIsClosed'
  BY <1>3, <1>4 DEF OrderInv, EndedIsClosed, Flows, InGroup
<1> QED BY <1>3, <1>5, <1>6 DEF OrderInv, NothingHasBegun, OpenIsAwaited

\* Statements that only skip rows, or write one row that is not open then.
LEMMA SkippingCloses ==
  ASSUME TypeOK, NEW ids, SkipRows(ids)
  PROVE  \A id \in Ids : row'[id] = row[id] \/ row'[id].status \notin Open
<1>1. row \in Table
  BY TypeIsTable
<1> QED BY <1>1 DEF SkipRows, Open, Table, TableRow

LEMMA SettingCloses ==
  ASSUME TypeOK, NEW id \in Ids, NEW status, status \notin Open, SetRow(id, status)
  PROVE  /\ \A i \in Ids : row'[i] = row[i] \/ row'[i].status \notin Open
         /\ row'[id].status \notin Open
<1>1. row \in Table
  BY TypeIsTable
<1> QED BY <1>1 DEF SetRow, Table, TableRow

\* A step that closes rows keeps the order if it keeps what its next pc needs.
LEMMA ClosingKeeps ==
  ASSUME TypeOK, OrderInv, group' = group, mine' = mine, pc # "create", pc' # "create",
         \A id \in Ids : row'[id] = row[id] \/ row'[id].status \notin Open
  PROVE  /\ \A t \in Tasks : OwnStatus(t)' = OwnStatus(t) \/ OwnStatus(t)' \notin Open
         /\ NothingHasBegun' /\ LaterWaits' /\ EarlierIsClosed' /\ UnmanagedIsClosed'
<1>1. \A t \in Tasks : Top(t, mine) \in Ids
  BY TypeIsTable, IdType, CatalogAssumption
<1>2. \A t \in Tasks : OwnStatus(t)' = OwnStatus(t) \/ OwnStatus(t)' \notin Open
  BY <1>1 DEF OwnStatus
<1>3. LaterWaits' /\ EarlierIsClosed' /\ UnmanagedIsClosed'
  BY <1>2, ClosingKeepsOrder, ClosingKeepsUnmanaged DEF Closes, OrderInv
<1> QED BY <1>2, <1>3 DEF NothingHasBegun

\* From the end of the automations to the end of the group.
LEMMA GroupOrder ==
  ASSUME TypeOK, OrderInv, EndRuns \/ Fetch \/ EndWait \/ EndGroup
  PROVE  OrderInv'
<1> USE CatalogAssumption
<1>1. /\ row \in Table /\ mine \in Copies /\ cancel \in BOOLEAN /\ group \in 1..LastOrder
      /\ \A t \in Tasks : Top(t, mine) \in Ids /\ Order[t] \in 1..LastOrder
  BY TypeIsTable, IdType
<1>2. CASE EndRuns
  <2>1. /\ pc = "run" /\ pc' \in {"cancel", "reject", "fetch"}
        /\ group' = group /\ mine' = mine /\ Flows' = Flows /\ cancel' = cancel
        /\ pc' = "fetch" => cancel = FALSE /\ RunsOver
    BY <1>1, <1>2 DEF EndRuns, Flows, InGroup
  <2>2. \A id \in Ids : row'[id] = row[id] \/ row'[id].status \notin Open
    BY <1>2, SkippingCloses DEF EndRuns, SkipBranch
  <2>3. /\ \A t \in Tasks : OwnStatus(t)' = OwnStatus(t) \/ OwnStatus(t)' \notin Open
        /\ NothingHasBegun' /\ LaterWaits' /\ EarlierIsClosed' /\ UnmanagedIsClosed'
    BY <2>1, <2>2, ClosingKeeps
  <2>4. EndedIsClosed'
    BY <2>1, <2>3 DEF OrderInv, EndedIsClosed, RunsOver, Flows, InGroup
  <2> QED BY <2>1, <2>3, <2>4 DEF OrderInv, OpenIsAwaited
<1>3. CASE Fetch
  <2>1. /\ pc = "fetch" /\ pc' = "wait" /\ group' = group /\ mine' = mine /\ row' = row
        /\ Flows' = Flows /\ todo' = AwaitingHuman
    BY <1>3 DEF Fetch, Flows, InGroup
  <2>2. /\ \A t \in Tasks : OwnStatus(t)' = OwnStatus(t)
        /\ NothingHasBegun' /\ LaterWaits' /\ EarlierIsClosed' /\ UnmanagedIsClosed'
    BY <2>1, ClosingKeeps DEF OwnStatus
  <2>3. EndedIsClosed'
    BY <2>1, <2>2 DEF OrderInv, EndedIsClosed, Flows, InGroup
  <2>4. OpenIsAwaited'
    <3>1. ASSUME NEW t \in InGroup(group), OwnStatus(t) \in Open PROVE Top(t, mine) \in AwaitingHuman
      <4>1. t \in Tasks /\ Order[t] = group
        BY <3>1 DEF InGroup
      <4>2. Top(t, mine) \in Ids /\ Top(t, mine).gate = 0 /\ Top(t, mine).task = t
        BY <1>1, <4>1 DEF Top
      <4> QED BY <3>1, <4>1, <4>2 DEF AwaitingHuman, TopsOf, OwnStatus
    <3>2. \A t \in InGroup(group) : t \in Tasks
      BY DEF InGroup
    <3> QED BY <2>1, <2>2, <3>1, <3>2 DEF OpenIsAwaited, InGroup
  <2> QED BY <2>2, <2>3, <2>4 DEF OrderInv
<1>4. CASE EndWait
  <2>1. /\ pc = "wait" /\ pc' \in {"cancel", "process"} /\ group' = group /\ mine' = mine
        /\ row' = row /\ Flows' = Flows /\ sig' = sig /\ InGroup(group)' = InGroup(group)
        /\ pc' = "process" =>
             /\ \A id \in todo : sig[id] # "none"
             /\ todo' = {Top(t, mine) : t \in InGroup(group) \cap Needs}
    BY <1>4 DEF EndWait, Flows, InGroup
  <2>2. /\ \A t \in Tasks : OwnStatus(t)' = OwnStatus(t)
        /\ NothingHasBegun' /\ LaterWaits' /\ EarlierIsClosed' /\ UnmanagedIsClosed'
    BY <2>1, ClosingKeeps DEF OwnStatus
  <2>3. EndedIsClosed'
    BY <2>1, <2>2 DEF OrderInv, EndedIsClosed, Flows, InGroup
  <2>4. ASSUME pc' = "process", NEW t \in InGroup(group) \cap Needs, OwnStatus(t)' \in Open
        PROVE  Top(t, mine)' \in todo' /\ sig'[Top(t, mine)'] # "none"
    <3>1. OwnStatus(t) \in Open
      BY <2>2, <2>4 DEF InGroup
    <3>2. Top(t, mine)' = Top(t, mine)
      BY <2>1 DEF Top
    <3>3. Top(t, mine) \in todo
      BY <2>1, <3>1 DEF OrderInv, OpenIsAwaited
    <3> QED BY <2>1, <2>4, <3>2, <3>3
  <2>5. OpenIsAwaited'
    BY <2>1, <2>4 DEF OpenIsAwaited, InGroup
  <2> QED BY <2>2, <2>3, <2>5 DEF OrderInv
<1>5. CASE EndGroup
  <2>1. /\ pc = "process" /\ todo = {} /\ pc' \in {"activate", "fulfill"} /\ row' = row
        /\ mine' = mine /\ group' \in {group, group + 1}
    BY <1>5 DEF EndGroup
  <2>2. \A t \in Tasks : OwnStatus(t)' = OwnStatus(t)
    BY <2>1 DEF OwnStatus
  <2>3. ASSUME NEW t \in Tasks, Order[t] = group PROVE OwnStatus(t) \notin Open
    <3>1. t \in Flows \/ t \in Unmanaged \/ t \in InGroup(group) \cap Needs
      BY <2>3 DEF Flows, InGroup, Needs
    <3> QED BY <2>1, <3>1 DEF OrderInv, EndedIsClosed, UnmanagedIsClosed, OpenIsAwaited
  <2>4. LaterWaits'
    BY <1>1, <2>1, <2>2 DEF OrderInv, LaterWaits
  <2>5. EarlierIsClosed'
    BY <1>1, <2>1, <2>2, <2>3 DEF OrderInv, EarlierIsClosed
  <2>6. UnmanagedIsClosed'
    BY <2>1, <2>2 DEF OrderInv, UnmanagedIsClosed
  <2> QED BY <2>1, <2>4, <2>5, <2>6 DEF OrderInv, NothingHasBegun, EndedIsClosed, OpenIsAwaited
<1> QED BY <1>2, <1>3, <1>4, <1>5

\* Processing an answer, and the end of the request.
LEMMA AnswerOrder ==
  ASSUME TypeOK, OrderInv,
         \/ CancelTask \/ SkipRemaining \/ CloseRequest
         \/ \E id \in Ids : Process(id)
  PROVE  OrderInv'
<1>1. ASSUME NEW id \in Ids, Process(id) PROVE OrderInv'
  <2>1. /\ pc = "process" /\ pc' \in {"process", "reject"} /\ group' = group /\ mine' = mine
        /\ Flows' = Flows /\ InGroup(group)' = InGroup(group) /\ todo' = todo \ {id}
        /\ sig' = sig
    BY <1>1 DEF Process, Flows, InGroup
  <2>2. /\ \A i \in Ids : row'[i] = row[i] \/ row'[i].status \notin Open
        /\ pc' = "process" => sig[id] = "none" \/ row'[id].status \notin Open
    <3>1. CASE sig[id] = "none"
      BY <1>1, <3>1 DEF Process
    <3>2. CASE sig[id] # "none"
      <4>1. PICK status \in {"rejected", "skipped", "completed"} : SetRow(id, status)
        BY <1>1, <3>2 DEF Process, ProcessedRow
      <4> QED BY <4>1, SettingCloses DEF Open
    <3> QED BY <3>1, <3>2
  <2>3. /\ \A t \in Tasks : OwnStatus(t)' = OwnStatus(t) \/ OwnStatus(t)' \notin Open
        /\ NothingHasBegun' /\ LaterWaits' /\ EarlierIsClosed' /\ UnmanagedIsClosed'
    BY <2>1, <2>2, ClosingKeeps
  <2>4. EndedIsClosed'
    BY <2>1, <2>3 DEF OrderInv, EndedIsClosed, Flows, InGroup
  <2>5. ASSUME pc' = "process", NEW t \in InGroup(group) \cap Needs, OwnStatus(t)' \in Open
        PROVE  Top(t, mine)' \in todo' /\ sig'[Top(t, mine)'] # "none"
    <3>1. t \in Tasks /\ Top(t, mine)' = Top(t, mine)
      BY <2>1 DEF Top, InGroup
    <3>2. OwnStatus(t) \in Open
      BY <2>3, <2>5, <3>1
    <3>3. Top(t, mine) \in todo /\ sig[Top(t, mine)] # "none"
      BY <2>1, <3>2 DEF OrderInv, OpenIsAwaited
    <3>4. Top(t, mine) # id
      BY <2>1, <2>2, <2>5, <3>1, <3>3 DEF OwnStatus
    <3> QED BY <2>1, <3>1, <3>3, <3>4
  <2>6. OpenIsAwaited'
    BY <2>1, <2>5 DEF OpenIsAwaited, InGroup
  <2> QED BY <2>3, <2>4, <2>6 DEF OrderInv
<1>2. ASSUME CancelTask \/ SkipRemaining \/ CloseRequest PROVE OrderInv'
  <2>1. /\ pc \in {"cancel", "reject", "skip", "rejected", "cancelled", "fulfill"}
        /\ pc' \in {"skip", "rejected", "cancelled", "done"}
        /\ group' = group /\ mine' = mine
    BY <1>2 DEF CancelTask, SkipRemaining, CloseRequest
  <2>2. \A id \in Ids : row'[id] = row[id] \/ row'[id].status \notin Open
    <3>1. CASE CancelTask
      <4>1. row' = row \/ \E id \in Ids : SetRow(id, "cancelled")
        BY <3>1 DEF CancelTask
      <4> QED BY <4>1, SettingCloses DEF Open
    <3>2. CASE SkipRemaining
      BY <3>2, SkippingCloses DEF SkipRemaining
    <3>3. CASE CloseRequest
      BY <3>3 DEF CloseRequest
    <3> QED BY <1>2, <3>1, <3>2, <3>3
  <2>3. NothingHasBegun' /\ LaterWaits' /\ EarlierIsClosed' /\ UnmanagedIsClosed'
    BY <2>1, <2>2, ClosingKeeps
  <2> QED BY <2>1, <2>3 DEF OrderInv, EndedIsClosed, OpenIsAwaited
<1> QED BY <1>1, <1>2

LEMMA DeskOrder ==
  ASSUME TypeOK, OrderInv, NEW u \in Users,
         DeskStep(u) \/ DeskDies(u) \/ \E id \in Ids : ReadTask(u, id)
  PROVE  OrderInv'
<1>1. /\ group' = group /\ mine' = mine /\ pc' = pc /\ runs' = runs /\ todo' = todo
      /\ Flows' = Flows /\ InGroup(group)' = InGroup(group)
      /\ cancel = TRUE => cancel' = TRUE
      /\ \A id \in Ids : sig[id] # "none" => sig'[id] # "none"
  <2>1. \A id \in Ids : sig[id] # "none" => sig'[id] # "none"
    <3>1. desk[u].outcome # "none" /\ sig \in [Ids -> Outcomes \cup {"none"}]
      BY DEF TypeOK, Outcomes
    <3> QED BY <3>1 DEF DeskStep, SignalTask, UpdateTask, DeskDies, ReadTask
  <2>2. cancel = TRUE => cancel' = TRUE
    BY DEF DeskStep, SignalTask, UpdateTask, DeskDies, ReadTask
  <2> QED
    BY <2>1, <2>2 DEF DeskStep, SignalTask, UpdateTask, DeskDies, ReadTask, Flows, InGroup
<1>2. \A id \in Ids : row'[id] = row[id] \/ row'[id].status \notin Open
  BY DeskCloses
<1>3. \A t \in Tasks : Top(t, mine) \in Ids
  BY TypeIsTable, IdType, CatalogAssumption
<1>4. \A t \in Tasks : OwnStatus(t)' = OwnStatus(t) \/ OwnStatus(t)' \notin Open
  BY <1>1, <1>2, <1>3 DEF OwnStatus
<1>5. NothingHasBegun'
  <2>1. \A id \in Ids : row[id].status # "in_progress" => row'[id].status # "in_progress"
    BY <1>2 DEF Open
  <2> QED BY <1>1, <2>1 DEF OrderInv, NothingHasBegun
<1>6. LaterWaits' /\ EarlierIsClosed'
  BY <1>1, <1>4, ClosingKeepsOrder DEF Closes, OrderInv
<1>7. UnmanagedIsClosed'
  BY <1>1, <1>4, CatalogAssumption DEF OrderInv, UnmanagedIsClosed
<1>8. EndedIsClosed'
  BY <1>1, <1>4 DEF OrderInv, EndedIsClosed, Flows, InGroup
<1>9. OpenIsAwaited'
  <2>1. ASSUME NEW t \in InGroup(group) \cap Needs, OwnStatus(t)' \in Open
        PROVE  OwnStatus(t) \in Open /\ Top(t, mine)' = Top(t, mine) /\ Top(t, mine) \in Ids
    BY <1>1, <1>3, <1>4, <2>1 DEF InGroup, Top
  <2> QED BY <1>1, <2>1 DEF OrderInv, OpenIsAwaited
<1> QED BY <1>5, <1>6, <1>7, <1>8, <1>9 DEF OrderInv

LEMMA OrderStep ==
  ASSUME TypeOK, OrderInv, [Next]_vars
  PROVE  OrderInv'
<1>1. CASE WorkflowStep \/ CreateIsCut
  BY <1>1, OpeningOrder, RunOrder, GroupOrder, AnswerOrder DEF WorkflowStep
<1>2. ASSUME NEW t \in Tasks, ExecuteIsCut(t) PROVE OrderInv'
  BY <1>2, RunOrder
<1>3. ASSUME NEW u \in Users, DeskStep(u) \/ DeskDies(u) \/ \E id \in Ids : ReadTask(u, id)
      PROVE  OrderInv'
  BY <1>3, DeskOrder
<1>4. CASE UNCHANGED vars
  BY <1>4 DEF vars, OrderInv, NothingHasBegun, LaterWaits, EarlierIsClosed, UnmanagedIsClosed,
              EndedIsClosed, OpenIsAwaited, OwnStatus, Flows, InGroup
<1> QED BY <1>1, <1>2, <1>3, <1>4 DEF Next

\* The groups of tasks are worked on one after the other, for every service
\* item and whatever is answered twice, late, or by a handler that dies.
THEOREM GroupsAreOrdered == Spec => []OrderIsKept
<1>1. TypeOK /\ OrderInv /\ [Next]_vars => OrderInv'
  BY OrderStep
<1>2. TypeOK /\ OrderInv => OrderIsKept
  <2> SUFFICES ASSUME TypeOK, OrderInv, NEW t \in Tasks, NEW u \in Tasks,
                      Order[t] < Order[u], OwnStatus(u) = "in_progress"
               PROVE  OwnStatus(t) \notin Open
    BY DEF OrderIsKept, OwnStatus
  <2>1. group \in Int /\ Order[t] \in Int /\ Order[u] \in Int
    BY CatalogAssumption DEF TypeOK
  <2>2. Order[u] <= group
    BY <2>1 DEF OrderInv, LaterWaits
  <2> QED BY <2>1, <2>2 DEF OrderInv, EarlierIsClosed
<1> QED BY <1>1, <1>2, OrderInit, CatalogTypeCorrect, PTL DEF Spec

-----------------------------------------------------------------------------
(***************************************************************************)
(* The approvals.                                                          *)
(***************************************************************************)

Passed(t) == decisions[Top(t, mine)] \cap {"approved", "skipped"} # {}

\* Signals are on record, and approvals are answered like approvals.
SignalsAreDecisions ==
  /\ \A id \in Ids : sig[id] # "none" => sig[id] \in decisions[id]
  /\ \A t \in Approvals, c \in Copies : sig[Top(t, c)] \in {"none", "approved", "rejected"}
  /\ \A u \in Users : desk[u].pc # "idle" => desk[u].outcome \in Answers(desk[u].id)
  /\ \A u \in Users : desk[u].pc = "update" => sig[desk[u].id] # "none"

NothingIsAnswered ==
  pc = "create" => /\ \A u \in Users : desk[u].pc = "idle"
                   /\ \A id \in Ids : sig[id] = "none"

\* An approval is closed by an answer, or it is skipped.
ClosedIsAnswered ==
  pc # "create" => \A t \in Approvals :
    OwnStatus(t) \notin Open =>
      sig[Top(t, mine)] # "none" \/ "skipped" \in decisions[Top(t, mine)]

UnmanagedIsPassed ==
  pc # "create" => \A t \in Unmanaged : "skipped" \in decisions[Top(t, mine)]

EarlierIsPassed ==
  \A t \in Approvals :
    Order[t] < group \/ pc = "fulfill" \/ request = "fulfilled" => Passed(t)

ProcessedIsPassed ==
  pc = "process" => \A t \in Approvals \cap InGroup(group) : Top(t, mine) \in todo \/ Passed(t)

FulfilledIsDone == request = "fulfilled" => pc = "done"

ApprovalInv ==
  /\ SignalsAreDecisions /\ NothingIsAnswered /\ ClosedIsAnswered /\ UnmanagedIsPassed
  /\ EarlierIsPassed /\ ProcessedIsPassed /\ FulfilledIsDone

LEMMA ApprovalInit == Init => ApprovalInv
<1> SUFFICES ASSUME Init PROVE ApprovalInv
  OBVIOUS
<1>1. \A t \in Tasks, c \in Copies : Top(t, c) \in Ids
  BY IdType, CatalogAssumption
<1>2. SignalsAreDecisions
  BY <1>1 DEF Init, SignalsAreDecisions, Approvals, Idle
<1>3. EarlierIsPassed
  BY CatalogAssumption DEF Init, EarlierIsPassed, Approvals
<1> QED
  BY <1>2, <1>3 DEF Init, ApprovalInv, NothingIsAnswered, ClosedIsAnswered,
                    UnmanagedIsPassed, ProcessedIsPassed, FulfilledIsDone, Idle

\* A row that was skipped is on record as skipped.
LEMMA SkippingIsRecorded ==
  ASSUME TypeOK, NEW ids, SkipRows(ids)
  PROVE  /\ \A id \in Ids : decisions[id] \subseteq decisions'[id]
         /\ \A id \in Ids : row'[id] = row[id] \/ "skipped" \in decisions'[id]
<1>1. row \in Table /\ decisions \in [Ids -> SUBSET Outcomes]
  BY TypeIsTable
<1> QED BY <1>1 DEF SkipRows, Table

\* Most steps of the workflow leave the approvals to others: what they close,
\* they close with an answer or as skipped.
LEMMA QuietApproval ==
  ASSUME TypeOK, ApprovalInv,
         group' = group, mine' = mine, sig' = sig, desk' = desk,
         pc \notin {"create", "done"}, pc' \notin {"create", "process", "fulfill"},
         request' = "fulfilled" => request = "fulfilled",
         \A id \in Ids : decisions[id] \subseteq decisions'[id],
         \A t \in Approvals :
           \/ OwnStatus(t)' = OwnStatus(t)
           \/ OwnStatus(t) \notin Open
           \/ sig[Top(t, mine)] # "none"
           \/ "skipped" \in decisions'[Top(t, mine)]
           \/ OwnStatus(t)' \in Open
  PROVE  ApprovalInv'
<1>1. \A t \in Tasks, c \in Copies : Top(t, c) \in Ids
  BY IdType, CatalogAssumption
<1>2. /\ mine \in Copies /\ Approvals \subseteq Tasks /\ Unmanaged \subseteq Tasks
      /\ Approvals' = Approvals /\ \A t \in Tasks : Top(t, mine)' = Top(t, mine)
  BY CatalogAssumption, TypeIsTable DEF Approvals, Top
<1>3. SignalsAreDecisions'
  BY <1>2 DEF ApprovalInv, SignalsAreDecisions, Answers, KindOf, Top
<1>4. ClosedIsAnswered'
  BY <1>1, <1>2 DEF ApprovalInv, ClosedIsAnswered
<1>5. UnmanagedIsPassed'
  BY <1>1, <1>2 DEF ApprovalInv, UnmanagedIsPassed
<1>6. EarlierIsPassed'
  BY <1>1, <1>2 DEF ApprovalInv, EarlierIsPassed, FulfilledIsDone, Passed
<1>7. NothingIsAnswered' /\ FulfilledIsDone' /\ ProcessedIsPassed'
  BY DEF ApprovalInv, NothingIsAnswered, FulfilledIsDone, ProcessedIsPassed
<1> QED BY <1>3, <1>4, <1>5, <1>6, <1>7 DEF ApprovalInv

\* createRequestTasks: the rows are new, and the skipped approvals on record.
LEMMA CreationApproval ==
  ASSUME TypeOK, OrderInv, ApprovalInv, CreateTasks \/ CreateIsCut
  PROVE  ApprovalInv'
<1> USE CatalogAssumption
<1>1. /\ mine \in Copies /\ row \in Table /\ decisions \in [Ids -> SUBSET Outcomes]
      /\ \A t \in Tasks : Order[t] \in Nat \ {0}
  BY TypeIsTable
<1>2. \A t \in Tasks, c \in Copies : Top(t, c) \in Ids /\ Top(t, c).task = t
  BY IdType DEF Top
<1>3. /\ pc = "create" /\ pc' \in {"create", "open"} /\ group = 1 /\ group' = 1
      /\ sig' = sig /\ desk' = desk /\ request' = request
      /\ pc' = "open" => CreateTasks
  BY DEF CreateTasks, CreateIsCut, OrderInv, NothingHasBegun
<1>4. PICK inserted : InsertTasks(inserted) /\ (CreateTasks => inserted = Tasks)
  BY DEF CreateTasks, CreateIsCut
<1>5. SignalsAreDecisions' /\ NothingIsAnswered' /\ ProcessedIsPassed'
  BY <1>3 DEF ApprovalInv, SignalsAreDecisions, NothingIsAnswered, ProcessedIsPassed, Approvals,
              Top
<1>6. EarlierIsPassed' /\ FulfilledIsDone'
  BY <1>1, <1>3 DEF ApprovalInv, EarlierIsPassed, FulfilledIsDone, Approvals
<1>7. ASSUME CreateTasks, NEW t \in Tasks
      PROVE  /\ Top(t, mine)' = Top(t, mine)
             /\ t \in Unmanaged => "skipped" \in decisions'[Top(t, mine)]
             /\ t \notin Unmanaged => OwnStatus(t)' = "pending"
  <2>1. mine' = mine /\ Top(t, mine) \in {Top(u, mine) : u \in inserted}
    BY <1>4, <1>7 DEF CreateTasks
  <2> QED BY <1>1, <1>2, <1>4, <2>1 DEF InsertTasks, OwnStatus, Top
<1>8. UnmanagedIsPassed' /\ ClosedIsAnswered'
  BY <1>3, <1>7 DEF UnmanagedIsPassed, ClosedIsAnswered, Approvals, Open
<1> QED BY <1>5, <1>6, <1>8 DEF ApprovalInv

\* The steps of the workflow that decide nothing.
LEMMA WorkingApproval ==
  ASSUME TypeOK, ApprovalInv,
         \/ OpenRequest \/ ActivateGroup \/ AnnounceGroup
         \/ EndRuns \/ Fetch \/ CancelTask \/ SkipRemaining
         \/ \E t \in Tasks : RunStep(t) \/ ExecuteIsCut(t)
  PROVE  ApprovalInv'
<1> USE CatalogAssumption
<1>1. /\ row \in Table /\ mine \in Copies /\ sig \in [Ids -> Outcomes \cup {"none"}]
      /\ Approvals \subseteq Tasks
      /\ \A t \in Tasks : Top(t, mine) \in Ids /\ Top(t, mine).gate = 0 /\ Top(t, mine).task = t
  BY TypeIsTable, IdType DEF Approvals, Top
<1>2. CASE OpenRequest \/ AnnounceGroup \/ Fetch
  BY <1>2, QuietApproval DEF OpenRequest, AnnounceGroup, Fetch, StatusFor, OwnStatus
<1>3. CASE ActivateGroup
  <2>1. \A t \in Tasks : OwnStatus(t)' = OwnStatus(t) \/ OwnStatus(t)' \in Open
    BY <1>1, <1>3 DEF ActivateGroup, OwnStatus, Table, TableRow, Open
  <2> QED BY <1>1, <1>3, <2>1, QuietApproval DEF ActivateGroup
<1>4. CASE EndRuns
  <2>1. /\ \A id \in Ids : decisions[id] \subseteq decisions'[id]
        /\ \A id \in Ids : row'[id] = row[id] \/ "skipped" \in decisions'[id]
    BY <1>4, SkippingIsRecorded DEF EndRuns, SkipBranch
  <2>2. mine' = mine
    BY <1>4 DEF EndRuns
  <2> QED BY <1>1, <1>4, <2>1, <2>2, QuietApproval DEF EndRuns, OwnStatus
<1>5. CASE SkipRemaining
  <2>1. /\ \A id \in Ids : decisions[id] \subseteq decisions'[id]
        /\ \A id \in Ids : row'[id] = row[id] \/ "skipped" \in decisions'[id]
    BY <1>5, SkippingIsRecorded DEF SkipRemaining
  <2>2. mine' = mine
    BY <1>5 DEF SkipRemaining
  <2> QED BY <1>1, <1>5, <2>1, <2>2, QuietApproval DEF SkipRemaining, OwnStatus
<1>6. CASE CancelTask
  <2>1. \A id \in Ids : row'[id] = row[id] \/ sig[id] # "none"
    BY <1>1, <1>6 DEF CancelTask, SetRow, Table
  <2> QED BY <1>1, <1>6, <2>1, QuietApproval DEF CancelTask, OwnStatus
<1>7. ASSUME NEW t \in Tasks, RunStep(t) \/ ExecuteIsCut(t) PROVE ApprovalInv'
  <2>1. /\ pc = "run" /\ pc' \in {"run", "failed"} /\ t \in Flows /\ Kind[t] = "flow"
        /\ group' = group /\ mine' = mine /\ sig' = sig /\ desk' = desk
        /\ decisions' = decisions /\ (request' = "fulfilled" => request = "fulfilled")
    BY <1>7 DEF RunStep, Execute, Suspend, Answer, Resume, RunCancelled, ExecuteIsCut, Running,
                Flows
  <2>2. ASSUME NEW u \in Approvals PROVE OwnStatus(u)' = OwnStatus(u)
    <3>1. u \in Tasks /\ u # t /\ Top(u, mine) \in Ids /\ Top(u, mine).task = u
      BY <1>1, <2>1, <2>2 DEF Approvals
    <3>2. Top(u, mine) # Top(t, mine) /\ Top(u, mine) # ChildOf(t)
      BY <3>1 DEF Top, ChildOf, Child
    <3>3. CASE Execute(t)
      <4>1. PICK a \in Attempts(t) : row' = a.rows
        BY <3>3 DEF Execute
      <4> QED BY <2>1, <3>1, <4>1, AttemptCloses DEF OwnStatus
    <3>4. CASE ExecuteIsCut(t)
      <4>1. PICK a \in Attempts(t) :
              \/ row' = a.rows
              \/ row' = [a.rows EXCEPT ![Top(t, mine)] = row[Top(t, mine)]]
        BY <3>4 DEF ExecuteIsCut
      <4>2. row'[Top(u, mine)] = a.rows[Top(u, mine)]
        <5>1. a.rows \in Table
          BY AttemptType
        <5> QED BY <3>1, <3>2, <4>1, <5>1 DEF Table
      <4>3. a.rows[Top(u, mine)] = row[Top(u, mine)]
        BY <3>1, AttemptCloses
      <4> QED BY <2>1, <4>2, <4>3 DEF OwnStatus
    <3>5. CASE Answer(t)
      <4>1. PICK status : SetRow(ChildOf(t), status)
        BY <3>5 DEF Answer
      <4> QED BY <1>1, <2>1, <3>1, <3>2, <4>1 DEF SetRow, OwnStatus, Table
    <3>6. CASE Suspend(t) \/ Resume(t) \/ RunCancelled(t)
      BY <2>1, <3>6 DEF Suspend, Resume, RunCancelled, OwnStatus
    <3> QED BY <1>7, <3>3, <3>4, <3>5, <3>6 DEF RunStep
  <2> QED BY <2>1, <2>2, QuietApproval
<1> QED BY <1>2, <1>3, <1>4, <1>5, <1>6, <1>7

\* From the last answer of a group to the next group or the end.
LEMMA DecidingApproval ==
  ASSUME TypeOK, OrderInv, ApprovalInv,
         EndWait \/ EndGroup \/ CloseRequest \/ \E id \in Ids : Process(id)
  PROVE  ApprovalInv'
<1> USE CatalogAssumption
<1>1. /\ row \in Table /\ mine \in Copies /\ sig \in [Ids -> Outcomes \cup {"none"}]
      /\ Approvals \subseteq Tasks /\ Unmanaged \subseteq Approvals
      /\ group \in 1..LastOrder /\ \A t \in Tasks : Order[t] \in 1..LastOrder
      /\ \A t \in Tasks, c \in Copies : Top(t, c) \in Ids
  BY TypeIsTable, IdType DEF Approvals
<1>2. /\ mine' = mine /\ sig' = sig /\ desk' = desk /\ decisions' = decisions /\ pc # "create"
      /\ pc' # "create" /\ Approvals' = Approvals
      /\ \A t \in Tasks : Top(t, mine)' = Top(t, mine) /\ Passed(t)' = Passed(t)
  BY DEF EndWait, EndGroup, CloseRequest, Process, Approvals, Top, Passed
<1>3. SignalsAreDecisions' /\ NothingIsAnswered' /\ UnmanagedIsPassed'
  BY <1>1, <1>2 DEF ApprovalInv, SignalsAreDecisions, NothingIsAnswered, UnmanagedIsPassed,
                    Answers, KindOf, Top
<1>4. CASE EndWait
  <2>1. /\ row' = row /\ group' = group /\ request' = request
        /\ pc = "wait" /\ pc' \in {"cancel", "process"}
        /\ pc' = "process" => todo' = {Top(t, mine) : t \in InGroup(group) \cap Needs}
    BY <1>4 DEF EndWait
  <2>2. ClosedIsAnswered'
    BY <1>1, <1>2, <2>1 DEF ApprovalInv, ClosedIsAnswered, OwnStatus
  <2>3. ASSUME pc' = "process", NEW t \in Approvals \cap InGroup(group)
        PROVE  Top(t, mine) \in todo' \/ Passed(t)
    <3>1. CASE t \in Unmanaged
      BY <1>2, <3>1 DEF ApprovalInv, UnmanagedIsPassed, Passed
    <3>2. CASE t \notin Unmanaged
      <4>1. t \in InGroup(group) \cap Needs
        BY <2>3, <3>2 DEF Needs, Approvals
      <4> QED BY <2>1, <2>3, <4>1
    <3> QED BY <3>1, <3>2
  <2>4. ProcessedIsPassed'
    BY <1>1, <1>2, <2>1, <2>3 DEF ProcessedIsPassed, InGroup
  <2>5. EarlierIsPassed' /\ FulfilledIsDone'
    BY <1>1, <1>2, <2>1 DEF ApprovalInv, EarlierIsPassed, FulfilledIsDone
  <2> QED BY <1>3, <2>2, <2>4, <2>5 DEF ApprovalInv
<1>5. ASSUME NEW id \in Ids, Process(id) PROVE ApprovalInv'
  <2>1. /\ group' = group /\ request' = request /\ pc = "process"
        /\ pc' \in {"process", "reject"} /\ id \in todo /\ todo' = todo \ {id}
        /\ row' = row \/ sig[id] # "none"
        /\ \A i \in Ids : i # id => row'[i] = row[i]
        /\ pc' = "process" => ~(KindOf(id) = "approval" /\ sig[id] = "rejected")
    <3>1. row' = row \/ \E status : SetRow(id, status)
      BY <1>5 DEF Process, ProcessedRow
    <3>2. \A i \in Ids : i # id => row'[i] = row[i]
      BY <1>1, <3>1 DEF SetRow, Table
    <3> QED BY <1>5, <3>2 DEF Process
  <2>2. ClosedIsAnswered'
    BY <1>1, <1>2, <2>1 DEF ApprovalInv, ClosedIsAnswered, OwnStatus
  <2>3. ASSUME pc' = "process", NEW t \in Approvals \cap InGroup(group)
        PROVE  Top(t, mine) \in todo' \/ Passed(t)
    <3>1. CASE Top(t, mine) # id
      BY <2>1, <2>3, <3>1 DEF ApprovalInv, ProcessedIsPassed
    <3>2. CASE Top(t, mine) = id /\ sig[id] = "none"
      <4>1. CASE t \in Unmanaged
        BY <1>2, <4>1 DEF ApprovalInv, UnmanagedIsPassed, Passed
      <4>2. CASE t \notin Unmanaged
        <5>1. t \in InGroup(group) \cap Needs
          BY <2>3, <4>2 DEF Needs, Approvals
        <5>2. OwnStatus(t) \notin Open
          BY <2>1, <3>2, <5>1 DEF OrderInv, OpenIsAwaited
        <5>3. "skipped" \in decisions[Top(t, mine)]
          BY <2>1, <2>3, <3>2, <5>2 DEF ApprovalInv, ClosedIsAnswered
        <5> QED BY <5>3 DEF Passed
      <4> QED BY <4>1, <4>2
    <3>3. CASE Top(t, mine) = id /\ sig[id] # "none"
      <4>1. KindOf(id) = "approval"
        BY <2>3, <3>3 DEF KindOf, Top, Approvals
      <4>2. sig[id] = "approved"
        BY <1>1, <2>1, <2>3, <3>3, <4>1 DEF ApprovalInv, SignalsAreDecisions
      <4>3. "approved" \in decisions[id]
        BY <4>2 DEF ApprovalInv, SignalsAreDecisions
      <4> QED BY <3>3, <4>3 DEF Passed
    <3> QED BY <3>1, <3>2, <3>3
  <2>4. ProcessedIsPassed'
    BY <1>1, <1>2, <2>1, <2>3 DEF ProcessedIsPassed, InGroup
  <2>5. EarlierIsPassed' /\ FulfilledIsDone'
    BY <1>1, <1>2, <2>1 DEF ApprovalInv, EarlierIsPassed, FulfilledIsDone
  <2> QED BY <1>3, <2>2, <2>4, <2>5 DEF ApprovalInv
<1>6. CASE EndGroup
  <2>1. /\ row' = row /\ request' = request /\ pc = "process" /\ todo = {}
        /\ \/ group < LastOrder /\ group' = group + 1 /\ pc' = "activate"
           \/ ~(group < LastOrder) /\ group' = group /\ pc' = "fulfill"
    BY <1>6 DEF EndGroup
  <2>2. ClosedIsAnswered'
    BY <1>1, <1>2, <2>1 DEF ApprovalInv, ClosedIsAnswered, OwnStatus
  <2>3. \A t \in Approvals : Order[t] = group => Passed(t)
    BY <1>1, <2>1 DEF ApprovalInv, ProcessedIsPassed, InGroup
  <2>4. request # "fulfilled"
    BY <2>1 DEF ApprovalInv, FulfilledIsDone
  <2>5. LastOrder \in Nat
    OBVIOUS
  <2>6. \A t \in Approvals :
          Order[t] < group' \/ pc' = "fulfill" => Order[t] < group \/ Order[t] = group
    BY <1>1, <2>1, <2>5
  <2>7. EarlierIsPassed'
    BY <1>1, <1>2, <2>1, <2>3, <2>4, <2>6 DEF ApprovalInv, EarlierIsPassed
  <2> QED BY <1>3, <2>1, <2>2, <2>4, <2>7 DEF ApprovalInv, ProcessedIsPassed, FulfilledIsDone
<1>7. CASE CloseRequest
  <2>1. /\ row' = row /\ group' = group /\ pc' = "done"
        /\ request' = "fulfilled" => pc = "fulfill"
    BY <1>7 DEF CloseRequest
  <2>2. ClosedIsAnswered'
    BY <1>1, <1>2, <2>1 DEF ApprovalInv, ClosedIsAnswered, OwnStatus
  <2>3. EarlierIsPassed'
    BY <1>1, <1>2, <2>1 DEF ApprovalInv, EarlierIsPassed
  <2> QED BY <1>3, <2>1, <2>2, <2>3 DEF ApprovalInv, ProcessedIsPassed, FulfilledIsDone
<1> QED BY <1>4, <1>5, <1>6, <1>7

\* The people: an UPDATE follows a signal, and a signal is on record.
LEMMA DeskApproval ==
  ASSUME TypeOK, OrderInv, ApprovalInv, NEW u \in Users,
         DeskStep(u) \/ DeskDies(u) \/ \E id \in Ids : ReadTask(u, id)
  PROVE  ApprovalInv'
<1> USE CatalogAssumption
<1>1. /\ row \in Table /\ mine \in Copies /\ sig \in [Ids -> Outcomes \cup {"none"}]
      /\ desk \in [Users -> [pc : {"idle", "signal", "update"}, id : Ids, outcome : Outcomes]]
      /\ decisions \in [Ids -> SUBSET Outcomes]
      /\ \A t \in Tasks, c \in Copies : Top(t, c) \in Ids /\ Top(t, c).gate = 0 /\ Top(t, c).task = t
      /\ Approvals \subseteq Tasks /\ Unmanaged \subseteq Tasks
  BY TypeIsTable, IdType DEF Approvals, Top
<1>2. /\ mine' = mine /\ group' = group /\ pc' = pc /\ request' = request /\ todo' = todo
      /\ Approvals' = Approvals /\ \A t \in Tasks : Top(t, mine)' = Top(t, mine)
  BY DEF DeskStep, SignalTask, UpdateTask, DeskDies, ReadTask, Approvals, Top
<1>3. /\ \A id \in Ids : decisions[id] \subseteq decisions'[id]
      /\ \A id \in Ids : sig[id] # "none" => sig'[id] # "none"
      /\ \A id \in Ids : row'[id] = row[id] \/ sig[id] # "none"
      /\ SignalsAreDecisions'
  <2>1. CASE SignalTask(u)
    <3> DEFINE id == desk[u].id
               outcome == desk[u].outcome
    <3>1. id \in Ids /\ outcome \in Outcomes /\ outcome # "none" /\ outcome \in Answers(id)
      BY <1>1, <2>1 DEF SignalTask, Outcomes, ApprovalInv, SignalsAreDecisions
    <3>2. CASE pc \in Closed
      <4>1. /\ desk' = [desk EXCEPT ![u] = Idle] /\ sig' = sig
            /\ decisions' = decisions /\ row' = row
        BY <2>1, <3>2 DEF SignalTask
      <4>2. SignalsAreDecisions'
        BY <1>1, <4>1 DEF ApprovalInv, SignalsAreDecisions, Idle, Answers, KindOf, Approvals, Top
      <4> QED BY <4>1, <4>2
    <3>3. CASE pc \notin Closed
      <4>1. /\ sig' = [sig EXCEPT ![id] = outcome]
            /\ decisions' = [decisions EXCEPT ![id] = @ \cup {outcome}]
            /\ desk' = [desk EXCEPT ![u].pc = "update"] /\ row' = row
        BY <2>1, <3>3 DEF SignalTask
      <4>2. \A i \in Ids : sig'[i] # "none" => sig'[i] \in decisions'[i]
        BY <1>1, <3>1, <4>1 DEF ApprovalInv, SignalsAreDecisions
      <4>3. \A t \in Approvals, c \in Copies : sig'[Top(t, c)] \in {"none", "approved", "rejected"}
        <5>1. ASSUME NEW t \in Approvals, NEW c \in Copies, Top(t, c) = id
              PROVE  outcome \in {"approved", "rejected"}
          BY <1>1, <3>1, <5>1 DEF Answers, KindOf, Approvals
        <5> QED BY <1>1, <3>1, <4>1, <5>1 DEF ApprovalInv, SignalsAreDecisions
      <4>4. \A v \in Users :
              /\ desk'[v].pc # "idle" => desk[v].pc # "idle"
              /\ desk'[v].id = desk[v].id /\ desk'[v].outcome = desk[v].outcome
              /\ desk'[v].pc = "update" => v = u \/ desk[v].pc = "update"
        BY <1>1, <2>1, <4>1 DEF SignalTask
      <4>5. \A v \in Users : desk'[v].pc # "idle" => desk'[v].outcome \in Answers(desk'[v].id)
        BY <4>4 DEF ApprovalInv, SignalsAreDecisions
      <4>6. \A v \in Users : desk'[v].pc = "update" => sig'[desk'[v].id] # "none"
        BY <1>1, <3>1, <4>1, <4>4 DEF ApprovalInv, SignalsAreDecisions
      <4>7. SignalsAreDecisions'
        BY <4>2, <4>3, <4>5, <4>6 DEF SignalsAreDecisions, Approvals, Answers, KindOf, Top
      <4> QED BY <1>1, <3>1, <4>1, <4>7
    <3> QED BY <3>2, <3>3
  <2>2. CASE UpdateTask(u) \/ DeskDies(u)
    <3>1. desk[u].pc = "update" /\ desk' = [desk EXCEPT ![u] = Idle] /\ sig' = sig
          /\ decisions' = decisions
      BY <2>2 DEF UpdateTask, DeskDies
    <3>2. sig[desk[u].id] # "none"
      BY <3>1 DEF ApprovalInv, SignalsAreDecisions
    <3>3. \A id \in Ids : row'[id] = row[id] \/ sig[id] # "none"
      BY <1>1, <2>2, <3>2 DEF UpdateTask, DeskDies, SetRow, Table
    <3>4. SignalsAreDecisions'
      BY <1>1, <3>1 DEF ApprovalInv, SignalsAreDecisions, Idle, Answers, KindOf, Approvals, Top
    <3> QED BY <3>1, <3>3, <3>4
  <2>3. ASSUME NEW id \in Ids, ReadTask(u, id)
        PROVE  /\ sig' = sig /\ decisions' = decisions /\ row' = row /\ SignalsAreDecisions'
    <3>1. PICK outcome \in Answers(id) :
            desk' = [desk EXCEPT ![u] = [pc |-> "signal", id |-> id, outcome |-> outcome]]
      BY <2>3 DEF ReadTask
    <3>2. sig' = sig /\ decisions' = decisions /\ row' = row
      BY <2>3 DEF ReadTask
    <3> QED BY <1>1, <3>1, <3>2 DEF ApprovalInv, SignalsAreDecisions, Answers, KindOf, Approvals,
                                    Top
  <2> QED BY <2>1, <2>2, <2>3 DEF DeskStep
<1>4. NothingIsAnswered'
  <2>1. CASE pc = "create"
    <3>1. desk[u].pc = "idle" /\ \A id \in Ids : row[id].status # "in_progress"
      BY <2>1 DEF OrderInv, NothingHasBegun, ApprovalInv, NothingIsAnswered
    <3> QED BY <3>1 DEF DeskStep, SignalTask, UpdateTask, DeskDies, ReadTask
  <2> QED BY <1>2, <2>1 DEF NothingIsAnswered
<1>5. ClosedIsAnswered' /\ UnmanagedIsPassed'
  BY <1>1, <1>2, <1>3 DEF ApprovalInv, ClosedIsAnswered, UnmanagedIsPassed, OwnStatus
<1>6. \A t \in Approvals : Passed(t) => Passed(t)'
  BY <1>1, <1>2, <1>3 DEF Passed
<1>7. EarlierIsPassed' /\ ProcessedIsPassed' /\ FulfilledIsDone'
  BY <1>1, <1>2, <1>6 DEF ApprovalInv, EarlierIsPassed, ProcessedIsPassed, FulfilledIsDone, InGroup
<1> QED BY <1>3, <1>4, <1>5, <1>7 DEF ApprovalInv

LEMMA ApprovalStep ==
  ASSUME TypeOK, OrderInv, ApprovalInv, [Next]_vars
  PROVE  ApprovalInv'
<1>1. CASE WorkflowStep \/ CreateIsCut
  BY <1>1, CreationApproval, WorkingApproval, DecidingApproval DEF WorkflowStep
<1>2. ASSUME NEW t \in Tasks, ExecuteIsCut(t) PROVE ApprovalInv'
  BY <1>2, WorkingApproval
<1>3. ASSUME NEW u \in Users, DeskStep(u) \/ DeskDies(u) \/ \E id \in Ids : ReadTask(u, id)
      PROVE  ApprovalInv'
  BY <1>3, DeskApproval
<1>4. CASE UNCHANGED vars
  BY <1>4 DEF vars, ApprovalInv, SignalsAreDecisions, NothingIsAnswered, ClosedIsAnswered,
              UnmanagedIsPassed, EarlierIsPassed, ProcessedIsPassed, FulfilledIsDone, Approvals,
              Passed, OwnStatus, InGroup, Answers, KindOf, Top
<1> QED BY <1>1, <1>2, <1>3, <1>4 DEF Next

\* No work begins, and no request is fulfilled, before every earlier approval
\* was given or skipped: whoever answers what at the same time, and whichever
\* attempts are repeated.
THEOREM ApprovalsAreAsked == Spec => []ApprovalsComeFirst
<1>1. TypeOK /\ OrderInv /\ [Next]_vars => OrderInv'
  BY OrderStep
<1>2. TypeOK /\ OrderInv /\ ApprovalInv /\ [Next]_vars => ApprovalInv'
  BY ApprovalStep
<1>3. TypeOK /\ OrderInv /\ ApprovalInv => ApprovalsComeFirst
  <2> SUFFICES ASSUME TypeOK, OrderInv, ApprovalInv, NEW t \in Tasks, Kind[t] = "approval",
                      \/ request = "fulfilled"
                      \/ \E u \in Tasks : Order[u] > Order[t] /\ OwnStatus(u) = "in_progress"
               PROVE  Passed(t)
    BY DEF ApprovalsComeFirst, OwnStatus, Passed
  <2>1. group \in Int /\ \A u \in Tasks : Order[u] \in Int
    BY CatalogAssumption DEF TypeOK
  <2>2. request = "fulfilled" \/ Order[t] < group
    BY <2>1 DEF OrderInv, LaterWaits
  <2> QED BY <2>2 DEF ApprovalInv, EarlierIsPassed, Approvals
<1> QED BY <1>1, <1>2, <1>3, OrderInit, ApprovalInit, CatalogTypeCorrect, PTL DEF Spec

-----------------------------------------------------------------------------
(***************************************************************************)
(* The journey of a request.                                               *)
(***************************************************************************)

\* Where the workflow is tells how the request stands.
Standings ==
  /\ request \in Decided <=> pc = "done"
  /\ request = "submitted" <=> pc \in {"create", "open"}

\* Nobody has an approval of a later group before them.
AskedInTurn ==
  \A u \in Users, t \in Approvals :
    desk[u].pc = "signal" /\ desk[u].id = Top(t, mine) => Order[t] <= group

\* Nothing is said of tasks that are not there yet.
NothingIsDecided ==
  pc = "create" => \A t \in Tasks, c \in Copies : c >= mine => decisions[Top(t, c)] = {}

RejectedHere(t) == Order[t] = group /\ "rejected" \in decisions[Top(t, mine)]

\* The workflow ends as it does for a reason, which stays.
EndsForAReason ==
  /\ pc = "process" => \A id \in todo : \E t \in Tasks : id = Top(t, mine) /\ Order[t] = group
  /\ pc \in {"reject", "rejected"} => group \in Automated \/ \E t \in Approvals : RejectedHere(t)
  /\ pc \in {"cancel", "skip", "cancelled"} => cancel = TRUE
  /\ pc = "fulfill" => group = LastOrder

JourneyInv == Standings /\ AskedInTurn /\ NothingIsDecided /\ EndsForAReason

LEMMA StandingsStep ==
  ASSUME TypeOK, Standings, [Next]_vars
  PROVE  Standings'
<1> USE DEF Standings, Decided
<1>1. CASE CreateTasks \/ CreateIsCut \/ OpenRequest \/ ActivateGroup \/ AnnounceGroup
  BY <1>1 DEF CreateTasks, CreateIsCut, OpenRequest, ActivateGroup, AnnounceGroup, StatusFor
<1>2. ASSUME NEW t \in Tasks, RunStep(t) \/ ExecuteIsCut(t) PROVE Standings'
  BY <1>2 DEF RunStep, Execute, Suspend, Answer, Resume, RunCancelled, ExecuteIsCut, Running
<1>3. CASE EndRuns \/ Fetch \/ EndWait \/ \E id \in Ids : Process(id)
  BY <1>3 DEF EndRuns, Fetch, EndWait, Process
<1>4. CASE EndGroup \/ CancelTask \/ SkipRemaining \/ CloseRequest
  BY <1>4 DEF EndGroup, CancelTask, SkipRemaining, CloseRequest
<1>5. ASSUME NEW u \in Users, DeskStep(u) \/ DeskDies(u) \/ \E id \in Ids : ReadTask(u, id)
      PROVE  Standings'
  BY <1>5 DEF DeskStep, SignalTask, UpdateTask, DeskDies, ReadTask
<1>6. CASE UNCHANGED vars
  BY <1>6 DEF vars
<1> QED BY <1>1, <1>2, <1>3, <1>4, <1>5, <1>6 DEF Next, WorkflowStep

\* A person reads a task that is in progress, which none of a later group is.
LEMMA AskedInTurnStep ==
  ASSUME TypeOK, OrderInv, ApprovalInv, AskedInTurn, [Next]_vars
  PROVE  AskedInTurn'
<1> USE CatalogAssumption
<1>1. /\ group \in 1..LastOrder /\ \A t \in Approvals : t \in Tasks /\ Order[t] \in 1..LastOrder
      /\ desk \in [Users -> [pc : {"idle", "signal", "update"}, id : Ids, outcome : Outcomes]]
  BY TypeIsTable DEF Approvals
<1>2. ASSUME desk' = desk, mine' = mine, group' \in {group, group + 1} PROVE AskedInTurn'
  BY <1>1, <1>2 DEF AskedInTurn, Approvals, Top
<1>3. CASE CreateTasks \/ CreateIsCut
  BY <1>3 DEF CreateTasks, CreateIsCut, ApprovalInv, NothingIsAnswered, AskedInTurn
<1>4. CASE OpenRequest \/ ActivateGroup \/ AnnounceGroup \/ EndRuns \/ Fetch \/ EndWait
  BY <1>2, <1>4 DEF OpenRequest, ActivateGroup, AnnounceGroup, EndRuns, Fetch, EndWait
<1>5. CASE EndGroup \/ CancelTask \/ SkipRemaining \/ CloseRequest \/ \E id \in Ids : Process(id)
  BY <1>2, <1>5 DEF EndGroup, CancelTask, SkipRemaining, CloseRequest, Process
<1>6. ASSUME NEW t \in Tasks, RunStep(t) \/ ExecuteIsCut(t) PROVE AskedInTurn'
  BY <1>2, <1>6 DEF RunStep, Execute, Suspend, Answer, Resume, RunCancelled, ExecuteIsCut
<1>7. ASSUME NEW u \in Users, DeskStep(u) \/ DeskDies(u) PROVE AskedInTurn'
  <2>1. /\ mine' = mine /\ group' = group
        /\ desk' = [desk EXCEPT ![u] = Idle] \/ desk' = [desk EXCEPT ![u].pc = "update"]
    BY <1>7 DEF DeskStep, SignalTask, UpdateTask, DeskDies
  <2>2. \A v \in Users : desk'[v].pc = "signal" => desk'[v] = desk[v]
    BY <1>1, <2>1 DEF Idle
  <2> QED BY <2>1, <2>2 DEF AskedInTurn, Approvals, Top
<1>8. ASSUME NEW u \in Users, NEW id \in Ids, ReadTask(u, id) PROVE AskedInTurn'
  <2>1. /\ mine' = mine /\ group' = group /\ row[id].status = "in_progress"
        /\ desk'[u].id = id /\ \A v \in Users : v # u => desk'[v] = desk[v]
    BY <1>1, <1>8 DEF ReadTask
  <2>2. ASSUME NEW t \in Approvals, id = Top(t, mine) PROVE Order[t] <= group
    <3>1. OwnStatus(t) = "in_progress"
      BY <2>1, <2>2 DEF OwnStatus
    <3> QED BY <1>1, <3>1 DEF OrderInv, LaterWaits
  <2> QED BY <2>1, <2>2 DEF AskedInTurn, Approvals, Top
<1>9. CASE UNCHANGED vars
  BY <1>2, <1>9 DEF vars
<1> QED BY <1>3, <1>4, <1>5, <1>6, <1>7, <1>8, <1>9 DEF Next, WorkflowStep

\* A cut attempt leaves the rows of the copy that is made next alone.
LEMMA NothingIsDecidedStep ==
  ASSUME TypeOK, OrderInv, ApprovalInv, NothingIsDecided, [Next]_vars
  PROVE  NothingIsDecided'
<1> USE CatalogAssumption
<1>1. decisions \in [Ids -> SUBSET Outcomes] /\ mine \in Copies
      /\ \A t \in Tasks, c \in Copies : Top(t, c) \in Ids
  BY TypeIsTable, IdType
<1> SUFFICES ASSUME pc' = "create" PROVE NothingIsDecided'
  BY DEF NothingIsDecided
<1>2. CASE CreateIsCut
  <2>1. PICK inserted \in SUBSET Tasks : InsertTasks(inserted)
    BY <1>2 DEF CreateIsCut
  <2>2. mine = 1 /\ mine' = 2 /\ pc = "create"
    BY <1>2 DEF CreateIsCut
  <2>3. ASSUME NEW t \in Tasks PROVE decisions'[Top(t, 2)] = {}
    <3>1. 2 \in Copies /\ \A u \in inserted : Top(t, 2) # Top(u, mine)
      BY <2>2 DEF Copies, Top
    <3>2. decisions'[Top(t, 2)] = decisions[Top(t, 2)]
      BY <1>1, <2>1, <3>1 DEF InsertTasks
    <3> QED BY <2>2, <3>1, <3>2 DEF NothingIsDecided
  <2> QED BY <2>2, <2>3 DEF NothingIsDecided, Copies
<1>3. CASE WorkflowStep
  BY <1>3 DEF WorkflowStep, CreateTasks, OpenRequest, ActivateGroup, AnnounceGroup, RunStep, Execute,
              Suspend, Answer, Resume, RunCancelled, Running, EndRuns, Fetch, EndWait, Process,
              EndGroup, CancelTask, SkipRemaining, CloseRequest
<1>4. ASSUME NEW t \in Tasks, ExecuteIsCut(t) PROVE FALSE
  BY <1>4 DEF ExecuteIsCut, Running
<1>5. ASSUME NEW u \in Users, DeskStep(u) \/ DeskDies(u) \/ \E id \in Ids : ReadTask(u, id)
      PROVE  FALSE
  <2>1. pc = "create"
    BY <1>5 DEF DeskStep, SignalTask, UpdateTask, DeskDies, ReadTask
  <2>2. desk[u].pc = "idle" /\ \A id \in Ids : row[id].status # "in_progress"
    BY <2>1 DEF OrderInv, NothingHasBegun, ApprovalInv, NothingIsAnswered
  <2> QED BY <1>5, <2>2 DEF DeskStep, SignalTask, UpdateTask, DeskDies, ReadTask
<1>6. CASE UNCHANGED vars
  BY <1>6 DEF vars, NothingIsDecided, Top
<1> QED BY <1>2, <1>3, <1>4, <1>5, <1>6 DEF Next

\* A reason stays: rejections stay on record, and nobody takes a cancellation back.
LEMMA ReasonsStay ==
  ASSUME TypeOK, EndsForAReason,
         group' = group, mine' = mine, cancel \in {cancel', FALSE},
         \A id \in Ids : decisions[id] \subseteq decisions'[id],
         pc' = pc, todo' \subseteq todo
  PROVE  EndsForAReason'
<1>1. \A t \in Tasks : Top(t, mine) \in Ids /\ Top(t, mine)' = Top(t, mine)
  BY CatalogAssumption, TypeIsTable, IdType DEF Top
<1>2. \A t \in Approvals : RejectedHere(t) => RejectedHere(t)'
  BY <1>1 DEF RejectedHere, Approvals
<1> QED BY <1>1, <1>2 DEF EndsForAReason, Automated, Approvals, InGroup

LEMMA EndsForAReasonStep ==
  ASSUME TypeOK, ApprovalInv, EndsForAReason, [Next]_vars
  PROVE  EndsForAReason'
<1> USE CatalogAssumption
<1>1. /\ mine \in Copies /\ group \in 1..LastOrder /\ sig \in [Ids -> Outcomes \cup {"none"}]
      /\ decisions \in [Ids -> SUBSET Outcomes] /\ cancel \in BOOLEAN
      /\ \A t \in Tasks : Top(t, mine) \in Ids /\ Order[t] \in 1..LastOrder
  BY TypeIsTable, IdType
<1>2. ASSUME pc' \in {"create", "open", "activate", "announce", "run", "fetch", "wait", "done",
                      "failed"}
      PROVE  EndsForAReason'
  BY <1>2 DEF EndsForAReason
<1>3. CASE CreateTasks \/ CreateIsCut \/ OpenRequest \/ ActivateGroup \/ AnnounceGroup
           \/ Fetch \/ CloseRequest
  BY <1>2, <1>3 DEF CreateTasks, CreateIsCut, OpenRequest, ActivateGroup, AnnounceGroup, Fetch,
                    CloseRequest
<1>4. ASSUME NEW t \in Tasks, RunStep(t) \/ ExecuteIsCut(t) PROVE EndsForAReason'
  BY <1>2, <1>4 DEF RunStep, Execute, Suspend, Answer, Resume, RunCancelled, ExecuteIsCut, Running
<1>5. CASE EndRuns
  <2>1. CASE pc' = "cancel"
    BY <1>5, <2>1 DEF EndRuns, EndsForAReason
  <2>2. CASE pc' = "reject"
    <3>1. EndedWith("reject") /\ group' = group
      BY <1>5, <2>2 DEF EndRuns
    <3>2. group \in Automated
      BY <1>1, <3>1 DEF EndedWith, Flows, Automated, InGroup
    <3> QED BY <2>2, <3>1, <3>2 DEF EndsForAReason, Automated, InGroup
  <2>3. CASE pc' = "fetch"
    BY <1>2, <2>3
  <2> QED BY <1>5, <2>1, <2>2, <2>3 DEF EndRuns
<1>6. CASE EndWait
  <2>1. CASE pc' = "cancel"
    BY <1>6, <2>1 DEF EndWait, EndsForAReason
  <2>2. CASE pc' = "process"
    <3>1. todo' = {Top(t, mine) : t \in InGroup(group) \cap Needs} /\ mine' = mine /\ group' = group
      BY <1>6, <2>2 DEF EndWait
    <3>2. \A id \in todo' : \E t \in Tasks : id = Top(t, mine) /\ Order[t] = group
      BY <3>1 DEF InGroup
    <3> QED BY <2>2, <3>1, <3>2 DEF EndsForAReason, Top
  <2> QED BY <1>6, <2>1, <2>2 DEF EndWait
<1>7. ASSUME NEW id \in Ids, Process(id) PROVE EndsForAReason'
  <2>1. /\ pc = "process" /\ id \in todo /\ todo' \subseteq todo
        /\ UNCHANGED <<group, mine, cancel, decisions>>
        /\ pc' \in {"process", "reject"}
        /\ pc' = "reject" => KindOf(id) = "approval" /\ sig[id] = "rejected"
    BY <1>7 DEF Process
  <2>2. CASE pc' = "process"
    BY <1>1, <2>1, <2>2, ReasonsStay
  <2>3. CASE pc' = "reject"
    <3>1. PICK t \in Tasks : id = Top(t, mine) /\ Order[t] = group
      BY <2>1 DEF EndsForAReason
    <3>2. t \in Approvals
      BY <2>1, <2>3, <3>1 DEF KindOf, Top, Approvals
    <3>3. "rejected" \in decisions[id]
      BY <2>1, <2>3 DEF ApprovalInv, SignalsAreDecisions
    <3>4. RejectedHere(t)'
      BY <2>1, <3>1, <3>3 DEF RejectedHere, Top
    <3> QED BY <2>3, <3>2, <3>4 DEF EndsForAReason, Approvals
  <2> QED BY <2>1, <2>2, <2>3
<1>8. CASE EndGroup
  BY <1>1, <1>8 DEF EndGroup, EndsForAReason
<1>9. CASE CancelTask
  BY <1>9 DEF CancelTask, EndsForAReason
<1>10. CASE SkipRemaining
  <2>1. \A id \in Ids : decisions[id] \subseteq decisions'[id]
    BY <1>10, SkippingIsRecorded DEF SkipRemaining
  <2>2. CASE pc = "skip"
    BY <1>10, <2>2 DEF SkipRemaining, EndsForAReason
  <2>3. CASE pc = "reject"
    <3>1. pc' = "rejected" /\ group' = group /\ mine' = mine
      BY <1>10, <2>3 DEF SkipRemaining
    <3>2. \A t \in Approvals : RejectedHere(t) => RejectedHere(t)'
      BY <1>1, <2>1, <3>1 DEF RejectedHere, Approvals, Top
    <3> QED BY <2>3, <3>1, <3>2 DEF EndsForAReason, Automated, Approvals, InGroup
  <2> QED BY <1>10, <2>2, <2>3 DEF SkipRemaining
<1>11. ASSUME NEW u \in Users, DeskStep(u) \/ DeskDies(u) \/ \E id \in Ids : ReadTask(u, id)
       PROVE  EndsForAReason'
  <2>1. /\ UNCHANGED <<group, mine, pc, todo>> /\ cancel \in {cancel', FALSE}
        /\ \A id \in Ids : decisions[id] \subseteq decisions'[id]
    <3>1. CASE SignalTask(u)
      <4>1. CASE pc \in Closed
        BY <1>1, <3>1, <4>1 DEF SignalTask
      <4>2. CASE pc \notin Closed
        <5>1. /\ UNCHANGED <<group, mine, pc, todo>>
              /\ cancel' = (cancel \/ desk[u].outcome = "cancelled")
              /\ decisions' = [decisions EXCEPT ![desk[u].id] = @ \cup {desk[u].outcome}]
          BY <3>1, <4>2 DEF SignalTask
        <5>2. \A id \in Ids : decisions[id] \subseteq decisions'[id]
          BY <1>1, <5>1
        <5>3. cancel \in {cancel', FALSE}
          BY <1>1, <5>1
        <5> QED BY <5>1, <5>2, <5>3
      <4> QED BY <4>1, <4>2
    <3>2. CASE UpdateTask(u) \/ DeskDies(u) \/ \E id \in Ids : ReadTask(u, id)
      BY <1>1, <3>2 DEF UpdateTask, DeskDies, ReadTask
    <3> QED BY <1>11, <3>1, <3>2 DEF DeskStep
  <2> QED BY <2>1, ReasonsStay
<1>12. CASE UNCHANGED vars
  BY <1>1, <1>12, ReasonsStay DEF vars
<1> QED BY <1>3, <1>4, <1>5, <1>6, <1>7, <1>8, <1>9, <1>10, <1>11, <1>12 DEF Next, WorkflowStep

\* How the request stands for those who wait for it.
LEMMA StandingIs ==
  ASSUME TypeOK, Standings
  PROVE  /\ pc \in {"create", "open"} => Standing = "submitted"
         /\ pc \notin {"create", "open", "done"} => Standing = "open"
         /\ pc = "done" => Standing = request
BY DEF TypeOK, Standings, Standing, RequestStatus, Decided

LEMMA StandingBecomes ==
  ASSUME TypeOK', Standings'
  PROVE  /\ pc' \in {"create", "open"} => Standing' = "submitted"
         /\ pc' \notin {"create", "open", "done"} => Standing' = "open"
         /\ pc' = "done" => Standing' = request'
BY DEF TypeOK, Standings, Standing, RequestStatus, Decided

\* What people may say, and when.
LEMMA Responding ==
  ASSUME TypeOK, Standings, TypeOK', Standings', pc # "done",
         pc \in {"create", "open"} <=> pc' \in {"create", "open"}, pc' # "done",
         group' = group, mine' = mine, cancel' \in {cancel, TRUE},
         \A t \in Approvals :
           /\ decisions[Top(t, mine)] \subseteq decisions'[Top(t, mine)]
           /\ decisions'[Top(t, mine)] \subseteq
                decisions[Top(t, mine)] \cup {"approved", "rejected", "skipped"}
           /\ Order[t] > group =>
                decisions'[Top(t, mine)] \subseteq decisions[Top(t, mine)] \cup {"skipped"}
  PROVE  Journey!Respond
<1>1. Standing' = Standing /\ Standing \notin Journey!Decided
  BY StandingIs, StandingBecomes DEF Journey!Decided
<1> DEFINE given == [t \in Approvals |-> decisions'[Top(t, mine)] \ decisions[Top(t, mine)]]
<1>2. given \in [Approvals -> SUBSET {"approved", "rejected", "skipped"}]
  OBVIOUS
<1>3. \A t \in Approvals : Order[t] > group => given[t] \subseteq {"skipped"}
  OBVIOUS
<1>4. [t \in Approvals |-> decisions[Top(t, mine)]]' =
        [t \in Approvals |-> [i \in Approvals |-> decisions[Top(i, mine)]][t] \cup given[t]]
  BY DEF Approvals, Top
<1> QED BY <1>1, <1>2, <1>3, <1>4 DEF Journey!Respond

JourneyVars == <<Standing, group, [t \in Approvals |-> decisions[Top(t, mine)]], cancel>>

\* Steps that the requester does not see.
LEMMA Unseen ==
  ASSUME TypeOK, Standings, TypeOK', Standings', pc # "done", pc' # "done",
         pc \in {"create", "open"} <=> pc' \in {"create", "open"},
         UNCHANGED <<group, mine, cancel, decisions>>
  PROVE  UNCHANGED JourneyVars
<1>1. Standing' = Standing
  BY StandingIs, StandingBecomes
<1>2. [t \in Approvals |-> decisions[Top(t, mine)]]' = [t \in Approvals |-> decisions[Top(t, mine)]]
  BY DEF Approvals, Top
<1> QED BY <1>1, <1>2 DEF JourneyVars

\* The tasks are created, perhaps twice, and the approvals nobody can give skipped.
LEMMA CreationJourney ==
  ASSUME TypeOK, OrderInv, JourneyInv, TypeOK', Standings', CreateTasks \/ CreateIsCut
  PROVE  Journey!Next \/ UNCHANGED JourneyVars
<1> USE CatalogAssumption
<1>1. decisions \in [Ids -> SUBSET Outcomes] /\ mine \in Copies /\ Standings /\ NothingIsDecided
      /\ \A t \in Tasks, c \in Copies : Top(t, c) \in Ids
  BY TypeIsTable, IdType DEF JourneyInv
<1>2. pc = "create" /\ group' = group /\ cancel' = cancel
  BY DEF CreateTasks, CreateIsCut
<1>3. CASE CreateTasks
  <2>1. PICK inserted : InsertTasks(inserted)
    BY <1>3 DEF CreateTasks
  <2>2. pc' = "open" /\ mine' = mine
    BY <1>3 DEF CreateTasks
  <2>3. ASSUME NEW t \in Approvals
        PROVE  /\ decisions[Top(t, mine)] \subseteq decisions'[Top(t, mine)]
               /\ decisions'[Top(t, mine)] \subseteq decisions[Top(t, mine)] \cup {"skipped"}
    <3>1. t \in Tasks
      BY DEF Approvals
    <3>2. decisions[Top(t, mine)] = {}
      BY <1>1, <1>2, <3>1 DEF NothingIsDecided, Copies
    <3>3. decisions'[Top(t, mine)] \in {{"skipped"}, decisions[Top(t, mine)]}
      BY <1>1, <2>1, <3>1 DEF InsertTasks
    <3> QED BY <3>2, <3>3
  <2>4. Journey!Respond
    BY <1>1, <1>2, <2>2, <2>3, Responding
  <2> QED BY <2>4 DEF Journey!Next
<1>4. CASE CreateIsCut
  <2>1. PICK inserted \in SUBSET Tasks : InsertTasks(inserted)
    BY <1>4 DEF CreateIsCut
  <2>2. pc' = "create" /\ mine = 1 /\ mine' = 2
    BY <1>4 DEF CreateIsCut
  <2>3. ASSUME NEW t \in Approvals
        PROVE  decisions[Top(t, 1)] = {} /\ decisions'[Top(t, 2)] = {}
    <3>1. t \in Tasks /\ 1 \in Copies /\ 2 \in Copies
      BY DEF Approvals, Copies
    <3>2. decisions[Top(t, 1)] = {} /\ decisions[Top(t, 2)] = {}
      BY <1>1, <1>2, <2>2, <3>1 DEF NothingIsDecided
    <3>3. \A u \in inserted : Top(t, 2) # Top(u, mine)
      BY <2>2 DEF Top
    <3>4. decisions'[Top(t, 2)] = decisions[Top(t, 2)]
      BY <1>1, <2>1, <3>1, <3>3 DEF InsertTasks
    <3> QED BY <3>2, <3>4
  <2>4. [t \in Approvals |-> decisions[Top(t, mine)]]' = [t \in Approvals |-> decisions[Top(t, mine)]]
    BY <2>2, <2>3 DEF Approvals, Top
  <2>5. Standing' = Standing
    BY <1>1, <1>2, <2>2, StandingIs, StandingBecomes
  <2> QED BY <1>2, <2>4, <2>5 DEF JourneyVars
<1> QED BY <1>3, <1>4

\* Skipping the rows that are still open is a response to each of them.
LEMMA SkippingJourney ==
  ASSUME TypeOK, Standings, TypeOK', Standings', pc # "done", pc' # "done",
         pc \notin {"create", "open"}, pc' \notin {"create", "open"},
         UNCHANGED <<group, mine, cancel>>, NEW ids, SkipRows(ids)
  PROVE  Journey!Next
<1>1. decisions \in [Ids -> SUBSET Outcomes] /\ \A t \in Approvals : Top(t, mine) \in Ids
  BY TypeIsTable, IdType, CatalogAssumption DEF Approvals
<1>2. \A t \in Approvals :
        /\ decisions[Top(t, mine)] \subseteq decisions'[Top(t, mine)]
        /\ decisions'[Top(t, mine)] \subseteq decisions[Top(t, mine)] \cup {"skipped"}
  BY <1>1 DEF SkipRows
<1>3. Journey!Respond
  BY <1>2, Responding
<1> QED BY <1>3 DEF Journey!Next

\* A signal is somebody's answer, or a cancellation.
LEMMA SignalJourney ==
  ASSUME TypeOK, ApprovalInv, JourneyInv, TypeOK', Standings', NEW u \in Users, SignalTask(u)
  PROVE  Journey!Next \/ UNCHANGED JourneyVars
<1> DEFINE id == desk[u].id
           outcome == desk[u].outcome
<1>1. /\ decisions \in [Ids -> SUBSET Outcomes] /\ id \in Ids /\ cancel \in BOOLEAN
      /\ Standings /\ AskedInTurn /\ pc' = pc /\ UNCHANGED <<group, mine, request>>
      /\ desk[u].pc = "signal" /\ outcome \in Answers(id)
      /\ \A t \in Approvals : Top(t, mine) \in Ids /\ t \in Tasks
      /\ group \in Int /\ \A t \in Approvals : Order[t] \in Int
  BY TypeIsTable, IdType, CatalogAssumption
     DEF JourneyInv, SignalTask, ApprovalInv, SignalsAreDecisions, Approvals
<1>2. CASE pc \in Closed
  <2>1. UNCHANGED <<cancel, decisions>>
    BY <1>2 DEF SignalTask
  <2>2. Standing' = Standing
    BY <1>1 DEF Standing
  <2>3. [t \in Approvals |-> decisions[Top(t, mine)]]' = [t \in Approvals |-> decisions[Top(t, mine)]]
    BY <1>1, <2>1 DEF Approvals, Top
  <2> QED BY <1>1, <2>1, <2>2, <2>3 DEF JourneyVars
<1>3. CASE pc \notin Closed
  <2>1. /\ decisions' = [decisions EXCEPT ![id] = @ \cup {outcome}]
        /\ cancel' = (cancel \/ outcome = "cancelled") /\ pc # "done"
    BY <1>3 DEF SignalTask, Closed
  <2>2. ASSUME NEW t \in Approvals
        PROVE  /\ decisions[Top(t, mine)] \subseteq decisions'[Top(t, mine)]
               /\ decisions'[Top(t, mine)] \subseteq
                    decisions[Top(t, mine)] \cup {"approved", "rejected", "skipped"}
               /\ Order[t] > group =>
                    decisions'[Top(t, mine)] \subseteq decisions[Top(t, mine)] \cup {"skipped"}
    <3>1. CASE Top(t, mine) = id
      <4>1. outcome \in {"approved", "rejected"}
        BY <1>1, <3>1 DEF Answers, KindOf, Top, Approvals
      <4>2. ~(Order[t] > group)
        BY <1>1, <3>1 DEF AskedInTurn
      <4> QED BY <1>1, <2>1, <3>1, <4>1, <4>2
    <3>2. CASE Top(t, mine) # id
      BY <1>1, <2>1, <3>2
    <3> QED BY <3>1, <3>2
  <2>3. cancel' \in {cancel, TRUE}
    BY <1>1, <2>1
  <2> HIDE DEF id, outcome
  <2>4. Journey!Respond
    BY <1>1, <2>1, <2>2, <2>3, Responding
  <2> QED BY <2>4 DEF Journey!Next
<1> QED BY <1>2, <1>3

\* The end of a group, and of the request.
LEMMA EndingJourney ==
  ASSUME TypeOK, ApprovalInv, JourneyInv, TypeOK', Standings', EndGroup \/ CloseRequest
  PROVE  Journey!Next \/ UNCHANGED JourneyVars
<1> DEFINE answers == [t \in Approvals |-> decisions[Top(t, mine)]]
<1>1. /\ Standings /\ EndsForAReason /\ UNCHANGED <<mine, cancel, decisions>> /\ Standing = "open"
  <2>1. Standings /\ EndsForAReason /\ UNCHANGED <<mine, cancel, decisions>>
        /\ pc \notin {"create", "open", "done"}
    BY DEF JourneyInv, EndGroup, CloseRequest
  <2> QED BY <2>1, StandingIs
<1>2. answers' = answers
  BY <1>1 DEF Approvals, Top
<1>3. /\ group \in 1..LastOrder /\ \A t \in Approvals : t \in Tasks /\ Order[t] \in 1..LastOrder
      /\ LastOrder \in Nat
  BY TypeIsTable, CatalogAssumption DEF Approvals
<1>4. ASSUME \A t \in Approvals : Order[t] = group => Passed(t) PROVE Journey!Granted
  BY <1>4 DEF Journey!Granted, Passed
<1>5. CASE EndGroup
  <2>1. /\ pc = "process" /\ todo = {}
        /\ \/ group < LastOrder /\ group' = group + 1 /\ pc' = "activate"
           \/ ~(group < LastOrder) /\ group' = group /\ pc' = "fulfill"
    BY <1>5 DEF EndGroup
  <2>2. Standing' = "open"
    BY <2>1, StandingBecomes
  <2>3. Journey!Granted
    BY <1>3, <1>4, <2>1 DEF ApprovalInv, ProcessedIsPassed, InGroup
  <2>4. CASE group < LastOrder
    <3>1. Journey!Advance
      BY <1>1, <1>2, <2>1, <2>2, <2>3, <2>4 DEF Journey!Advance
    <3> QED BY <3>1 DEF Journey!Next
  <2>5. CASE ~(group < LastOrder)
    BY <1>1, <1>2, <2>1, <2>2, <2>5 DEF JourneyVars
  <2> QED BY <2>4, <2>5
<1>6. CASE CloseRequest
  <2>1. /\ pc \in {"rejected", "cancelled", "fulfill"} /\ pc' = "done" /\ group' = group
        /\ request' = IF pc = "fulfill" THEN "fulfilled" ELSE pc
    BY <1>6 DEF CloseRequest
  <2>2. Standing' = request'
    BY <2>1, StandingBecomes
  <2>3. CASE pc = "fulfill"
    <3>1. Journey!Granted /\ group = LastOrder
      BY <1>1, <1>4, <2>3 DEF ApprovalInv, EarlierIsPassed, EndsForAReason
    <3>2. Journey!Fulfill
      BY <1>1, <1>2, <2>1, <2>2, <2>3, <3>1 DEF Journey!Fulfill, Journey!Decide
    <3> QED BY <3>2 DEF Journey!Next
  <2>4. CASE pc = "rejected"
    <3>1. Journey!Refused
      BY <1>1, <2>4 DEF EndsForAReason, RejectedHere, Journey!Refused
    <3>2. Journey!Reject
      BY <1>1, <1>2, <2>1, <2>2, <2>4, <3>1 DEF Journey!Reject, Journey!Decide
    <3> QED BY <3>2 DEF Journey!Next
  <2>5. CASE pc = "cancelled"
    <3>1. Journey!Cancel
      BY <1>1, <1>2, <2>1, <2>2, <2>5 DEF EndsForAReason, Journey!Cancel, Journey!Decide
    <3> QED BY <3>1 DEF Journey!Next
  <2> QED BY <2>1, <2>3, <2>4, <2>5
<1> QED BY <1>5, <1>6

\* The workflow implements the journey of a request, step by step: its groups are
\* passed one after the other, each once its approvals were given or skipped, nobody
\* is asked for an approval before, and the request is decided once and for a
\* reason, whatever people answer at the same time and whichever attempts repeat.
THEOREM ImplementsJourney == Spec => JourneyIsKept
<1>1. Init => JourneyInv
  <2> SUFFICES ASSUME Init PROVE JourneyInv
    OBVIOUS
  <2>1. \A t \in Tasks, c \in Copies : Top(t, c) \in Ids
    BY IdType, CatalogAssumption
  <2> QED BY <2>1 DEF Init, JourneyInv, Standings, Decided, AskedInTurn, Idle, NothingIsDecided,
                      EndsForAReason
<1>2. TypeOK /\ OrderInv /\ ApprovalInv /\ JourneyInv /\ [Next]_vars => JourneyInv'
  BY StandingsStep, AskedInTurnStep, NothingIsDecidedStep, EndsForAReasonStep DEF JourneyInv
<1>3. Init => Journey!Init
  <2> SUFFICES ASSUME Init PROVE Journey!Init
    OBVIOUS
  <2>1. \A t \in Approvals : Top(t, mine) \in Ids
    BY InitType, TypeIsTable, IdType, CatalogAssumption DEF Approvals
  <2> QED BY <2>1 DEF Init, Journey!Init, Standing
<1>4. ASSUME TypeOK, OrderInv, ApprovalInv, JourneyInv, TypeOK', JourneyInv', [Next]_vars
      PROVE  Journey!Next \/ UNCHANGED JourneyVars
  <2> USE <1>4
  <2>1. Standings /\ Standings'
    BY DEF JourneyInv
  <2>2. CASE OpenRequest
    <3>1. /\ pc = "open" /\ pc' = "activate" /\ UNCHANGED <<group, mine, cancel, decisions>>
      BY <2>2 DEF OpenRequest
    <3>2. Standing = "submitted" /\ Standing' = "open"
      BY <2>1, <3>1, StandingIs, StandingBecomes
    <3>3. [t \in Approvals |-> decisions[Top(t, mine)]]' =
            [t \in Approvals |-> decisions[Top(t, mine)]]
      BY <3>1 DEF Approvals, Top
    <3> QED BY <3>1, <3>2, <3>3 DEF Journey!Next, Journey!Open
  <2>3. CASE ActivateGroup \/ AnnounceGroup \/ Fetch \/ EndWait \/ CancelTask
             \/ \E id \in Ids : Process(id)
    <3>1. /\ pc \notin {"create", "open", "done"} /\ pc' \notin {"create", "open", "done"}
          /\ UNCHANGED <<group, mine, cancel, decisions>>
      BY <2>3 DEF ActivateGroup, AnnounceGroup, Fetch, EndWait, CancelTask, Process
    <3> QED BY <2>1, <3>1, Unseen
  <2>4. ASSUME NEW t \in Tasks, RunStep(t) \/ ExecuteIsCut(t)
        PROVE  UNCHANGED JourneyVars
    <3>1. /\ pc \notin {"create", "open", "done"} /\ pc' \notin {"create", "open", "done"}
          /\ UNCHANGED <<group, mine, cancel, decisions>>
      BY <2>4 DEF RunStep, Execute, Suspend, Answer, Resume, RunCancelled, ExecuteIsCut, Running
    <3> QED BY <2>1, <3>1, Unseen
  <2>5. CASE EndRuns
    <3>1. /\ pc \notin {"create", "open", "done"} /\ pc' \notin {"create", "open", "done"}
          /\ UNCHANGED <<group, mine, cancel>>
          /\ decisions' = decisions \/ \E ids : SkipRows(ids)
      BY <2>5 DEF EndRuns, SkipBranch
    <3> QED BY <2>1, <3>1, Unseen, SkippingJourney
  <2>6. CASE SkipRemaining
    <3>1. /\ pc \notin {"create", "open", "done"} /\ pc' \notin {"create", "open", "done"}
          /\ UNCHANGED <<group, mine, cancel>> /\ SkipRows(Remaining)
      BY <2>6 DEF SkipRemaining
    <3> QED BY <2>1, <3>1, SkippingJourney
  <2>7. ASSUME NEW u \in Users, UpdateTask(u) \/ DeskDies(u) \/ \E id \in Ids : ReadTask(u, id)
        PROVE  UNCHANGED JourneyVars
    <3>1. UNCHANGED <<pc, group, mine, cancel, decisions, request>>
      BY <2>7 DEF UpdateTask, DeskDies, ReadTask
    <3>2. [t \in Approvals |-> decisions[Top(t, mine)]]' =
            [t \in Approvals |-> decisions[Top(t, mine)]]
      BY <3>1 DEF Approvals, Top
    <3> QED BY <3>1, <3>2 DEF JourneyVars, Standing
  <2>8. CASE UNCHANGED vars
    <3>1. [t \in Approvals |-> decisions[Top(t, mine)]]' =
            [t \in Approvals |-> decisions[Top(t, mine)]]
      BY <2>8 DEF vars, Approvals, Top
    <3> QED BY <2>8, <3>1 DEF vars, JourneyVars, Standing
  <2> QED BY <2>1, <2>2, <2>3, <2>4, <2>5, <2>6, <2>7, <2>8, CreationJourney, SignalJourney,
             EndingJourney DEF Next, WorkflowStep, DeskStep
<1>5. TypeOK /\ OrderInv /\ ApprovalInv /\ JourneyInv /\ TypeOK' /\ JourneyInv' /\ [Next]_vars =>
        [Journey!Next]_(Journey!vars)
  BY <1>4 DEF JourneyVars, Journey!vars
<1>6. TypeOK /\ OrderInv /\ [Next]_vars => OrderInv'
  BY OrderStep
<1>7. TypeOK /\ OrderInv /\ ApprovalInv /\ [Next]_vars => ApprovalInv'
  BY ApprovalStep
<1> QED BY <1>1, <1>2, <1>3, <1>5, <1>6, <1>7, OrderInit, ApprovalInit, CatalogTypeCorrect, PTL
        DEF Spec, JourneyIsKept, Journey!Spec
=============================================================================
