----------------------- MODULE WorkflowStartQueue_proofs -----------------------
(***************************************************************************)
(* Proofs about the workflow start queue, for every set of jobs and        *)
(* engines, every batch size and every bound.                              *)
(***************************************************************************)
EXTENDS WorkflowStartQueue, TLAPS

\* The statements on one row keep it a row, whatever the WHERE clauses find.
LEMMA RowType ==
  ASSUME NEW row \in Rows, NEW c \in BOOLEAN
  PROVE  /\ NoRow \in Rows
         /\ InsertedRow \in Rows
         /\ UpsertedRow(row) \in Rows
         /\ ClaimedRow(row) \in Rows
         /\ CompletedRow(row) \in Rows
         /\ FailedRow(row, c) \in Rows
         /\ RecoveredRow(row) \in Rows
         /\ FastForwardedRow(row) \in Rows
         /\ [row EXCEPT !.due = TRUE] \in Rows
         /\ [row EXCEPT !.lock = "stale"] \in Rows
BY DEF Rows, Statuses, Locks, NoRow, InsertedRow, UpsertedRow, ClaimedRow,
       CompletedRow, FailedRow, RecoveredRow, FastForwardedRow

\* No statement creates or removes a row, and only CompletedRow completes one.
LEMMA RowStatus ==
  ASSUME NEW row \in Rows
  PROVE  /\ ClaimedRow(row).status = "processing"
         /\ CompletedRow(row).status = "absent" <=> row.status = "absent"
         /\ RecoveredRow(row).status = "absent" <=> row.status = "absent"
         /\ RecoveredRow(row).status = "completed" <=> row.status = "completed"
         /\ FastForwardedRow(row).status = row.status
BY DEF Rows, Statuses, Locks, ClaimedRow, CompletedRow, RecoveredRow, FastForwardedRow

LEMMA FailedRowStatus ==
  ASSUME NEW row \in Rows, NEW c \in BOOLEAN
  PROVE  /\ FailedRow(row, c).status = "absent" <=> row.status = "absent"
         /\ FailedRow(row, c).status = "completed" <=> row.status = "completed"
BY DEF Rows, Statuses, FailedRow

\* No statement of a dispatcher and no upsert touches a completed row.
LEMMA CompletedRowIsFinal ==
  ASSUME NEW row \in Rows, NEW c \in BOOLEAN, row.status = "completed"
  PROVE  /\ UpsertedRow(row) = row
         /\ CompletedRow(row) = row
         /\ FailedRow(row, c) = row
         /\ RecoveredRow(row) = row
         /\ FastForwardedRow(row) = row
         /\ ~IsDue(row)
BY DEF UpsertedRow, CompletedRow, FailedRow, RecoveredRow, FastForwardedRow, IsDue

-----------------------------------------------------------------------------
(***************************************************************************)
(* Type correctness.                                                       *)
(***************************************************************************)

\* The variables always have the types TypeOK gives them.
THEOREM TypeCorrect == Spec => []TypeOK
<1> USE QueueAssumption
<1>1. Init => TypeOK
  BY RowType DEF Init, TypeOK, PCs, Executions, Rows, Statuses, Locks, NoRow
<1>2. TypeOK /\ [Next]_vars => TypeOK'
  <2> SUFFICES ASSUME TypeOK, [Next]_vars PROVE TypeOK'
    OBVIOUS
  <2> USE DEF TypeOK, PCs, Executions
  <2>1. ASSUME NEW j \in Jobs, Enqueue(j) PROVE TypeOK'
    <3>1. InsertedRow \in Rows /\ UpsertedRow(table[j]) \in Rows
      BY RowType
    <3>2. CASE InsertNotification(j)
      BY <3>1, <3>2 DEF InsertNotification, Request, engineVars, temporalVars, boundVars
    <3>3. CASE InsertEntityJob(j)
      BY <3>1, <3>3 DEF InsertEntityJob, Request, engineVars, temporalVars, boundVars
    <3>4. CASE UpsertEntityJob(j)
      BY <3>1, <3>4 DEF UpsertEntityJob, Request, engineVars, temporalVars, boundVars
    <3> QED BY <2>1, <3>2, <3>3, <3>4 DEF Enqueue
  <2>2. ASSUME NEW j \in Jobs, BecomesDue(j) \/ LockGoesStale(j) PROVE TypeOK'
    <3>1. [table[j] EXCEPT !.due = TRUE] \in Rows /\ [table[j] EXCEPT !.lock = "stale"] \in Rows
      BY RowType
    <3>2. table' \in [Jobs -> Rows]
      BY <2>2, <3>1 DEF BecomesDue, LockGoesStale
    <3> QED BY <2>2, <3>2 DEF BecomesDue, LockGoesStale, engineVars, temporalVars,
                              historyVars, boundVars
  <2>3. ASSUME NEW j \in Jobs, WorkflowCloses(j) PROVE TypeOK'
    BY <2>3 DEF WorkflowCloses, dbVars, engineVars, historyVars, boundVars
  <2>4. ASSUME NEW e \in Engines, DispatcherStep(e) PROVE TypeOK'
    <3>1. CASE RecoverStale(e) \/ FastForward(e)
      <4>1. \A j \in Jobs : RecoveredRow(table[j]) \in Rows /\ FastForwardedRow(table[j]) \in Rows
        BY RowType
      <4> QED BY <3>1, <4>1 DEF RecoverStale, FastForward, Goto, temporalVars,
                                historyVars, boundVars
    <3>2. CASE ClaimDue(e)
      <4>1. \A j \in Jobs : ClaimedRow(table[j]) \in Rows
        BY RowType
      <4>2. PICK S \in SUBSET Jobs : 
              /\ pc' = [pc EXCEPT ![e] = IF S = {} THEN "idle" ELSE "process"]
              /\ batch' = [batch EXCEPT ![e] = S]
              /\ table' = [j \in Jobs |-> IF j \in S THEN ClaimedRow(table[j]) ELSE table[j]]
              /\ UNCHANGED <<createdAt, inserted, cur, conn, temporalVars, historyVars, boundVars>>
        BY <3>2 DEF ClaimDue, Goto, DueJobs
      <4>3. table' \in [Jobs -> Rows]
        BY <4>1, <4>2
      <4>4. pc' \in [Engines -> PCs] /\ batch' \in [Engines -> SUBSET Jobs]
        BY <4>2
      <4>5. UNCHANGED <<createdAt, inserted, cur, conn, temporalVars, historyVars, boundVars>>
        BY <4>2
      <4> QED BY <4>3, <4>4, <4>5 DEF temporalVars, historyVars, boundVars
    <3>3. CASE \E j \in Jobs : TakeJob(e, j)
      BY <3>3 DEF TakeJob, Goto, dbVars, temporalVars, historyVars, boundVars
    <3>4. CASE FinishDrain(e)
      BY <3>4 DEF FinishDrain, Goto, dbVars, temporalVars, historyVars, boundVars
    <3>5. CASE StartSucceeds(e) \/ StartFails(e)
      BY <3>5 DEF StartSucceeds, StartFails, Run, Goto, dbVars, temporalVars,
                  historyVars, boundVars
    <3>6. CASE Complete(e) \/ Fail(e)
      <4>1. \A j \in Jobs : CompletedRow(table[j]) \in Rows /\ FailedRow(table[j], conn[e]) \in Rows
        BY RowType
      <4> QED BY <3>6, <4>1 DEF Complete, Fail, Goto, temporalVars, historyVars, boundVars
    <3> QED BY <2>4, <3>1, <3>2, <3>3, <3>4, <3>5, <3>6 DEF DispatcherStep
  <2>5. ASSUME NEW e \in Engines, 
               ReplyLost(e) \/ CompleteThrows(e) \/ DrainThrows(e) \/ Crash(e) \/ Restart(e)
        PROVE TypeOK'
    <3>1. CASE ReplyLost(e)
      <4>1. faults' \in Nat
        BY <3>1 DEF ReplyLost, Fault
      <4>2. exec' \in [Jobs -> Executions] /\ owed' \in [Jobs -> BOOLEAN]
        BY <3>1 DEF ReplyLost, Run
      <4>3. pc' \in [Engines -> PCs] /\ conn' \in [Engines -> BOOLEAN]
        BY <3>1 DEF ReplyLost, Goto
      <4>4. UNCHANGED <<dbVars, batch, cur, up, requests, outages>>
        BY <3>1 DEF ReplyLost, Fault
      <4> QED BY <4>1, <4>2, <4>3, <4>4 DEF dbVars
    <3>2. CASE CompleteThrows(e)
      <4>1. \A j \in Jobs : CompletedRow(table[j]) \in Rows
        BY RowType
      <4>2. table' \in [Jobs -> Rows]
        BY <3>2, <4>1 DEF CompleteThrows
      <4>3. faults' \in Nat /\ outages' = outages
        BY <3>2 DEF CompleteThrows, Fault
      <4>4. pc' \in [Engines -> PCs] /\ conn' \in [Engines -> BOOLEAN]
        BY <3>2 DEF CompleteThrows, Goto
      <4> QED BY <3>2, <4>2, <4>3, <4>4 DEF CompleteThrows, temporalVars, historyVars
    <3>3. CASE DrainThrows(e) \/ Crash(e)
      BY <3>3 DEF DrainThrows, Crash, Fault, dbVars, temporalVars, historyVars
    <3>4. CASE Restart(e)
      BY <3>4 DEF Restart, Goto, dbVars, temporalVars, historyVars, boundVars
    <3> QED BY <2>5, <3>1, <3>2, <3>3, <3>4
  <2>6. CASE TemporalGoesDown \/ TemporalComesUp
    <3>1. up' \in BOOLEAN
      BY <2>6 DEF TemporalGoesDown, TemporalComesUp
    <3>2. outages' \in Nat
      BY <2>6 DEF TemporalGoesDown, TemporalComesUp, boundVars
    <3>3. UNCHANGED <<dbVars, engineVars, exec, historyVars, faults>>
      BY <2>6 DEF TemporalGoesDown, TemporalComesUp, boundVars
    <3> QED BY <3>1, <3>2, <3>3 DEF dbVars, engineVars, historyVars
  <2>7. CASE UNCHANGED vars
    BY <2>7 DEF vars, dbVars, engineVars, temporalVars, historyVars, boundVars
  <2> QED BY <2>1, <2>2, <2>3, <2>4, <2>5, <2>6, <2>7 DEF Next
<1> QED BY <1>1, <1>2, PTL DEF Spec

-----------------------------------------------------------------------------
(***************************************************************************)
(* The inductive invariant.                                                *)
(***************************************************************************)

LEMMA QueueInvInit == Init => QueueInv
BY QueueAssumption
   DEF Init, QueueInv, ClaimsAreRows, CompletesAfterStart, UnaskedIsIdle,
       CompletedMeansStarted, CompletedOnceIsServed, Holds, NoRow

\* No enqueue disturbs the invariant: a completed or claimed job is enqueued
\* again only if it is not a Once job.
LEMMA EnqueueInv ==
  ASSUME TypeOK, QueueInv, NEW k \in Jobs, Enqueue(k)
  PROVE  QueueInv'
<1> USE QueueAssumption DEF TypeOK
<1>1. /\ InsertedRow.status = "pending"
      /\ UpsertedRow(table[k]).status \in {"pending", "completed"}
      /\ UpsertedRow(table[k]).status = "completed" => table[k].status = "completed"
  BY DEF InsertedRow, UpsertedRow
<1>2. \A j \in Jobs : j # k => table'[j] = table[j] /\ owed'[j] = owed[j]
  BY DEF Enqueue, InsertNotification, InsertEntityJob, UpsertEntityJob, Request
<1>3. table'[k].status \in {"pending", "completed"}
  BY <1>1 DEF Enqueue, InsertNotification, InsertEntityJob, UpsertEntityJob
<1>4. table'[k].status = "completed" => table[k].status = "completed"
  BY <1>1 DEF Enqueue, InsertNotification, InsertEntityJob, UpsertEntityJob
<1>5. k \in Once => table[k].status = "absent"
  BY DEF Enqueue, InsertNotification, InsertEntityJob, UpsertEntityJob
<1>6. UNCHANGED <<pc, batch, cur, exec>>
  BY DEF Enqueue, InsertNotification, InsertEntityJob, UpsertEntityJob, engineVars, temporalVars
<1>7. ClaimsAreRows'
  BY <1>2, <1>3, <1>6 DEF QueueInv, ClaimsAreRows, Holds
<1>8. CompletesAfterStart'
  <2>1. \A e \in Engines : pc[e] = "complete" => cur[e] \in Jobs /\ table[cur[e]].status # "absent"
    BY DEF QueueInv, ClaimsAreRows, Holds
  <2> QED BY <1>2, <1>5, <1>6, <2>1 DEF QueueInv, CompletesAfterStart
<1>9. UnaskedIsIdle'
  BY <1>2, <1>3, <1>6 DEF QueueInv, UnaskedIsIdle
<1>10. CompletedMeansStarted'
  BY <1>2, <1>4, <1>6 DEF QueueInv, CompletedMeansStarted
<1>11. CompletedOnceIsServed'
  BY <1>2, <1>4, <1>5 DEF QueueInv, CompletedOnceIsServed
<1> QED BY <1>7, <1>8, <1>9, <1>10, <1>11 DEF QueueInv

\* What a step that starts nothing must respect to keep the invariant: rows
\* neither appear nor vanish, only a justified row is completed, and dispatchers
\* pick up only rows that exist.
LEMMA QuietStepInv ==
  ASSUME TypeOK, QueueInv, UNCHANGED <<exec, owed>>,
         \A j \in Jobs : table'[j].status = "absent" <=> table[j].status = "absent",
         \A j \in Jobs : table'[j].status = "completed" =>
           \/ table[j].status = "completed"
           \/ exec[j] # "none" /\ (j \in Once => owed[j] = FALSE),
         \A e \in Engines : \A j \in Jobs :
           (j \in batch'[e] \/ cur'[e] = j) => Holds(e, j) \/ table[j].status # "absent",
         \A e \in Engines : pc'[e] \in {"call", "complete", "fail"} => cur'[e] \in Jobs,
         \A e \in Engines : pc'[e] = "complete" => pc[e] = "complete" /\ cur'[e] = cur[e]
  PROVE  QueueInv'
<1> USE QueueAssumption DEF QueueInv
<1>1. ClaimsAreRows'
  BY DEF ClaimsAreRows, Holds
<1>2. CompletesAfterStart'
  BY DEF CompletesAfterStart
<1>3. UnaskedIsIdle' /\ CompletedMeansStarted' /\ CompletedOnceIsServed'
  BY DEF UnaskedIsIdle, CompletedMeansStarted, CompletedOnceIsServed
<1> QED BY <1>1, <1>2, <1>3

\* Temporal starting the workflow of a job some dispatcher works on.
LEMMA RunInv ==
  ASSUME TypeOK, QueueInv, NEW e \in Engines, pc[e] = "call", Run(cur[e]),
         UNCHANGED <<table, batch, cur>>, NEW to \in {"complete", "fail"},
         pc' = [pc EXCEPT ![e] = to]
  PROVE  QueueInv'
<1> USE QueueAssumption DEF QueueInv, TypeOK
<1>1. cur[e] \in Jobs /\ table[cur[e]].status # "absent"
  BY DEF ClaimsAreRows, Holds
<1>2. exec' = [exec EXCEPT ![cur[e]] = "running"] /\ owed' = [owed EXCEPT ![cur[e]] = FALSE]
  BY DEF Run
<1>3. \A j \in Jobs : exec[j] # "none" => exec'[j] # "none"
  BY <1>1, <1>2
<1>4. \A j \in Jobs : owed[j] = FALSE => owed'[j] = FALSE
  BY <1>1, <1>2
<1>5. ClaimsAreRows'
  BY DEF ClaimsAreRows, Holds
<1>6. CompletesAfterStart'
  <2> SUFFICES ASSUME NEW d \in Engines, pc'[d] = "complete"
               PROVE  exec'[cur[d]] # "none" /\ (cur[d] \in Once => owed'[cur[d]] = FALSE)
    BY DEF CompletesAfterStart
  <2>1. CASE d = e
    BY <2>1, <1>1, <1>2
  <2>2. CASE d # e
    <3>1. pc[d] = "complete" /\ cur[d] \in Jobs
      BY <2>2 DEF ClaimsAreRows
    <3> QED BY <3>1, <1>3, <1>4 DEF CompletesAfterStart
  <2> QED BY <2>1, <2>2
<1>7. UnaskedIsIdle'
  BY <1>1, <1>2 DEF UnaskedIsIdle
<1>8. CompletedMeansStarted'
  BY <1>3 DEF CompletedMeansStarted
<1>9. CompletedOnceIsServed'
  BY <1>4 DEF CompletedOnceIsServed
<1> QED BY <1>5, <1>6, <1>7, <1>8, <1>9

\* The row j exists, and is completed, exactly if it was before the step.
SameStanding(j) ==
  /\ table'[j].status = "absent" <=> table[j].status = "absent"
  /\ table'[j].status = "completed" <=> table[j].status = "completed"

\* Recovery, fast-forwarding, claims and markJobFailed move rows between
\* pending and processing only.
LEMMA StatementsKeepStanding ==
  ASSUME TypeOK, QueueInv, NEW e \in Engines,
         RecoverStale(e) \/ FastForward(e) \/ ClaimDue(e) \/ Fail(e)
  PROVE  \A j \in Jobs : SameStanding(j)
<1> USE QueueAssumption DEF SameStanding
<1>0. table \in [Jobs -> Rows] /\ conn \in [Engines -> BOOLEAN]
  BY DEF TypeOK
<1>1. CASE RecoverStale(e)
  <2>1. \A j \in Jobs : table'[j] = RecoveredRow(table[j])
    BY <1>1 DEF RecoverStale
  <2> QED BY <1>0, <2>1, RowStatus
<1>2. CASE FastForward(e)
  <2>1. \A j \in Jobs : table'[j] \in {table[j], FastForwardedRow(table[j])}
    BY <1>0, <1>2 DEF FastForward
  <2> QED BY <1>0, <2>1, RowStatus
<1>3. CASE ClaimDue(e)
  <2>1. PICK S \in SUBSET DueJobs :
          table' = [j \in Jobs |-> IF j \in S THEN ClaimedRow(table[j]) ELSE table[j]]
    BY <1>3 DEF ClaimDue
  <2>2. \A j \in S : j \in Jobs /\ table[j].status = "pending"
    BY <2>1 DEF DueJobs, IsDue
  <2>3. \A j \in S : table'[j].status = "processing"
    BY <1>0, <2>1, <2>2, RowStatus
  <2>4. \A j \in Jobs \ S : table'[j] = table[j]
    BY <2>1
  <2> QED BY <2>2, <2>3, <2>4
<1>4. CASE Fail(e)
  <2>1. pc[e] = "fail" /\ table' = [table EXCEPT ![cur[e]] = FailedRow(@, conn[e])]
    BY <1>4 DEF Fail, Goto
  <2>2. cur[e] \in Jobs /\ conn[e] \in BOOLEAN
    BY <1>0, <2>1 DEF QueueInv, ClaimsAreRows
  <2>3. SameStanding(cur[e])
    BY <1>0, <2>1, <2>2, FailedRowStatus
  <2>4. \A j \in Jobs : j # cur[e] => table'[j] = table[j]
    BY <1>0, <2>1, <2>2
  <2> QED BY <2>3, <2>4
<1> QED BY <1>1, <1>2, <1>3, <1>4

\* markJobCompleted completes only the caller's job, whose workflow has started.
LEMMA CompleteStanding ==
  ASSUME TypeOK, QueueInv, NEW e \in Engines, pc[e] = "complete",
         table' = [table EXCEPT ![cur[e]] = CompletedRow(@)]
  PROVE  /\ cur[e] \in Jobs /\ exec[cur[e]] # "none"
         /\ cur[e] \in Once => owed[cur[e]] = FALSE
         /\ table[cur[e]].status # "absent"
         /\ table'[cur[e]].status # "absent"
         /\ table[cur[e]].status = "completed" => table'[cur[e]].status = "completed"
         /\ \A j \in Jobs : j # cur[e] => table'[j] = table[j]
<1> USE QueueAssumption
<1>0. table \in [Jobs -> Rows]
  BY DEF TypeOK
<1>1. pc[e] = "complete" /\ table' = [table EXCEPT ![cur[e]] = CompletedRow(@)]
  OBVIOUS
<1>2. /\ cur[e] \in Jobs /\ exec[cur[e]] # "none"
      /\ cur[e] \in Once => owed[cur[e]] = FALSE
      /\ table[cur[e]].status # "absent"
  BY <1>1 DEF QueueInv, ClaimsAreRows, CompletesAfterStart, Holds
<1>3. table'[cur[e]] = CompletedRow(table[cur[e]])
  BY <1>0, <1>1, <1>2
<1>4. table'[cur[e]].status # "absent"
  BY <1>0, <1>2, <1>3, RowStatus
<1>5. table[cur[e]].status = "completed" => table'[cur[e]].status = "completed"
  BY <1>3 DEF CompletedRow
<1>6. \A j \in Jobs : j # cur[e] => table'[j] = table[j]
  BY <1>0, <1>1, <1>2
<1> QED BY <1>2, <1>4, <1>5, <1>6

\* Every await of drainWorkflowStartQueue keeps the invariant.
LEMMA DispatcherInv ==
  ASSUME TypeOK, QueueInv, NEW e \in Engines, DispatcherStep(e)
  PROVE  QueueInv'
<1> USE QueueAssumption
<1>0. /\ \A d \in Engines : pc[d] \in {"call", "complete", "fail"} => cur[d] \in Jobs
      /\ pc \in [Engines -> PCs] /\ cur \in [Engines -> Jobs \cup {NoJob}]
      /\ batch \in [Engines -> SUBSET Jobs]
  BY DEF QueueInv, ClaimsAreRows, TypeOK
<1>1. CASE RecoverStale(e) \/ FastForward(e)
  <2>1. pc' = [pc EXCEPT ![e] = pc'[e]] /\ pc'[e] \in {"health", "claim"}
    BY <1>0, <1>1 DEF RecoverStale, FastForward, Goto
  <2>2. UNCHANGED <<batch, cur, exec, owed>>
    BY <1>1 DEF RecoverStale, FastForward, temporalVars, historyVars
  <2>3. \A j \in Jobs : SameStanding(j)
    BY <1>1, StatementsKeepStanding
  <2> QED BY <1>0, <2>1, <2>2, <2>3, QuietStepInv DEF Holds, SameStanding
<1>3. CASE ClaimDue(e)
  <2>1. PICK S \in SUBSET DueJobs :
          /\ pc' = [pc EXCEPT ![e] = IF S = {} THEN "idle" ELSE "process"]
          /\ batch' = [batch EXCEPT ![e] = S]
          /\ UNCHANGED <<cur, exec, owed>>
    BY <1>3 DEF ClaimDue, Goto, temporalVars, historyVars
  <2>2. \A j \in S : j \in Jobs /\ table[j].status = "pending"
    BY <2>1 DEF DueJobs, IsDue
  <2>3. \A j \in Jobs : SameStanding(j)
    BY <1>3, StatementsKeepStanding
  <2> QED BY <1>0, <2>1, <2>2, <2>3, QuietStepInv DEF Holds, SameStanding
<1>4. CASE \E j \in Jobs : TakeJob(e, j)
  <2>1. PICK j \in Jobs :
          /\ j \in batch[e]
          /\ pc' = [pc EXCEPT ![e] = IF j \in Rejected THEN "fail" ELSE "call"]
          /\ batch' = [batch EXCEPT ![e] = @ \ {j}]
          /\ cur' = [cur EXCEPT ![e] = j]
          /\ UNCHANGED <<table, exec, owed>>
    BY <1>4 DEF TakeJob, Goto, dbVars, temporalVars, historyVars
  <2> QED BY <1>0, <2>1, QuietStepInv DEF Holds
<1>5. CASE FinishDrain(e)
  BY <1>0, <1>5, QuietStepInv DEF FinishDrain, Goto, Holds, dbVars, temporalVars, historyVars
<1>6. CASE StartSucceeds(e)
  <2>1. pc[e] = "call" /\ pc' = [pc EXCEPT ![e] = "complete"] /\ Run(cur[e])
    BY <1>6 DEF StartSucceeds, Goto
  <2>2. UNCHANGED <<table, batch, cur>>
    BY <1>6 DEF StartSucceeds, dbVars
  <2> QED BY <2>1, <2>2, RunInv
<1>7. CASE StartFails(e)
  <2>1. pc[e] = "call" /\ pc' = [pc EXCEPT ![e] = "fail"]
    BY <1>7 DEF StartFails, Goto
  <2>2. UNCHANGED <<table, batch, cur, exec, owed>>
    BY <1>7 DEF StartFails, dbVars, temporalVars, historyVars
  <2> QED BY <1>0, <2>1, <2>2, QuietStepInv DEF Holds
<1>8. CASE Complete(e)
  <2>1. /\ pc' = [pc EXCEPT ![e] = "process"] /\ cur' = [cur EXCEPT ![e] = NoJob]
        /\ UNCHANGED <<batch, exec, owed>>
    BY <1>8 DEF Complete, Goto, temporalVars, historyVars
  <2>2. pc[e] = "complete" /\ table' = [table EXCEPT ![cur[e]] = CompletedRow(@)]
    BY <1>8 DEF Complete, Goto
  <2> QED BY <1>0, <2>1, <2>2, CompleteStanding, QuietStepInv DEF Holds
<1>9. CASE Fail(e)
  <2>1. /\ pc' = [pc EXCEPT ![e] = "process"] /\ cur' = [cur EXCEPT ![e] = NoJob]
        /\ UNCHANGED <<batch, exec, owed>>
    BY <1>9 DEF Fail, Goto, temporalVars, historyVars
  <2>2. \A j \in Jobs : SameStanding(j)
    BY <1>9, StatementsKeepStanding
  <2> QED BY <1>0, <2>1, <2>2, QuietStepInv DEF Holds, SameStanding
<1> QED BY <1>1, <1>3, <1>4, <1>5, <1>6, <1>7, <1>8, <1>9 DEF DispatcherStep

\* So do the clock, the faults, a restart and the closing of a workflow.
LEMMA EnvironmentInv ==
  ASSUME TypeOK, QueueInv
  PROVE  /\ \A k \in Jobs : BecomesDue(k) \/ LockGoesStale(k) \/ WorkflowCloses(k) => QueueInv'
         /\ \A e \in Engines :
              ReplyLost(e) \/ CompleteThrows(e) \/ DrainThrows(e) \/ Crash(e) \/ Restart(e)
              => QueueInv'
         /\ TemporalGoesDown \/ TemporalComesUp \/ UNCHANGED vars => QueueInv'
<1> USE QueueAssumption
<1>0. /\ \A d \in Engines : pc[d] \in {"call", "complete", "fail"} => cur[d] \in Jobs
      /\ pc \in [Engines -> PCs] /\ cur \in [Engines -> Jobs \cup {NoJob}]
      /\ batch \in [Engines -> SUBSET Jobs] /\ table \in [Jobs -> Rows]
      /\ exec \in [Jobs -> Executions]
  BY DEF QueueInv, ClaimsAreRows, TypeOK
<1>1. ASSUME NEW k \in Jobs, BecomesDue(k) \/ LockGoesStale(k) PROVE QueueInv'
  <2>1. /\ table' = [table EXCEPT ![k] = table'[k]]
        /\ table'[k] \in {[table[k] EXCEPT !.due = TRUE], [table[k] EXCEPT !.lock = "stale"]}
        /\ UNCHANGED <<pc, batch, cur, exec, owed>>
    BY <1>0, <1>1 DEF BecomesDue, LockGoesStale, engineVars, temporalVars, historyVars
  <2>2. table'[k].status = table[k].status
    BY <1>0, <2>1 DEF Rows
  <2> QED BY <1>0, <2>1, <2>2, QuietStepInv DEF Holds
<1>2. ASSUME NEW k \in Jobs, WorkflowCloses(k) PROVE QueueInv'
  <2>1. exec[k] = "running" /\ exec' = [exec EXCEPT ![k] = "closed"]
    BY <1>2 DEF WorkflowCloses
  <2>2. UNCHANGED <<table, pc, batch, cur, owed>>
    BY <1>2 DEF WorkflowCloses, dbVars, engineVars, historyVars
  <2>3. \A j \in Jobs : exec'[j] = "none" <=> exec[j] = "none"
    BY <1>0, <2>1
  <2>4. \A d \in Engines : pc[d] = "complete" => cur[d] \in Jobs
    BY <1>0
  <2>5. ClaimsAreRows' /\ CompletesAfterStart'
    BY <2>2, <2>3, <2>4 DEF QueueInv, ClaimsAreRows, CompletesAfterStart, Holds
  <2>6. UnaskedIsIdle' /\ CompletedMeansStarted' /\ CompletedOnceIsServed'
    BY <2>2, <2>3 DEF QueueInv, UnaskedIsIdle, CompletedMeansStarted, CompletedOnceIsServed
  <2> QED BY <2>5, <2>6 DEF QueueInv
<1>3. ASSUME NEW e \in Engines, ReplyLost(e) PROVE QueueInv'
  <2>1. pc[e] = "call" /\ pc' = [pc EXCEPT ![e] = "fail"] /\ Run(cur[e])
    BY <1>3 DEF ReplyLost, Goto
  <2>2. UNCHANGED <<table, batch, cur>>
    BY <1>3 DEF ReplyLost, dbVars
  <2> QED BY <2>1, <2>2, RunInv
<1>4. ASSUME NEW e \in Engines, CompleteThrows(e) PROVE QueueInv'
  <2>1. pc[e] = "complete" /\ pc' = [pc EXCEPT ![e] = "fail"]
    BY <1>4 DEF CompleteThrows, Goto
  <2>2. UNCHANGED <<batch, cur, exec, owed>>
    BY <1>4 DEF CompleteThrows, temporalVars, historyVars
  <2>3. CASE UNCHANGED table
    BY <1>0, <2>1, <2>2, <2>3, QuietStepInv DEF Holds
  <2>4. CASE table' = [table EXCEPT ![cur[e]] = CompletedRow(@)]
    <3>1. /\ pc'[e] = "fail" /\ \A d \in Engines : d # e => pc'[d] = pc[d]
          /\ \A d \in Engines : pc'[d] \in {"call", "complete", "fail"} => cur'[d] \in Jobs
          /\ \A d \in Engines : \A j \in Jobs : (j \in batch'[d] \/ cur'[d] = j) => Holds(d, j)
      BY <1>0, <2>1, <2>2 DEF Holds
    <3>2. /\ exec[cur[e]] # "none"
          /\ cur[e] \in Once => owed[cur[e]] = FALSE
          /\ table[cur[e]].status # "absent" /\ table'[cur[e]].status # "absent"
          /\ table[cur[e]].status = "completed" => table'[cur[e]].status = "completed"
          /\ \A j \in Jobs : j # cur[e] => table'[j] = table[j]
      BY <2>1, <2>4, CompleteStanding
    <3> QED BY <2>1, <2>2, <3>1, <3>2, QuietStepInv
  <2> QED BY <1>4, <2>3, <2>4 DEF CompleteThrows
<1>5. ASSUME NEW e \in Engines, DrainThrows(e) \/ Crash(e) PROVE QueueInv'
  <2>1. /\ pc' = [pc EXCEPT ![e] = "idle"] \/ pc' = [pc EXCEPT ![e] = "down"]
        /\ batch' = [batch EXCEPT ![e] = {}] /\ cur' = [cur EXCEPT ![e] = NoJob]
        /\ UNCHANGED <<table, exec, owed>>
    BY <1>5 DEF DrainThrows, Crash, dbVars, temporalVars, historyVars
  <2> QED BY <1>0, <2>1, QuietStepInv DEF Holds
<1>6. ASSUME NEW e \in Engines, Restart(e) PROVE QueueInv'
  BY <1>0, <1>6, QuietStepInv DEF Restart, Goto, Holds, dbVars, temporalVars, historyVars
<1>7. ASSUME TemporalGoesDown \/ TemporalComesUp \/ UNCHANGED vars PROVE QueueInv'
  <2>1. UNCHANGED <<table, pc, batch, cur, exec, owed>>
    BY <1>7 DEF TemporalGoesDown, TemporalComesUp, vars, dbVars, engineVars,
                temporalVars, historyVars
  <2> QED BY <1>0, <2>1, QuietStepInv DEF Holds
<1> QED BY <1>1, <1>2, <1>3, <1>4, <1>5, <1>6, <1>7

\* The invariant holds of every reachable state.
THEOREM QueueInvariant == Spec => []QueueInv
<1>1. TypeOK /\ QueueInv /\ [Next]_vars => QueueInv'
  BY EnqueueInv, DispatcherInv, EnvironmentInv DEF Next
<1> QED BY <1>1, QueueInvInit, TypeCorrect, PTL DEF Spec

-----------------------------------------------------------------------------
(***************************************************************************)
(* The safety theorems.                                                    *)
(***************************************************************************)

\* No crash, lost reply, outage, stale claim or second dispatcher makes the
\* queue drop a request that was enqueued once.
THEOREM NoRequestIsLost == Spec => []NoLostRequest
<1>1. TypeOK /\ QueueInv => NoLostRequest
  <2> SUFFICES ASSUME TypeOK, QueueInv, NEW j \in Once, owed[j]
               PROVE  table[j].status \in {"pending", "processing"}
    BY DEF NoLostRequest
  <2>1. j \in Jobs /\ owed[j] # FALSE /\ table[j].status \in Statuses
    BY QueueAssumption DEF TypeOK, Rows
  <2>2. table[j].status # "absent" /\ table[j].status # "completed"
    BY <2>1 DEF QueueInv, UnaskedIsIdle, CompletedOnceIsServed
  <2> QED BY <2>1, <2>2 DEF Statuses
<1> QED BY <1>1, TypeCorrect, QueueInvariant, PTL

\* Once a row is completed no step of anyone changes it.
THEOREM CompletedStays == Spec => CompletedIsFinal
<1>1. ASSUME TypeOK, QueueInv, [Next]_vars, NEW j \in Jobs, table[j].status = "completed"
      PROVE  table'[j] = table[j]
  <2> USE QueueAssumption
  <2>0. table \in [Jobs -> Rows] /\ conn \in [Engines -> BOOLEAN] /\ table[j] \in Rows
    BY <1>1 DEF TypeOK
  <2>1. /\ UpsertedRow(table[j]) = table[j] /\ CompletedRow(table[j]) = table[j]
        /\ RecoveredRow(table[j]) = table[j] /\ FastForwardedRow(table[j]) = table[j]
        /\ \A c \in BOOLEAN : FailedRow(table[j], c) = table[j]
        /\ ~IsDue(table[j])
    BY <2>0, <1>1, CompletedRowIsFinal
  <2>2. CASE \E k \in Jobs : Enqueue(k)
    BY <2>0, <2>1, <2>2, <1>1 DEF Enqueue, InsertNotification, InsertEntityJob, UpsertEntityJob
  <2>3. CASE \E k \in Jobs : BecomesDue(k) \/ LockGoesStale(k)
    BY <2>0, <2>3, <1>1 DEF BecomesDue, LockGoesStale
  <2>4. CASE \E e \in Engines : DispatcherStep(e)
    <3> PICK e \in Engines : DispatcherStep(e)
      BY <2>4
    <3>1. CASE RecoverStale(e) \/ FastForward(e)
      BY <2>0, <2>1, <3>1 DEF RecoverStale, FastForward
    <3>2. CASE ClaimDue(e)
      BY <2>0, <2>1, <3>2 DEF ClaimDue, DueJobs
    <3>3. CASE Complete(e)
      BY <2>0, <2>1, <3>3 DEF Complete
    <3>4. CASE Fail(e)
      BY <2>0, <2>1, <3>4 DEF Fail
    <3>5. CASE (\E k \in Jobs : TakeJob(e, k)) \/ FinishDrain(e) \/ StartSucceeds(e) \/ StartFails(e)
      BY <3>5 DEF TakeJob, FinishDrain, StartSucceeds, StartFails, dbVars
    <3> QED BY <3>1, <3>2, <3>3, <3>4, <3>5 DEF DispatcherStep
  <2>5. CASE \E e \in Engines :
               ReplyLost(e) \/ CompleteThrows(e) \/ DrainThrows(e) \/ Crash(e) \/ Restart(e)
    BY <2>0, <2>1, <2>5 DEF ReplyLost, CompleteThrows, DrainThrows, Crash, Restart, dbVars
  <2>6. CASE \/ \E k \in Jobs : WorkflowCloses(k)
             \/ TemporalGoesDown \/ TemporalComesUp \/ UNCHANGED vars
    BY <2>6 DEF WorkflowCloses, TemporalGoesDown, TemporalComesUp, vars, dbVars
  <2> QED BY <1>1, <2>2, <2>3, <2>4, <2>5, <2>6 DEF Next
<1>2. TypeOK /\ QueueInv /\ [Next]_vars =>
        [\A j \in Jobs : table[j].status = "completed" => table'[j] = table[j]]_vars
  BY <1>1
<1> QED BY <1>2, TypeCorrect, QueueInvariant, PTL DEF Spec, CompletedIsFinal

-----------------------------------------------------------------------------
(***************************************************************************)
(* Who works on a job, while drains end within the stale period.           *)
(***************************************************************************)

\* A dispatcher holds nothing between drains and no job twice, and a job that
\* was enqueued once belongs to the one dispatcher whose claim is on its row, or
\* which has completed it without learning so.
Empties ==
  \A e \in Engines :
    /\ pc[e] \in {"down", "idle", "health", "claim"} => batch[e] = {}
    /\ pc[e] \in {"down", "idle", "health", "claim", "process"} => cur[e] = NoJob
    /\ cur[e] \notin batch[e]

HoldersHaveClaims ==
  \A j \in Jobs : requests[j] < 2 =>
    \A d \in Engines : Holds(d, j) =>
      /\ \/ table[j].status = "processing" /\ table[j].lock = "fresh"
         \/ table[j].status = "completed" /\ faults > 0
      /\ \A e \in Engines : Holds(e, j) => d = e

RowsAreAskedFor == \A j \in Jobs : table[j].status # "absent" => requests[j] >= 1

HolderInv == Empties /\ HoldersHaveClaims /\ RowsAreAskedFor

\* What a step that claims nothing must respect: no dispatcher gains a job, and
\* what a dispatcher keeps keeps its row, unless it is asked for again.
LEMMA NoClaimHolder ==
  ASSUME TypeOK, HolderInv, faults > 0 => faults' > 0,
         \A j \in Jobs : requests'[j] \in Nat /\ requests'[j] >= requests[j],
         \A j \in Jobs : table'[j].status # "absent" =>
           table[j].status # "absent" \/ requests'[j] >= 1,
         \A e \in Engines : \A j \in Jobs : Holds(e, j)' => Holds(e, j),
         \A e \in Engines : \A j \in Jobs : Holds(e, j)' /\ requests'[j] < 2 =>
           table'[j].status = table[j].status /\ table'[j].lock = table[j].lock,
         Empties'
  PROVE  HolderInv'
<1>1. HoldersHaveClaims'
  <2> SUFFICES ASSUME NEW j \in Jobs, requests'[j] < 2, NEW d \in Engines, Holds(d, j)'
               PROVE  /\ \/ table'[j].status = "processing" /\ table'[j].lock = "fresh"
                         \/ table'[j].status = "completed" /\ faults' > 0
                      /\ \A e \in Engines : Holds(e, j)' => d = e
    BY DEF HoldersHaveClaims
  <2>1. requests[j] < 2 /\ Holds(d, j)
    BY DEF TypeOK
  <2> QED BY <2>1 DEF HolderInv, HoldersHaveClaims
<1>2. RowsAreAskedFor'
  BY DEF HolderInv, RowsAreAskedFor, TypeOK
<1> QED BY <1>1, <1>2 DEF HolderInv

\* An enqueue asks for the job once more, and a job that has a row already was
\* asked for before.
LEMMA EnqueueHolder ==
  ASSUME TypeOK, HolderInv, NEW k \in Jobs, Enqueue(k)
  PROVE  HolderInv'
<1> USE DEF TypeOK
<1>1. UNCHANGED <<pc, batch, cur, faults>>
  BY DEF Enqueue, InsertNotification, InsertEntityJob, UpsertEntityJob, engineVars, boundVars
<1>2. requests' = [requests EXCEPT ![k] = @ + 1] /\ \A j \in Jobs : j # k => table'[j] = table[j]
  BY DEF Enqueue, InsertNotification, InsertEntityJob, UpsertEntityJob, Request
<1>3. \A e \in Engines : Holds(e, k) => requests'[k] >= 2
  <2> SUFFICES ASSUME NEW e \in Engines, Holds(e, k), requests[k] < 2 PROVE requests'[k] >= 2
    BY <1>2
  <2>1. table[k].status # "absent"
    BY DEF HolderInv, HoldersHaveClaims
  <2> QED BY <1>2, <2>1 DEF HolderInv, RowsAreAskedFor
<1>4. Empties' /\ \A e \in Engines : \A j \in Jobs : Holds(e, j)' <=> Holds(e, j)
  BY <1>1 DEF HolderInv, Empties, Holds
<1>5. \A j \in Jobs : requests'[j] \in Nat /\ requests'[j] >= requests[j]
  BY <1>2
<1>6. \A j \in Jobs : table'[j].status # "absent" => table[j].status # "absent" \/ requests'[j] >= 1
  BY <1>2
<1>7. \A e \in Engines : \A j \in Jobs : Holds(e, j)' /\ requests'[j] < 2 => table'[j] = table[j]
  BY <1>2, <1>3, <1>4
<1> QED BY <1>1, <1>4, <1>5, <1>6, <1>7, NoClaimHolder

\* The statements of a drain.  A claim is made of pending rows, which nobody
\* holds; marking a job ends the only hold on it.
LEMMA DispatcherHolder ==
  ASSUME QueueAssumption, TypeOK, HolderInv, NEW e \in Engines, DispatcherStep(e)
  PROVE  HolderInv'
<1> USE DEF TypeOK
<1>0. requests' = requests /\ faults' = faults
  BY DEF DispatcherStep, RecoverStale, FastForward, ClaimDue, TakeJob, FinishDrain, StartSucceeds,
         StartFails, Complete, Fail, historyVars, boundVars
<1>1. CASE RecoverStale(e) \/ FastForward(e)
  <2>1. /\ UNCHANGED <<batch, cur>>
        /\ \A j \in Jobs : table'[j].status # "absent" => table[j].status # "absent"
        /\ \A j \in Jobs : table[j].status = "processing" /\ table[j].lock = "fresh" =>
             table'[j].status = "processing" /\ table'[j].lock = "fresh"
        /\ \A j \in Jobs : table[j].status = "completed" => table'[j] = table[j]
    BY <1>1 DEF RecoverStale, FastForward, RecoveredRow, FastForwardedRow, Rows
  <2>2. Empties'
    BY <1>1, <2>1 DEF RecoverStale, FastForward, Goto, HolderInv, Empties
  <2>3. \A d \in Engines : \A j \in Jobs : Holds(d, j)' <=> Holds(d, j)
    BY <2>1 DEF Holds
  <2>4. \A d \in Engines : \A j \in Jobs : Holds(d, j)' /\ requests'[j] < 2 =>
          table'[j].status = table[j].status /\ table'[j].lock = table[j].lock
    BY <1>0, <2>1, <2>3 DEF HolderInv, HoldersHaveClaims
  <2> QED BY <1>0, <2>1, <2>2, <2>3, <2>4, NoClaimHolder
<1>2. CASE ClaimDue(e)
  <2>1. PICK S \in SUBSET DueJobs :
          /\ Goto(e, "claim", IF S = {} THEN "idle" ELSE "process")
          /\ batch' = [batch EXCEPT ![e] = S]
          /\ table' = [j \in Jobs |-> IF j \in S THEN ClaimedRow(table[j]) ELSE table[j]]
          /\ cur' = cur
    BY <1>2 DEF ClaimDue
  <2>2. /\ S \subseteq Jobs /\ \A j \in S : table[j].status = "pending"
        /\ batch[e] = {} /\ cur[e] = NoJob
    BY <2>1 DEF DueJobs, IsDue, Goto, HolderInv, Empties
  <2>3. Empties'
    BY <2>1, <2>2 DEF Goto, HolderInv, Empties, QueueAssumption
  <2>4. RowsAreAskedFor'
    BY <1>0, <2>1, <2>2 DEF HolderInv, RowsAreAskedFor
  <2>5. \A j \in Jobs : requests[j] < 2 /\ j \in S => \A d \in Engines : ~Holds(d, j)
    BY <2>2 DEF HolderInv, HoldersHaveClaims
  <2>6. \A j \in Jobs : \A d \in Engines :
          Holds(d, j)' <=> (d = e /\ j \in S) \/ (d # e /\ Holds(d, j))
    BY <2>1, <2>2 DEF Holds, QueueAssumption
  <2>7. \A j \in S : table'[j].status = "processing" /\ table'[j].lock = "fresh"
    <3>1. \A row \in Rows : ClaimedRow(row).status = "processing" /\ ClaimedRow(row).lock = "fresh"
      BY DEF ClaimedRow, Rows
    <3> QED BY <2>1, <2>2, <3>1
  <2>8. \A j \in Jobs \ S : table'[j] = table[j]
    BY <2>1
  <2>9. HoldersHaveClaims'
    <3> SUFFICES ASSUME NEW j \in Jobs, requests[j] < 2, NEW d \in Engines, Holds(d, j)'
                 PROVE  /\ \/ table'[j].status = "processing" /\ table'[j].lock = "fresh"
                           \/ table'[j].status = "completed" /\ faults' > 0
                        /\ \A f \in Engines : Holds(f, j)' => d = f
      BY <1>0 DEF HoldersHaveClaims
    <3>1. CASE j \in S
      BY <2>5, <2>6, <2>7, <3>1
    <3>2. CASE j \notin S
      BY <1>0, <2>6, <2>8, <3>2 DEF HolderInv, HoldersHaveClaims
    <3> QED BY <3>1, <3>2
  <2> QED BY <2>3, <2>4, <2>9 DEF HolderInv
<1>3. CASE \E j \in Jobs : TakeJob(e, j)
  <2>1. PICK k \in Jobs : TakeJob(e, k)
    BY <1>3
  <2>2. table' = table
    BY <2>1 DEF TakeJob, dbVars
  <2>3. Empties'
    BY <2>1 DEF TakeJob, Goto, HolderInv, Empties
  <2>4. \A d \in Engines : \A j \in Jobs : Holds(d, j)' => Holds(d, j)
    BY <2>1 DEF TakeJob, Holds
  <2> QED BY <1>0, <2>2, <2>3, <2>4, NoClaimHolder
<1>4. CASE FinishDrain(e) \/ StartSucceeds(e) \/ StartFails(e)
  <2>1. UNCHANGED <<table, batch, cur>>
    BY <1>4 DEF FinishDrain, StartSucceeds, StartFails, dbVars
  <2>2. Empties'
    BY <1>4, <2>1 DEF FinishDrain, StartSucceeds, StartFails, Goto, HolderInv, Empties
  <2> QED BY <1>0, <2>1, <2>2, NoClaimHolder DEF Holds
<1>5. CASE Complete(e) \/ Fail(e)
  <2>1. /\ Goto(e, "complete", "process") \/ Goto(e, "fail", "process")
        /\ cur' = [cur EXCEPT ![e] = NoJob] /\ batch' = batch
    BY <1>5 DEF Complete, Fail
  <2>2. \A j \in Jobs : j # cur[e] => table'[j] = table[j]
    BY <1>5 DEF Complete, Fail
  <2>3. \A j \in Jobs : table'[j].status # "absent" => table[j].status # "absent"
    BY <1>5 DEF Complete, Fail, CompletedRow, FailedRow, Rows
  <2>4. Empties'
    BY <2>1 DEF Goto, HolderInv, Empties, QueueAssumption
  <2>5. \A d \in Engines : \A j \in Jobs : Holds(d, j)' => Holds(d, j)
    BY <2>1 DEF Holds, QueueAssumption
  <2>6. \A d \in Engines : \A j \in Jobs : Holds(d, j)' /\ requests'[j] < 2 => j # cur[e]
    <3> SUFFICES ASSUME NEW d \in Engines, NEW j \in Jobs, Holds(d, j)', requests[j] < 2,
                        j = cur[e]
                 PROVE  FALSE
      BY <1>0
    <3>1. Holds(d, j) /\ Holds(e, j)
      BY <2>5 DEF Holds
    <3>2. d = e
      BY <3>1 DEF HolderInv, HoldersHaveClaims
    <3>3. j \notin batch[e] /\ j # NoJob
      BY QueueAssumption DEF HolderInv, Empties
    <3> QED BY <2>1, <3>2, <3>3 DEF Holds
  <2> QED BY <1>0, <2>2, <2>3, <2>4, <2>5, <2>6, NoClaimHolder
<1> QED BY <1>1, <1>2, <1>3, <1>4, <1>5 DEF DispatcherStep

\* Faults end holds, and no claim goes stale under a dispatcher that holds it.
LEMMA EnvironmentHolder ==
  ASSUME QueueAssumption, ~SlowDrains, TypeOK, HolderInv, [Next]_vars,
         \A j \in Jobs : ~Enqueue(j), \A e \in Engines : ~DispatcherStep(e)
  PROVE  HolderInv'
<1> USE DEF TypeOK
<1>0. faults > 0 => faults' > 0
  BY DEF Next, ReplyLost, CompleteThrows, DrainThrows, Crash, Restart, Fault, BecomesDue,
         LockGoesStale, WorkflowCloses, TemporalGoesDown, TemporalComesUp, boundVars, vars
<1>1. CASE \E k \in Jobs : BecomesDue(k) \/ LockGoesStale(k)
  <2>1. PICK k \in Jobs : BecomesDue(k) \/ LockGoesStale(k)
    BY <1>1
  <2>2. /\ UNCHANGED <<pc, batch, cur, requests>>
        /\ \A j \in Jobs : j # k => table'[j] = table[j]
        /\ \A j \in Jobs : table'[j].status = table[j].status
    BY <2>1 DEF BecomesDue, LockGoesStale, engineVars, historyVars, Rows
  <2>3. Empties' /\ \A e \in Engines : \A j \in Jobs : Holds(e, j)' <=> Holds(e, j)
    BY <2>2 DEF HolderInv, Empties, Holds
  <2>4. \A e \in Engines : Holds(e, k) /\ requests[k] < 2 => table'[k].lock = table[k].lock
    <3>1. CASE BecomesDue(k)
      BY <3>1 DEF BecomesDue, Rows
    <3>2. CASE LockGoesStale(k)
      BY <3>2 DEF LockGoesStale
    <3> QED BY <2>1, <3>1, <3>2
  <2>5. \A e \in Engines : \A j \in Jobs : Holds(e, j)' /\ requests'[j] < 2 =>
          table'[j].status = table[j].status /\ table'[j].lock = table[j].lock
    BY <2>2, <2>3, <2>4
  <2> QED BY <1>0, <2>2, <2>3, <2>5, NoClaimHolder
<1>2. CASE \E e \in Engines : ReplyLost(e) \/ Restart(e)
  <2>1. UNCHANGED <<table, batch, cur, requests>>
    BY <1>2 DEF ReplyLost, Restart, dbVars, historyVars
  <2>2. Empties'
    BY <1>2, <2>1 DEF ReplyLost, Restart, Goto, HolderInv, Empties
  <2> QED BY <1>0, <2>1, <2>2, NoClaimHolder DEF Holds
<1>5. CASE \E e \in Engines : CompleteThrows(e)
  <2>1. PICK e \in Engines : CompleteThrows(e)
    BY <1>5
  <2>2. UNCHANGED <<batch, cur, requests>> /\ faults' > 0
    BY <2>1 DEF CompleteThrows, Fault, historyVars
  <2>3. Empties'
    BY <2>1, <2>2 DEF CompleteThrows, Goto, HolderInv, Empties
  <2>4. \A d \in Engines : \A j \in Jobs : Holds(d, j)' <=> Holds(d, j)
    BY <2>2 DEF Holds
  <2>5. CASE UNCHANGED table
    BY <1>0, <2>2, <2>3, <2>4, <2>5, NoClaimHolder
  <2>6. CASE table' = [table EXCEPT ![cur[e]] = CompletedRow(@)]
    <3>1. \A j \in Jobs : table'[j] \in {table[j], CompletedRow(table[j])}
      BY <2>6
    <3>2. \A row \in Rows :
            /\ CompletedRow(row).status = row.status \/ CompletedRow(row).status = "completed"
            /\ row.status = "absent" => CompletedRow(row) = row
            /\ CompletedRow(row).status # "completed" => CompletedRow(row) = row
            /\ row.status = "completed" => CompletedRow(row) = row
      BY DEF CompletedRow, Rows
    <3>3. HoldersHaveClaims'
      BY <2>2, <2>4, <3>1, <3>2 DEF HolderInv, HoldersHaveClaims
    <3>4. RowsAreAskedFor'
      BY <2>2, <3>1, <3>2 DEF HolderInv, RowsAreAskedFor
    <3> QED BY <2>3, <3>3, <3>4 DEF HolderInv
  <2> QED BY <2>1, <2>5, <2>6 DEF CompleteThrows
<1>3. CASE \E e \in Engines : DrainThrows(e) \/ Crash(e)
  <2>1. PICK e \in Engines : DrainThrows(e) \/ Crash(e)
    BY <1>3
  <2>2. /\ pc' = [pc EXCEPT ![e] = "idle"] \/ pc' = [pc EXCEPT ![e] = "down"]
        /\ batch' = [batch EXCEPT ![e] = {}] /\ cur' = [cur EXCEPT ![e] = NoJob]
        /\ UNCHANGED <<table, requests>>
    BY <2>1 DEF DrainThrows, Crash, dbVars, historyVars
  <2>3. Empties'
    BY <2>2 DEF HolderInv, Empties
  <2>4. \A d \in Engines : \A j \in Jobs : Holds(d, j)' => Holds(d, j)
    BY <2>2 DEF Holds, QueueAssumption
  <2> QED BY <1>0, <2>2, <2>3, <2>4, NoClaimHolder
<1>4. CASE \/ \E k \in Jobs : WorkflowCloses(k)
           \/ TemporalGoesDown \/ TemporalComesUp \/ UNCHANGED vars
  <2>1. UNCHANGED <<table, pc, batch, cur, requests>>
    BY <1>4 DEF WorkflowCloses, TemporalGoesDown, TemporalComesUp, vars, dbVars, engineVars,
                historyVars
  <2> QED BY <1>0, <2>1, NoClaimHolder DEF Holds, HolderInv, Empties
<1> QED BY <1>1, <1>2, <1>3, <1>4, <1>5 DEF Next

\* While drains end within the stale period, two dispatchers never work on one
\* job that was enqueued once: claims are made of pending rows, and a claim is
\* taken back only after its holder has gone.
THEOREM OneHolderPerJob == Spec => []OneHolder
<1>1. ASSUME ~SlowDrains, Init PROVE HolderInv
  BY <1>1, QueueAssumption DEF Init, HolderInv, Empties, HoldersHaveClaims, RowsAreAskedFor, Holds, NoRow
<1>2. ASSUME ~SlowDrains, TypeOK, HolderInv, [Next]_vars PROVE HolderInv'
  BY <1>2, QueueAssumption, EnqueueHolder, DispatcherHolder, EnvironmentHolder
<1>3. TypeOK /\ (~SlowDrains => HolderInv) => OneHolder
  BY DEF HolderInv, HoldersHaveClaims, OneHolder
<1>4. Init => (~SlowDrains => HolderInv)
  BY <1>1
<1>5. TypeOK /\ (~SlowDrains => HolderInv) /\ [Next]_vars => (~SlowDrains => HolderInv)'
  BY <1>2
<1> QED BY <1>3, <1>4, <1>5, TypeCorrect, PTL DEF Spec

\* While no fault has happened, a notification is asked for once, and once it has
\* been started its row is completed or its only holder is about to complete it.
StartedOnce ==
  \A j \in Once :
    /\ requests[j] <= 1
    /\ table[j].status = "absent" => requests[j] = 0
    /\ exec[j] # "none" =>
         table[j].status = "completed" \/ \E e \in Engines : pc[e] = "complete" /\ cur[e] = j

\* A step that starts nothing new and fails no row that was completed keeps this,
\* if the dispatchers that are about to complete a job stay there or complete it.
LEMMA QuietRerun ==
  ASSUME TypeOK, StartedOnce, QueueAssumption,
         \A j \in Jobs : exec'[j] = "none" <=> exec[j] = "none",
         \A j \in Once : table[j].status = "completed" => table'[j].status = "completed",
         \A e \in Engines : \A j \in Once : pc[e] = "complete" /\ cur[e] = j =>
           (pc'[e] = "complete" /\ cur'[e] = j) \/ table'[j].status = "completed",
         requests' = requests,
         \A j \in Once : table'[j].status = "absent" => table[j].status = "absent"
  PROVE  StartedOnce'
<1> SUFFICES ASSUME NEW j \in Once
             PROVE  /\ requests'[j] <= 1
                    /\ table'[j].status = "absent" => requests'[j] = 0
                    /\ exec'[j] # "none" => \/ table'[j].status = "completed"
                                            \/ \E e \in Engines : pc'[e] = "complete" /\ cur'[e] = j
  BY DEF StartedOnce
<1>1. j \in Jobs
  BY DEF QueueAssumption
<1>2. CASE exec[j] # "none"
  <2>1. table[j].status = "completed" \/ \E e \in Engines : pc[e] = "complete" /\ cur[e] = j
    BY <1>2 DEF StartedOnce
  <2> QED BY <2>1 DEF StartedOnce
<1>3. CASE exec[j] = "none"
  BY <1>1, <1>3 DEF StartedOnce
<1> QED BY <1>2, <1>3

\* A notification is inserted once, before anything can have been started for it.
LEMMA EnqueueRerun ==
  ASSUME QueueAssumption, TypeOK, StartedOnce, QueueInv, NEW k \in Jobs, Enqueue(k)
  PROVE  StartedOnce'
<1>1. UNCHANGED <<pc, cur, exec>> /\ requests' = [requests EXCEPT ![k] = @ + 1]
  BY DEF Enqueue, InsertNotification, InsertEntityJob, UpsertEntityJob, Request, engineVars,
         temporalVars
<1>2. \A j \in Jobs : j # k => table'[j] = table[j] /\ requests'[j] = requests[j]
  BY <1>1 DEF Enqueue, InsertNotification, InsertEntityJob, UpsertEntityJob, TypeOK
<1>3. CASE k \notin Once
  <2>1. \A j \in Once : table'[j] = table[j] /\ requests'[j] = requests[j]
    BY <1>2, <1>3 DEF QueueAssumption
  <2> QED BY <1>1, <2>1 DEF StartedOnce
<1>4. CASE k \in Once
  <2>1. table[k].status = "absent" /\ table'[k] = InsertedRow
    BY <1>4 DEF Enqueue, InsertNotification, InsertEntityJob, UpsertEntityJob, TypeOK
  <2>2. requests'[k] = 1 /\ exec[k] = "none"
    BY <1>1, <1>4, <2>1 DEF StartedOnce, TypeOK, QueueInv, UnaskedIsIdle
  <2>3. table'[k].status = "pending"
    BY <2>1 DEF InsertedRow
  <2>4. \A j \in Once : j # k => table'[j] = table[j] /\ requests'[j] = requests[j]
    BY <1>2 DEF QueueAssumption
  <2> QED BY <1>1, <2>2, <2>3, <2>4 DEF StartedOnce
<1> QED BY <1>3, <1>4

\* A dispatcher that calls Temporal for a notification is the only one that holds
\* it, so nothing was started for it before.
LEMMA FirstStart ==
  ASSUME QueueAssumption, TypeOK, HolderInv, StartedOnce, faults = 0,
         NEW e \in Engines, pc[e] = "call",
         cur[e] \in Once
  PROVE  exec[cur[e]] = "none"
<1> DEFINE j == cur[e]
<1>1. j \in Jobs /\ Holds(e, j) /\ requests[j] < 2
  BY DEF Holds, StartedOnce, QueueAssumption, TypeOK
<1>2. table[j].status = "processing" /\ \A d \in Engines : Holds(d, j) => e = d
  BY <1>1 DEF HolderInv, HoldersHaveClaims
<1>3. \A d \in Engines : cur[d] = j => d = e
  BY <1>2 DEF Holds
<1> QED BY <1>2, <1>3 DEF StartedOnce

LEMMA DispatcherRerun ==
  ASSUME QueueAssumption, TypeOK, QueueInv, HolderInv, StartedOnce,
         NEW e \in Engines, DispatcherStep(e)
  PROVE  StartedOnce'
<1> USE DEF TypeOK
<1>0. requests' = requests /\ Once \subseteq Jobs
  BY DEF DispatcherStep, RecoverStale, FastForward, ClaimDue, TakeJob, FinishDrain, StartSucceeds,
         StartFails, Complete, Fail, historyVars, QueueAssumption
<1>1. CASE RecoverStale(e) \/ FastForward(e) \/ ClaimDue(e) \/ Fail(e)
  <2>1. exec' = exec
    BY <1>1 DEF RecoverStale, FastForward, ClaimDue, Fail, temporalVars
  <2>2. \A j \in Jobs : SameStanding(j)
    BY <1>1, StatementsKeepStanding
  <2>3. \A d \in Engines : pc[d] = "complete" => pc'[d] = "complete" /\ cur'[d] = cur[d]
    BY <1>1 DEF RecoverStale, FastForward, ClaimDue, Fail, Goto
  <2> QED BY <1>0, <2>1, <2>2, <2>3, QuietRerun DEF SameStanding
<1>2. CASE (\E j \in Jobs : TakeJob(e, j)) \/ FinishDrain(e) \/ StartFails(e)
  <2>1. UNCHANGED <<table, exec>>
    BY <1>2 DEF TakeJob, FinishDrain, StartFails, dbVars, temporalVars
  <2>2. \A d \in Engines : pc[d] = "complete" => pc'[d] = "complete" /\ cur'[d] = cur[d]
    BY <1>2 DEF TakeJob, FinishDrain, StartFails, Goto
  <2> QED BY <1>0, <2>1, <2>2, QuietRerun
<1>3. CASE StartSucceeds(e)
  <2>1. /\ pc[e] = "call" /\ pc' = [pc EXCEPT ![e] = "complete"] /\ UNCHANGED <<table, cur>>
        /\ exec' = [exec EXCEPT ![cur[e]] = "running"]
    BY <1>3 DEF StartSucceeds, Goto, Run, dbVars
  <2>2. \A d \in Engines : pc[d] = "complete" => pc'[d] = "complete"
    BY <2>1
  <2> SUFFICES ASSUME NEW j \in Once, exec'[j] # "none", table[j].status # "completed"
               PROVE  \E d \in Engines : pc'[d] = "complete" /\ cur[d] = j
    BY <1>0, <2>1 DEF StartedOnce
  <2>3. CASE j = cur[e]
    BY <2>1, <2>3
  <2>4. CASE j # cur[e]
    <3>1. exec[j] # "none"
      BY <1>0, <2>1, <2>4
    <3> QED BY <2>2, <3>1 DEF StartedOnce
  <2> QED BY <2>3, <2>4
<1>4. CASE Complete(e)
  <2>1. exec' = exec /\ pc' = [pc EXCEPT ![e] = "process"] /\ cur' = [cur EXCEPT ![e] = NoJob]
        /\ table' = [table EXCEPT ![cur[e]] = CompletedRow(@)] /\ pc[e] = "complete"
    BY <1>4 DEF Complete, Goto, temporalVars
  <2>2. \A j \in Jobs : j # cur[e] => table'[j] = table[j]
    BY <2>1
  <2>3. cur[e] \in Once => table'[cur[e]].status = "completed"
    <3> SUFFICES ASSUME cur[e] \in Once PROVE table'[cur[e]].status = "completed"
      OBVIOUS
    <3>1. cur[e] \in Jobs /\ Holds(e, cur[e]) /\ requests[cur[e]] < 2
      BY <1>0 DEF Holds, StartedOnce
    <3>2. table[cur[e]].status \in {"processing", "completed"} /\ table[cur[e]] \in Rows
      BY <3>1 DEF HolderInv, HoldersHaveClaims
    <3>3. table'[cur[e]] = CompletedRow(table[cur[e]])
      BY <2>1, <3>1
    <3> QED BY <3>2, <3>3 DEF CompletedRow, Rows
  <2>4. \A d \in Engines : d # e => pc'[d] = pc[d] /\ cur'[d] = cur[d]
    BY <2>1
  <2>5. /\ \A j \in Once : table[j].status = "completed" => table'[j].status = "completed"
        /\ \A j \in Once : table'[j].status = "absent" => table[j].status = "absent"
    BY <1>0, <2>2, <2>3
  <2>6. \A d \in Engines : \A j \in Once : pc[d] = "complete" /\ cur[d] = j =>
          (pc'[d] = "complete" /\ cur'[d] = j) \/ table'[j].status = "completed"
    BY <2>3, <2>4
  <2> QED BY <1>0, <2>1, <2>5, <2>6, QuietRerun
<1> QED BY <1>1, <1>2, <1>3, <1>4 DEF DispatcherStep

LEMMA EnvironmentRerun ==
  ASSUME QueueAssumption, TypeOK, StartedOnce, faults' = 0, faults = 0, [Next]_vars,
         \A j \in Jobs : ~Enqueue(j), \A e \in Engines : ~DispatcherStep(e)
  PROVE  StartedOnce'
<1> USE DEF TypeOK
<1>0. Once \subseteq Jobs
  BY DEF QueueAssumption
<1>1. CASE \E k \in Jobs : BecomesDue(k) \/ LockGoesStale(k) \/ WorkflowCloses(k)
  <2>1. PICK k \in Jobs : BecomesDue(k) \/ LockGoesStale(k) \/ WorkflowCloses(k)
    BY <1>1
  <2>2. /\ UNCHANGED <<pc, cur, requests>>
        /\ \A j \in Jobs : table'[j].status = table[j].status
        /\ \A j \in Jobs : exec'[j] = "none" <=> exec[j] = "none"
    <3>1. CASE BecomesDue(k) \/ LockGoesStale(k)
      <4>1. UNCHANGED <<pc, cur, requests, exec>>
        BY <3>1 DEF BecomesDue, LockGoesStale, engineVars, temporalVars, historyVars
      <4>2. \A j \in Jobs : table'[j].status = table[j].status
        <5>1. CASE BecomesDue(k)
          BY <5>1 DEF BecomesDue, Rows
        <5>2. CASE LockGoesStale(k)
          BY <5>2 DEF LockGoesStale, Rows
        <5> QED BY <3>1, <5>1, <5>2
      <4> QED BY <4>1, <4>2
    <3>2. CASE WorkflowCloses(k)
      BY <3>2 DEF WorkflowCloses, dbVars, engineVars, historyVars
    <3> QED BY <2>1, <3>1, <3>2
  <2> QED BY <1>0, <2>2, QuietRerun
<1>2. CASE \E e \in Engines : ReplyLost(e) \/ CompleteThrows(e) \/ DrainThrows(e) \/ Crash(e)
  BY <1>2 DEF ReplyLost, CompleteThrows, DrainThrows, Crash, Fault
<1>3. CASE \E e \in Engines : Restart(e)
  <2>1. PICK e \in Engines : Restart(e)
    BY <1>3
  <2>2. UNCHANGED <<table, exec, cur, requests>>
        /\ \A d \in Engines : pc[d] = "complete" => pc'[d] = "complete"
    BY <2>1 DEF Restart, Goto, dbVars, temporalVars, historyVars
  <2> QED BY <2>2, QuietRerun
<1>4. CASE TemporalGoesDown \/ TemporalComesUp \/ UNCHANGED vars
  <2>1. UNCHANGED <<table, pc, cur, requests, exec>>
    BY <1>4 DEF TemporalGoesDown, TemporalComesUp, vars, dbVars, engineVars, temporalVars,
                historyVars
  <2> QED BY <2>1, QuietRerun
<1> QED BY <1>1, <1>2, <1>3, <1>4 DEF Next

\* While drains end within the stale period, no notification is dispatched a second
\* time before the first fault: dispatchers that poll at once, retries after outages
\* and the recovery of claims never start one twice.
THEOREM RerunsNeedFaults == Spec => NoRerunWithoutFault
<1> DEFINE Inv == ~SlowDrains => HolderInv /\ (faults = 0 => StartedOnce)
<1>1. Init => Inv
  BY QueueAssumption DEF Init, HolderInv, Empties, HoldersHaveClaims, RowsAreAskedFor, Holds,
     NoRow, StartedOnce
<1>2. TypeOK /\ QueueInv /\ Inv /\ [Next]_vars => Inv'
  <2> SUFFICES ASSUME TypeOK, QueueInv, Inv, [Next]_vars, ~SlowDrains
               PROVE  HolderInv' /\ (faults' = 0 => StartedOnce')
    OBVIOUS
  <2>1. HolderInv'
    BY QueueAssumption, EnqueueHolder, DispatcherHolder, EnvironmentHolder
  <2>2. faults' = 0 => faults = 0
    <3>1. faults' = faults \/ faults' = faults + 1
      BY DEF Next, Enqueue, InsertNotification, InsertEntityJob, UpsertEntityJob, DispatcherStep,
             RecoverStale, FastForward, ClaimDue, TakeJob, FinishDrain, StartSucceeds, StartFails,
             Complete, Fail, ReplyLost, CompleteThrows, DrainThrows, Crash, Restart, Fault,
             BecomesDue, LockGoesStale, WorkflowCloses, TemporalGoesDown, TemporalComesUp,
             boundVars, vars
    <3> QED BY <3>1 DEF TypeOK
  <2> QED BY <2>1, <2>2, QueueAssumption, EnqueueRerun, DispatcherRerun, EnvironmentRerun
<1>3. TypeOK /\ QueueInv /\ Inv /\ [Next]_vars =>
        [\A j \in Once : exec[j] = "closed" /\ exec'[j] = "running" => SlowDrains \/ faults > 0]_vars
  <2> SUFFICES ASSUME TypeOK, QueueInv, Inv, Next, ~SlowDrains, faults = 0,
                      NEW j \in Once, exec[j] = "closed", exec'[j] = "running"
               PROVE  FALSE
    BY DEF TypeOK
  <2>1. j \in Jobs /\ exec'[j] # exec[j]
    BY QueueAssumption
  <2>2. PICK e \in Engines : pc[e] = "call" /\ Run(cur[e])
    <3>1. CASE \E e \in Engines : StartSucceeds(e) \/ ReplyLost(e)
      BY <3>1 DEF StartSucceeds, ReplyLost, Goto
    <3>2. CASE \E k \in Jobs : WorkflowCloses(k)
      BY <2>1, <3>2 DEF WorkflowCloses, TypeOK
    <3>3. CASE ~(\E e \in Engines : StartSucceeds(e) \/ ReplyLost(e))
               /\ ~(\E k \in Jobs : WorkflowCloses(k))
      <4>1. exec' = exec
        BY <3>3 DEF Next, Enqueue, InsertNotification, InsertEntityJob, UpsertEntityJob,
               DispatcherStep, RecoverStale, FastForward, ClaimDue, TakeJob, FinishDrain,
               StartFails, Complete, Fail, CompleteThrows, DrainThrows, Crash, Restart,
               BecomesDue, LockGoesStale, TemporalGoesDown, TemporalComesUp, temporalVars
      <4> QED BY <2>1, <4>1
    <3> QED BY <3>1, <3>2, <3>3
  <2>3. j = cur[e]
    BY <2>1, <2>2 DEF Run, TypeOK
  <2> QED BY <2>2, <2>3, QueueAssumption, FirstStart
<1> QED BY <1>1, <1>2, <1>3, TypeCorrect, QueueInvariant, PTL DEF Spec, NoRerunWithoutFault

-----------------------------------------------------------------------------
(***************************************************************************)
(* Refinement.                                                             *)
(***************************************************************************)

\* A step that changes no row's standing and starts nothing is a stutter.
LEMMA StutterPhase ==
  ASSUME \A j \in Jobs : SameStanding(j),
         \A j \in Jobs : exec'[j] = "none" <=> exec[j] = "none"
  PROVE  UNCHANGED [j \in Jobs |-> Phase(j)]
<1>1. \A j \in Jobs : Phase(j)' = Phase(j)
  BY DEF Phase, SameStanding
<1> QED BY <1>1

\* A step that moves one job forward by one phase is a step of the outbox.
LEMMA MovePhase ==
  ASSUME NEW k \in Jobs,
         \A j \in Jobs : j # k => Phase(j)' = Phase(j),
         \/ Phase(k) = "idle" /\ Phase(k)' = "asked"
         \/ Phase(k) = "asked" /\ Phase(k)' = "started"
         \/ Phase(k) = "started" /\ Phase(k)' = "done"
  PROVE  Outbox!Next
<1> DEFINE phase == [j \in Jobs |-> Phase(j)]
<1>1. /\ phase[k] = Phase(k)
      /\ phase' = [phase EXCEPT ![k] = Phase(k)']
  OBVIOUS
<1> QED BY <1>1 DEF Outbox!Next, Outbox!Ask, Outbox!Start, Outbox!Confirm, Outbox!Move

\* Temporal accepting a start moves the job on, or repeats an earlier start.
LEMMA RunPhase ==
  ASSUME TypeOK, QueueInv, NEW e \in Engines, pc[e] = "call", Run(cur[e]), table' = table
  PROVE  Outbox!Next \/ UNCHANGED [j \in Jobs |-> Phase(j)]
<1>1. PICK k \in Jobs : k = cur[e]
  BY DEF QueueInv, ClaimsAreRows
<1>2. /\ table[k].status # "absent"
      /\ table[k].status = "completed" => exec[k] # "none"
  BY <1>1 DEF QueueInv, ClaimsAreRows, Holds, CompletedMeansStarted
<1>3. /\ exec'[k] = "running" /\ \A j \in Jobs : j # k => exec'[j] = exec[j]
  BY <1>1 DEF Run, TypeOK
<1>4. \A j \in Jobs : j # k => Phase(j)' = Phase(j)
  BY <1>3 DEF Phase
<1>5. CASE exec[k] = "none"
  <2>1. Phase(k) = "asked" /\ Phase(k)' = "started"
    BY <1>2, <1>3, <1>5 DEF Phase
  <2> QED BY <1>4, <2>1, MovePhase
<1>6. CASE exec[k] # "none"
  BY <1>3, <1>6, StutterPhase DEF SameStanding
<1> QED BY <1>5, <1>6

\* Marking a job completed confirms its start, or repeats the confirmation.
LEMMA CompletePhase ==
  ASSUME TypeOK, QueueInv, NEW e \in Engines, pc[e] = "complete", exec' = exec,
         table' = [table EXCEPT ![cur[e]] = CompletedRow(@)]
  PROVE  Outbox!Next \/ UNCHANGED [j \in Jobs |-> Phase(j)]
<1>1. PICK k \in Jobs : k = cur[e]
  BY CompleteStanding
<1>2. /\ exec[k] # "none" /\ table[k].status # "absent" /\ table'[k].status # "absent"
      /\ table[k].status = "completed" => table'[k].status = "completed"
      /\ \A j \in Jobs : j # k => table'[j] = table[j]
  BY <1>1, CompleteStanding
<1>3. CASE table[k].status # "completed" /\ table'[k].status = "completed"
  <2>1. Phase(k) = "started" /\ Phase(k)' = "done"
    BY <1>2, <1>3 DEF Phase
  <2>2. \A j \in Jobs : j # k => Phase(j)' = Phase(j)
    BY <1>2 DEF Phase
  <2> QED BY <2>1, <2>2, MovePhase
<1>4. CASE ~(table[k].status # "completed" /\ table'[k].status = "completed")
  <2>1. \A j \in Jobs : SameStanding(j)
    BY <1>2, <1>4 DEF SameStanding
  <2> QED BY <2>1, StutterPhase
<1> QED BY <1>3, <1>4

LEMMA DispatcherPhase ==
  ASSUME TypeOK, QueueInv, NEW e \in Engines, DispatcherStep(e)
  PROVE  Outbox!Next \/ UNCHANGED [j \in Jobs |-> Phase(j)]
<1>1. CASE RecoverStale(e) \/ FastForward(e) \/ ClaimDue(e) \/ Fail(e)
  <2>1. exec' = exec
    BY <1>1 DEF RecoverStale, FastForward, ClaimDue, Fail, temporalVars
  <2> QED BY <1>1, <2>1, StatementsKeepStanding, StutterPhase
<1>2. CASE (\E j \in Jobs : TakeJob(e, j)) \/ FinishDrain(e) \/ StartFails(e)
  <2>1. UNCHANGED <<table, exec>>
    BY <1>2 DEF TakeJob, FinishDrain, StartFails, dbVars, temporalVars
  <2> QED BY <2>1, StutterPhase DEF SameStanding
<1>3. CASE StartSucceeds(e)
  BY <1>3, RunPhase DEF StartSucceeds, Goto, dbVars
<1>4. CASE Complete(e)
  <2>1. exec' = exec /\ pc[e] = "complete" /\ table' = [table EXCEPT ![cur[e]] = CompletedRow(@)]
    BY <1>4 DEF Complete, Goto, temporalVars
  <2> QED BY <2>1, CompletePhase
<1> QED BY <1>1, <1>2, <1>3, <1>4 DEF DispatcherStep

LEMMA EnqueuePhase ==
  ASSUME TypeOK, QueueInv, NEW k \in Jobs, Enqueue(k)
  PROVE  Outbox!Next \/ UNCHANGED [j \in Jobs |-> Phase(j)]
<1>0. table \in [Jobs -> Rows] /\ exec' = exec
  BY DEF TypeOK, Enqueue, InsertNotification, InsertEntityJob, UpsertEntityJob, temporalVars
<1>1. CASE table[k].status = "absent"
  <2>1. table' = [table EXCEPT ![k] = InsertedRow]
    BY <1>1 DEF Enqueue, InsertNotification, InsertEntityJob, UpsertEntityJob
  <2>2. exec[k] = "none"
    BY <1>1 DEF QueueInv, UnaskedIsIdle
  <2>3. Phase(k) = "idle" /\ Phase(k)' = "asked"
    BY <1>0, <1>1, <2>1, <2>2 DEF Phase, InsertedRow
  <2>4. \A j \in Jobs : j # k => Phase(j)' = Phase(j)
    BY <1>0, <2>1 DEF Phase
  <2> QED BY <2>3, <2>4, MovePhase
<1>2. CASE table[k].status # "absent"
  <2>1. table' = [table EXCEPT ![k] = UpsertedRow(@)]
    BY <1>2 DEF Enqueue, InsertNotification, InsertEntityJob, UpsertEntityJob
  <2>2. \A j \in Jobs : SameStanding(j)
    BY <1>0, <1>2, <2>1 DEF SameStanding, UpsertedRow, InsertedRow
  <2> QED BY <1>0, <2>2, StutterPhase
<1> QED BY <1>1, <1>2

\* The queue implements the outbox: an observer who sees only whether a job was
\* asked for, started and done never sees one done before it was started, nor
\* one go back, whatever dispatchers, faults and outages do.
THEOREM ImplementsOutbox == Spec => OutboxSafety
<1>1. Init => Outbox!Init
  BY DEF Init, Outbox!Init, Phase, NoRow
<1>2. ASSUME TypeOK, QueueInv, [Next]_vars
      PROVE  Outbox!Next \/ UNCHANGED [j \in Jobs |-> Phase(j)]
  <2> USE <1>2
  <2>1. CASE \E k \in Jobs : Enqueue(k)
    BY <2>1, EnqueuePhase
  <2>2. CASE \E e \in Engines : DispatcherStep(e)
    BY <2>2, DispatcherPhase
  <2>3. CASE \E e \in Engines : ReplyLost(e)
    BY <2>3, RunPhase DEF ReplyLost, Goto, dbVars
  <2>4. CASE \E k \in Jobs : BecomesDue(k) \/ LockGoesStale(k)
    <3>1. \A j \in Jobs : SameStanding(j)
      <4>1. ASSUME NEW k \in Jobs, BecomesDue(k) PROVE \A j \in Jobs : SameStanding(j)
        BY <4>1 DEF BecomesDue, SameStanding, TypeOK, Rows
      <4>2. ASSUME NEW k \in Jobs, LockGoesStale(k) PROVE \A j \in Jobs : SameStanding(j)
        BY <4>2 DEF LockGoesStale, SameStanding, TypeOK, Rows
      <4> QED BY <2>4, <4>1, <4>2
    <3>2. exec' = exec
      BY <2>4 DEF BecomesDue, LockGoesStale, temporalVars
    <3> QED BY <3>1, <3>2, StutterPhase
  <2>5. CASE \E k \in Jobs : WorkflowCloses(k)
    <3>1. table' = table /\ \A j \in Jobs : exec'[j] = "none" <=> exec[j] = "none"
      BY <2>5 DEF WorkflowCloses, dbVars, TypeOK
    <3> QED BY <3>1, StutterPhase DEF SameStanding
  <2>6. CASE \/ \E e \in Engines : DrainThrows(e) \/ Crash(e) \/ Restart(e)
             \/ TemporalGoesDown \/ TemporalComesUp \/ UNCHANGED vars
    <3>1. UNCHANGED <<table, exec>>
      BY <2>6 DEF DrainThrows, Crash, Restart, TemporalGoesDown,
                  TemporalComesUp, vars, dbVars, temporalVars
    <3> QED BY <3>1, StutterPhase DEF SameStanding
  <2>7. CASE \E e \in Engines : CompleteThrows(e)
    <3>1. PICK e \in Engines : CompleteThrows(e)
      BY <2>7
    <3>2. pc[e] = "complete" /\ exec' = exec
      BY <3>1 DEF CompleteThrows, Goto, temporalVars
    <3>3. CASE UNCHANGED table
      BY <3>2, <3>3, StutterPhase DEF SameStanding
    <3>4. CASE table' = [table EXCEPT ![cur[e]] = CompletedRow(@)]
      BY <3>2, <3>4, CompletePhase
    <3> QED BY <3>1, <3>3, <3>4 DEF CompleteThrows
  <2> QED BY <2>1, <2>2, <2>3, <2>4, <2>5, <2>6, <2>7 DEF Next
<1>3. TypeOK /\ QueueInv /\ [Next]_vars => [Outbox!Next]_[j \in Jobs |-> Phase(j)]
  BY <1>2
<1> QED BY <1>1, <1>3, TypeCorrect, QueueInvariant, PTL
        DEF Spec, OutboxSafety, Outbox!SafeSpec
=============================================================================
