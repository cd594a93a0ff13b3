-------------------------- MODULE WorkflowStartQueue --------------------------
(***************************************************************************)
(* The durable queue through which nova-engine starts Temporal workflows:  *)
(* request handlers write rows to workflow_start_jobs, and every engine    *)
(* replica runs a dispatcher that claims due rows, calls Temporal and      *)
(* records the outcome.  Each await of drainWorkflowStartQueue is a step   *)
(* of its own, so dispatchers, request handlers, Temporal and crashes      *)
(* interleave between any two database statements.                         *)
(*                                                                         *)
(* datasource_schedule_start jobs, whose upsert and processing differ, are *)
(* not among Jobs.                                                         *)
(***************************************************************************)
EXTENDS JobTable, Naturals, FiniteSets

CONSTANTS
  Jobs,        \* keys (tenant_id, job_type, workflow_id) that may be enqueued
  Once,        \* notification jobs: their random workflow_id is used once
  Rejected,    \* jobs whose payload the validator of processJob refuses
  Engines,     \* nova-engine replicas
  NoJob,       \* not a job
  BatchSize,   \* DEFAULT_BATCH_SIZE
  SlowDrains,  \* may a live drain outlast STALE_PROCESSING_MINUTES?
  MaxRequests, \* bound: enqueues per job
  MaxFaults,   \* bound: crashes, lost replies and failed SQL statements
  MaxOutages   \* bound: times Temporal becomes unreachable

ASSUME QueueAssumption ==
  /\ Once \subseteq Jobs
  /\ Rejected \subseteq Jobs
  /\ NoJob \notin Jobs
  /\ BatchSize \in Nat \ {0}
  /\ SlowDrains \in BOOLEAN
  /\ MaxRequests \in Nat
  /\ MaxFaults \in Nat
  /\ MaxOutages \in Nat

VARIABLES
  table,      \* the row of each job
  createdAt,  \* created_at as an insertion rank; 0 for no row
  inserted,   \* number of rows ever inserted
  pc,         \* where each engine's dispatcher is in its drain
  batch,      \* claimed jobs the drain has not reached yet
  cur,        \* the job processJob is working on
  conn,       \* does the caught error read like a connectivity failure?
  up,         \* can Temporal be reached?
  exec,       \* the workflow execution under the job's workflow_id
  requests,   \* history: enqueues of each job
  owed,       \* history: the last enqueue has not led to a running workflow
  faults, outages

dbVars       == <<table, createdAt, inserted>>
engineVars   == <<pc, batch, cur, conn>>
temporalVars == <<up, exec>>
historyVars  == <<requests, owed>>
boundVars    == <<faults, outages>>
vars == <<dbVars, engineVars, temporalVars, historyVars, boundVars>>

PCs == {"down", "idle", "health", "claim", "process", "call", "complete", "fail"}
Executions == {"none", "running", "closed"}

TypeOK ==
  /\ table \in [Jobs -> Rows]
  /\ createdAt \in [Jobs -> Nat]
  /\ inserted \in Nat
  /\ pc \in [Engines -> PCs]
  /\ batch \in [Engines -> SUBSET Jobs]
  /\ cur \in [Engines -> Jobs \cup {NoJob}]
  /\ conn \in [Engines -> BOOLEAN]
  /\ up \in BOOLEAN
  /\ exec \in [Jobs -> Executions]
  /\ requests \in [Jobs -> Nat]
  /\ owed \in [Jobs -> BOOLEAN]
  /\ faults \in Nat
  /\ outages \in Nat

Init ==
  /\ table = [j \in Jobs |-> NoRow]
  /\ createdAt = [j \in Jobs |-> 0]
  /\ inserted = 0
  /\ pc = [e \in Engines |-> "idle"]
  /\ batch = [e \in Engines |-> {}]
  /\ cur = [e \in Engines |-> NoJob]
  /\ conn = [e \in Engines |-> FALSE]
  /\ up = TRUE
  /\ exec = [j \in Jobs |-> "none"]
  /\ requests = [j \in Jobs |-> 0]
  /\ owed = [j \in Jobs |-> FALSE]
  /\ faults = 0
  /\ outages = 0

Holds(e, j) == j \in batch[e] \/ cur[e] = j

-----------------------------------------------------------------------------
(***************************************************************************)
(* Request handlers.                                                       *)
(***************************************************************************)

Request(j) ==
  /\ requests[j] < MaxRequests
  /\ requests' = [requests EXCEPT ![j] = @ + 1]
  /\ owed' = [owed EXCEPT ![j] = (exec[j] # "running")]

\* A plain INSERT under a workflow id made from the time and a random number.
InsertNotification(j) ==
  /\ j \in Once
  /\ table[j].status = "absent"
  /\ Request(j)
  /\ table' = [table EXCEPT ![j] = InsertedRow]
  /\ createdAt' = [createdAt EXCEPT ![j] = inserted + 1]
  /\ inserted' = inserted + 1
  /\ UNCHANGED <<engineVars, temporalVars, boundVars>>

\* The other enqueue functions: an upsert under a workflow id that names the
\* entity, so the same key comes back when the entity needs its workflow again.
InsertEntityJob(j) ==
  /\ j \notin Once
  /\ table[j].status = "absent"
  /\ Request(j)
  /\ table' = [table EXCEPT ![j] = InsertedRow]
  /\ createdAt' = [createdAt EXCEPT ![j] = inserted + 1]
  /\ inserted' = inserted + 1
  /\ UNCHANGED <<engineVars, temporalVars, boundVars>>

UpsertEntityJob(j) ==
  /\ j \notin Once
  /\ table[j].status # "absent"
  /\ Request(j)
  /\ table' = [table EXCEPT ![j] = UpsertedRow(@)]
  /\ UNCHANGED <<createdAt, inserted, engineVars, temporalVars, boundVars>>

Enqueue(j) == InsertNotification(j) \/ InsertEntityJob(j) \/ UpsertEntityJob(j)

-----------------------------------------------------------------------------
(***************************************************************************)
(* The dispatcher of one engine: drainWorkflowStartQueue.                  *)
(***************************************************************************)

Goto(e, from, to) == pc[e] = from /\ pc' = [pc EXCEPT ![e] = to]

\* The timer fires while no drain is running; stale claims are taken back.
RecoverStale(e) ==
  /\ Goto(e, "idle", "health")
  /\ table' = [j \in Jobs |-> RecoveredRow(table[j])]
  /\ UNCHANGED <<createdAt, inserted, batch, cur, conn, temporalVars,
                 historyVars, boundVars>>

\* Retries that wait after a connectivity failure are due once Temporal is back.
\* The health check has a deadline of its own and its answer may be out of date
\* when the UPDATE runs, so either answer is possible at any time.
FastForward(e) ==
  /\ Goto(e, "health", "claim")
  /\ \/ table' = [j \in Jobs |-> FastForwardedRow(table[j])]
     \/ UNCHANGED table
  /\ UNCHANGED <<createdAt, inserted, batch, cur, conn, temporalVars,
                 historyVars, boundVars>>

DueJobs == {j \in Jobs : IsDue(table[j])}

\* S is what ORDER BY created_at ASC LIMIT BatchSize selects.
OldestDue(S) ==
  /\ Cardinality(S) <= BatchSize
  /\ S = DueJobs \/ Cardinality(S) = BatchSize
  /\ \A j \in S, k \in DueJobs \ S : createdAt[j] < createdAt[k]

ClaimDue(e) ==
  \E S \in SUBSET DueJobs :
    /\ OldestDue(S)
    /\ Goto(e, "claim", IF S = {} THEN "idle" ELSE "process")
    /\ batch' = [batch EXCEPT ![e] = S]
    /\ table' = [j \in Jobs |-> IF j \in S THEN ClaimedRow(table[j]) ELSE table[j]]
    /\ UNCHANGED <<createdAt, inserted, cur, conn, temporalVars, historyVars,
                   boundVars>>

\* Mutant: the row is marked completed before Temporal is called.
TakeJobMarksFirst(e, j) ==
  /\ j \in batch[e]
  /\ Goto(e, "process", "complete")
  /\ batch' = [batch EXCEPT ![e] = @ \ {j}]
  /\ cur' = [cur EXCEPT ![e] = j]
  /\ conn' = [conn EXCEPT ![e] = FALSE]
  /\ UNCHANGED <<dbVars, temporalVars, historyVars, boundVars>>

\* processJob begins: the payload is validated, then Temporal is called.
TakeJob(e, j) ==
  /\ j \in batch[e]
  /\ Goto(e, "process", IF j \in Rejected THEN "fail" ELSE "call")
  /\ batch' = [batch EXCEPT ![e] = @ \ {j}]
  /\ cur' = [cur EXCEPT ![e] = j]
  /\ conn' = [conn EXCEPT ![e] = FALSE]
  /\ UNCHANGED <<dbVars, temporalVars, historyVars, boundVars>>

FinishDrain(e) ==
  /\ batch[e] = {}
  /\ Goto(e, "process", "idle")
  /\ UNCHANGED <<dbVars, batch, cur, conn, temporalVars, historyVars, boundVars>>

\* Temporal runs at most one execution per workflow id; the start functions
\* take "already started" for success.
Run(j) ==
  /\ exec' = [exec EXCEPT ![j] = "running"]
  /\ owed' = [owed EXCEPT ![j] = FALSE]

StartSucceeds(e) ==
  /\ up
  /\ Goto(e, "call", "complete")
  /\ Run(cur[e])
  /\ UNCHANGED <<dbVars, batch, cur, conn, up, requests, boundVars>>

\* Mutant: the start function swallows the error, as the cancel functions do.
StartFailsSwallowed(e) ==
  /\ ~up
  /\ Goto(e, "call", "complete")
  /\ conn' = [conn EXCEPT ![e] = TRUE]
  /\ UNCHANGED <<dbVars, batch, cur, temporalVars, historyVars, boundVars>>

StartFails(e) ==
  /\ ~up
  /\ Goto(e, "call", "fail")
  /\ conn' = [conn EXCEPT ![e] = TRUE]
  /\ UNCHANGED <<dbVars, batch, cur, temporalVars, historyVars, boundVars>>

\* markJobCompleted.
Complete(e) ==
  /\ Goto(e, "complete", "process")
  /\ table' = [table EXCEPT ![cur[e]] = CompletedRow(@)]
  /\ cur' = [cur EXCEPT ![e] = NoJob]
  /\ UNCHANGED <<createdAt, inserted, batch, conn, temporalVars, historyVars,
                 boundVars>>

\* markJobFailed.
Fail(e) ==
  /\ Goto(e, "fail", "process")
  /\ table' = [table EXCEPT ![cur[e]] = FailedRow(@, conn[e])]
  /\ cur' = [cur EXCEPT ![e] = NoJob]
  /\ UNCHANGED <<createdAt, inserted, batch, conn, temporalVars, historyVars,
                 boundVars>>

DispatcherStep(e) ==
  \/ RecoverStale(e)
  \/ FastForward(e)
  \/ ClaimDue(e)
  \/ \E j \in Jobs : TakeJob(e, j)
  \/ FinishDrain(e)
  \/ StartSucceeds(e)
  \/ StartFails(e)
  \/ Complete(e)
  \/ Fail(e)

-----------------------------------------------------------------------------
(***************************************************************************)
(* Faults, each of which spends one of MaxFaults.                          *)
(***************************************************************************)

Fault == faults < MaxFaults /\ faults' = faults + 1 /\ UNCHANGED outages

\* Temporal started the workflow but the engine sees the call fail.
ReplyLost(e) ==
  /\ Fault
  /\ up
  /\ Goto(e, "call", "fail")
  /\ Run(cur[e])
  /\ conn' = [conn EXCEPT ![e] = TRUE]
  /\ UNCHANGED <<dbVars, batch, cur, up, requests>>

\* markJobCompleted throws inside processJob's try, before or after its UPDATE has
\* committed: the catch marks failure.
CompleteThrows(e) ==
  /\ Fault
  /\ Goto(e, "complete", "fail")
  /\ \/ UNCHANGED table
     \/ table' = [table EXCEPT ![cur[e]] = CompletedRow(@)]
  /\ \E c \in BOOLEAN : conn' = [conn EXCEPT ![e] = c]
  /\ UNCHANGED <<createdAt, inserted, batch, cur, temporalVars, historyVars>>

\* A statement outside that try throws: the drain is abandoned with its claims.
DrainThrows(e) ==
  /\ Fault
  /\ pc[e] \in {"health", "claim", "fail"}
  /\ pc' = [pc EXCEPT ![e] = "idle"]
  /\ batch' = [batch EXCEPT ![e] = {}]
  /\ cur' = [cur EXCEPT ![e] = NoJob]
  /\ UNCHANGED <<dbVars, conn, temporalVars, historyVars>>

Crash(e) ==
  /\ Fault
  /\ pc[e] # "down"
  /\ pc' = [pc EXCEPT ![e] = "down"]
  /\ batch' = [batch EXCEPT ![e] = {}]
  /\ cur' = [cur EXCEPT ![e] = NoJob]
  /\ UNCHANGED <<dbVars, conn, temporalVars, historyVars>>

\* startWorkflowStartQueueDispatcher, which drains at once.
Restart(e) ==
  /\ Goto(e, "down", "idle")
  /\ UNCHANGED <<dbVars, batch, cur, conn, temporalVars, historyVars, boundVars>>

-----------------------------------------------------------------------------
(***************************************************************************)
(* Time and Temporal.                                                      *)
(***************************************************************************)

\* next_attempt_at passes.
BecomesDue(j) ==
  /\ table[j].status = "pending" /\ ~table[j].due
  /\ table' = [table EXCEPT ![j].due = TRUE]
  /\ UNCHANGED <<createdAt, inserted, engineVars, temporalVars, historyVars,
                 boundVars>>

\* STALE_PROCESSING_MINUTES pass since the claim.
LockGoesStale(j) ==
  /\ table[j].status = "processing" /\ table[j].lock = "fresh"
  /\ SlowDrains \/ \A e \in Engines : ~Holds(e, j)
  /\ table' = [table EXCEPT ![j].lock = "stale"]
  /\ UNCHANGED <<createdAt, inserted, engineVars, temporalVars, historyVars,
                 boundVars>>

\* The workflow returns, is cancelled or times out.
WorkflowCloses(j) ==
  /\ exec[j] = "running"
  /\ exec' = [exec EXCEPT ![j] = "closed"]
  /\ UNCHANGED <<dbVars, engineVars, up, historyVars, boundVars>>

TemporalGoesDown ==
  /\ up /\ outages < MaxOutages
  /\ up' = FALSE
  /\ outages' = outages + 1
  /\ UNCHANGED <<dbVars, engineVars, exec, historyVars, faults>>

TemporalComesUp ==
  /\ ~up
  /\ up' = TRUE
  /\ UNCHANGED <<dbVars, engineVars, exec, historyVars, boundVars>>

Next ==
  \/ \E j \in Jobs : Enqueue(j) \/ BecomesDue(j) \/ LockGoesStale(j) \/ WorkflowCloses(j)
  \/ \E e \in Engines :
       \/ DispatcherStep(e)
       \/ ReplyLost(e) \/ CompleteThrows(e) \/ DrainThrows(e)
       \/ Crash(e) \/ Restart(e)
  \/ TemporalGoesDown
  \/ TemporalComesUp

Spec == Init /\ [][Next]_vars

\* setInterval keeps polling, processes are restarted, clocks advance and an
\* outage ends.  Nothing obliges a user to enqueue or a workflow to close.
Fairness ==
  /\ \A e \in Engines : WF_vars(DispatcherStep(e)) /\ WF_vars(Restart(e))
  /\ \A j \in Jobs : WF_vars(BecomesDue(j)) /\ WF_vars(LockGoesStale(j))
  /\ WF_vars(TemporalComesUp)

FairSpec == Spec /\ Fairness

-----------------------------------------------------------------------------
(***************************************************************************)
(* What the queue promises.                                                *)
(***************************************************************************)

\* A completed row means Temporal accepted the start at least once, however
\* late, twice-claimed or orphaned the dispatcher that marked it: only a
\* dispatcher past its own successful start may mark the row.
CompletedMeansStarted ==
  \A j \in Jobs : table[j].status = "completed" => exec[j] # "none"

\* Of the jobs that are enqueued once, a request whose workflow has not run
\* yet always still has an open row: no failure, crash, stale claim or second
\* dispatcher makes the queue forget it.
NoLostRequest ==
  \A j \in Once : owed[j] => table[j].status \in {"pending", "processing"}

\* Completed is final: the late markJobFailed of a dispatcher whose claim was
\* taken away, stale recovery and a repeated enqueue all leave the row alone.
CompletedIsFinal ==
  [][\A j \in Jobs : table[j].status = "completed" => table'[j] = table[j]]_vars

\* When drains finish within the stale period, a notification is dispatched a
\* second time only after a fault: dispatchers that poll concurrently, retries
\* after outages and recovery never start a workflow twice by themselves.
NoRerunWithoutFault ==
  [][\A j \in Once :
        exec[j] = "closed" /\ exec'[j] = "running" => SlowDrains \/ faults > 0]_vars

\* Two live dispatchers hold the same job only when a drain may outlast the
\* stale period or the job was enqueued again while it was claimed.
OneHolder ==
  ~SlowDrains =>
    \A j \in Jobs : \A d, e \in Engines :
      Holds(d, j) /\ Holds(e, j) /\ requests[j] < 2 => d = e

\* A first request that passes validation gets a running workflow.
FirstRequestsAreServed ==
  \A j \in Jobs \ Rejected : owed[j] /\ requests[j] = 1 ~> ~owed[j]

-----------------------------------------------------------------------------
(***************************************************************************)
(* The inductive invariant behind the safety theorems.                     *)
(***************************************************************************)

\* A dispatcher holds only rows that exist, and works on a job when it should.
ClaimsAreRows ==
  /\ \A e \in Engines : \A j \in Jobs : Holds(e, j) => table[j].status # "absent"
  /\ \A e \in Engines : pc[e] \in {"call", "complete", "fail"} => cur[e] \in Jobs

\* A dispatcher about to mark a job completed has seen its workflow start, and
\* a job that is enqueued once cannot have been asked for again since.
CompletesAfterStart ==
  \A e \in Engines : pc[e] = "complete" =>
    exec[cur[e]] # "none" /\ (cur[e] \in Once => owed[cur[e]] = FALSE)

\* Nothing is started or owed before it is asked for.
UnaskedIsIdle ==
  \A j \in Jobs : table[j].status = "absent" => exec[j] = "none" /\ owed[j] = FALSE

CompletedOnceIsServed ==
  \A j \in Once : table[j].status = "completed" => owed[j] = FALSE

\* The conjunction is inductive together with TypeOK: it survives every crash,
\* lost reply, stale claim and doubled dispatcher.
QueueInv ==
  /\ ClaimsAreRows
  /\ CompletesAfterStart
  /\ UnaskedIsIdle
  /\ CompletedMeansStarted
  /\ CompletedOnceIsServed

-----------------------------------------------------------------------------
(***************************************************************************)
(* Refinement: the queue implements the outbox its users rely on.          *)
(***************************************************************************)

Phase(j) ==
  CASE table[j].status = "completed" -> "done"
    [] table[j].status # "completed" /\ exec[j] # "none" -> "started"
    [] table[j].status # "completed" /\ exec[j] = "none" ->
         IF table[j].status = "absent" THEN "idle" ELSE "asked"

Outbox == INSTANCE WorkflowOutbox WITH phase <- [j \in Jobs |-> Phase(j)]

\* Whatever the dispatchers, faults and outages do, a job is started before it
\* is done and never goes back a phase.
OutboxSafety == Outbox!SafeSpec

\* With fair dispatchers every job that is asked for is started and done.
OutboxService == Outbox!Spec
=============================================================================
