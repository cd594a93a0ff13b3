------------------------- MODULE CatalogFulfillment -------------------------
(***************************************************************************)
(* One catalog request: the fulfillment workflow, its activities on the    *)
(* tables requests and request_tasks, and the people who answer its tasks. *)
(*                                                                         *)
(* The workflow itself is durable; each activity is one step.  Most        *)
(* activities write the same rows however often they are retried, and are  *)
(* taken to succeed.  createRequestTasks and executeAutomatedCatalogTask   *)
(* do not: their statements commit one by one, and an attempt may be cut   *)
(* short, or its result lost, after some or all of them.                   *)
(*                                                                         *)
(* An automation is a sequence of gates at which it may pause for a child  *)
(* task, and may end at any time.  Left out: what it does between the      *)
(* gates, manual tasks that are not waited for, the minute of grace when   *)
(* rows are still open at the end of a group, attempts that overlap their  *)
(* retry, a third createRequestTasks, and an item without tasks, whose     *)
(* workflow ends with the request in progress.  Left out, too, is          *)
(* POST /:id/approve, which writes requests.status past the workflow:      *)
(* nothing in the code keeps it from a request that has tasks and waits    *)
(* for an approval.                                                        *)
(***************************************************************************)
EXTENDS Integers, Sequences, FiniteSets

CONSTANTS
  Tasks,     \* the task definitions of the service item
  Order,     \* their task_order
  Kind,      \* "approval", "manual", or "flow": an automation that runs by itself
  Gates,     \* the pauses of each automation, in order
  Unmanaged, \* the approvals for which there is no manager
  LastOrder, \* the orders are 1..LastOrder
  MaxGate,   \* no automation has more pauses
  Users,     \* people answering tasks at the same time
  MaxFaults  \* bound: attempts and requests that are cut short

Copies   == 1..2
MaxTries == 2  \* maximumAttempts of executeAutomatedCatalogTask

ASSUME CatalogAssumption ==
  /\ LastOrder \in Nat \ {0} /\ MaxGate \in Nat
  /\ Order \in [Tasks -> 1..LastOrder]
  /\ \A o \in 1..LastOrder : \E t \in Tasks : Order[t] = o
  /\ Kind \in [Tasks -> {"approval", "manual", "flow"}]
  /\ \A t \in Tasks : Gates[t] \in Seq({"approval", "manual"}) /\ Len(Gates[t]) <= MaxGate
  /\ Unmanaged \subseteq {t \in Tasks : Kind[t] = "approval"}
  /\ MaxFaults \in Nat

\* gate 0: the task itself; otherwise the child task of that gate.  A retry
\* after a lost attempt creates a second copy.
Ids == [task : Tasks, gate : 0..MaxGate, copy : Copies]

Top(t, c)      == [task |-> t, gate |-> 0, copy |-> c]
Child(t, g, c) == [task |-> t, gate |-> g, copy |-> c]

KindOf(id) == IF id.gate = 0 THEN Kind[id.task] ELSE Gates[id.task][id.gate]

Open       == {"pending", "in_progress"}
TaskStatus == Open \cup {"absent", "completed", "skipped", "rejected", "failed",
                         "cancelled"}
Outcomes   == {"approved", "rejected", "completed", "skipped", "cancelled"}

RequestStatus == {"submitted", "pending_approval", "in_progress", "fulfilled",
                  "rejected", "cancelled"}
Decided == {"fulfilled", "rejected", "cancelled"}

Results == {"ok", "failed", "reject", "skip"}

VARIABLES
  request,   \* requests.status
  row,       \* request_tasks: status and the gate automation_checkpoint is at
  pc,        \* where the workflow is
  group,     \* the task_order it works on
  mine,      \* the copy of the tasks that createRequestTasks returned
  runs,      \* runAutomated, for each automation of the group
  todo,      \* what the workflow waits for, then what it has still to process
  sig,       \* completedTasks
  cancel,    \* cancelRequested
  desk,      \* POST /:id/tasks/:taskId/complete, for each user
  faults,    \* attempts and requests cut short
  decisions  \* history: signals accepted, and "skipped" by the workflow

wfVars == <<pc, group, mine, runs, todo>>
vars   == <<request, row, pc, group, mine, runs, todo, sig, cancel, desk,
            faults, decisions>>

PCs == {"create", "open", "activate", "announce", "run", "fetch", "wait",
        "process", "reject", "rejected", "cancel", "skip", "cancelled", "fulfill",
        "done", "failed"}

Closed == {"done", "failed"}

RunPCs == {"off", "execute", "suspended", "await", "answered", "ended"}

TypeOK ==
  /\ request \in RequestStatus
  /\ row \in [Ids -> [status : TaskStatus, at : 0..MaxGate]]
  /\ pc \in PCs
  /\ group \in 1..LastOrder
  /\ mine \in Copies
  /\ runs \in [Tasks -> [pc : RunPCs, outcome : Outcomes \cup {"none"}, gate : 0..MaxGate,
                         copy : Copies, tries : 1..MaxTries, result : Results]]
  /\ todo \subseteq Ids
  /\ sig \in [Ids -> Outcomes \cup {"none"}]
  /\ cancel \in BOOLEAN
  /\ desk \in [Users -> [pc : {"idle", "signal", "update"}, id : Ids, outcome : Outcomes]]
  /\ faults \in Nat
  /\ decisions \in [Ids -> SUBSET Outcomes]

-----------------------------------------------------------------------------
SomeId == CHOOSE id \in Ids : id.gate = 0
Idle   == [pc |-> "idle", id |-> SomeId, outcome |-> "completed"]
Off    == [pc |-> "off", outcome |-> "none", gate |-> 0, copy |-> 1, tries |-> 1,
           result |-> "ok"]

Init ==
  /\ request = "submitted"
  /\ row = [id \in Ids |-> [status |-> "absent", at |-> 0]]
  /\ pc = "create"
  /\ group = 1
  /\ mine = 1
  /\ runs = [t \in Tasks |-> Off]
  /\ todo = {}
  /\ sig = [id \in Ids |-> "none"]
  /\ cancel = FALSE
  /\ desk = [u \in Users |-> Idle]
  /\ faults = 0
  /\ decisions = [id \in Ids |-> {}]

\* The rows of ids that are still open become skipped, and that is a decision.
SkipRows(ids) ==
  LET skipped == {id \in ids : row[id].status \in Open} IN
  /\ row' = [id \in Ids |-> IF id \in skipped THEN [row[id] EXCEPT !.status = "skipped"]
                            ELSE row[id]]
  /\ decisions' = [id \in Ids |-> IF id \in skipped THEN decisions[id] \cup {"skipped"}
                                  ELSE decisions[id]]

SetRow(id, status) == row' = [row EXCEPT ![id].status = status]

InGroup(g) == {t \in Tasks : Order[t] = g}

-----------------------------------------------------------------------------
(***************************************************************************)
(* The workflow, up to the tasks of a group.                               *)
(***************************************************************************)

\* createRequestTasks inserts one copy of the tasks in their order; approvals
\* for which there is no manager are skipped.
InsertTasks(inserted) ==
  LET ids == {Top(t, mine) : t \in inserted} IN
  /\ row' = [id \in Ids |->
       IF id \in ids
       THEN [status |-> IF id.task \in Unmanaged THEN "skipped" ELSE "pending", at |-> 0]
       ELSE row[id]]
  /\ decisions' = [id \in Ids |->
       IF id \in ids /\ id.task \in Unmanaged THEN {"skipped"} ELSE decisions[id]]

CreateTasks ==
  /\ pc = "create"
  /\ InsertTasks(Tasks)
  /\ pc' = "open"
  /\ UNCHANGED <<request, group, mine, runs, todo, sig, cancel, desk, faults>>

\* The attempt ends after some of its INSERTs; the retry begins again.
CreateIsCut ==
  /\ pc = "create" /\ mine = 1
  /\ faults < MaxFaults
  /\ \E inserted \in SUBSET Tasks :
       /\ \A t \in inserted, u \in Tasks \ inserted : Order[t] <= Order[u]
       /\ InsertTasks(inserted)
  /\ mine' = 2
  /\ faults' = faults + 1
  /\ UNCHANGED <<request, pc, group, runs, todo, sig, cancel, desk>>

\* requiresUserCompletion
Needs == {t \in Tasks : Kind[t] # "flow"} \ Unmanaged

StatusFor(tasks) ==
  IF \E t \in tasks \cap Needs : Kind[t] = "approval"
  THEN "pending_approval" ELSE "in_progress"

OpenRequest ==
  /\ pc = "open"
  /\ request' = StatusFor(Tasks)
  /\ pc' = "activate"
  /\ UNCHANGED <<row, group, mine, runs, todo, sig, cancel, desk, faults, decisions>>

\* Mutant: the tasks are activated whatever their order.
ActivateEverything ==
  /\ pc = "activate"
  /\ row' = [id \in Ids |->
       IF id.gate = 0 /\ row[id].status = "pending"
       THEN [row[id] EXCEPT !.status = "in_progress"] ELSE row[id]]
  /\ pc' = "announce"
  /\ UNCHANGED <<request, group, mine, runs, todo, sig, cancel, desk, faults, decisions>>

\* activateTaskGroup goes by request and order: every copy is activated.
ActivateGroup ==
  /\ pc = "activate"
  /\ row' = [id \in Ids |->
       IF id.gate = 0 /\ id.task \in InGroup(group) /\ row[id].status = "pending"
       THEN [row[id] EXCEPT !.status = "in_progress"] ELSE row[id]]
  /\ pc' = "announce"
  /\ UNCHANGED <<request, group, mine, runs, todo, sig, cancel, desk, faults, decisions>>

Flows == {t \in InGroup(group) : Kind[t] = "flow"}

AnnounceGroup ==
  /\ pc = "announce"
  /\ request' = StatusFor(InGroup(group))
  /\ IF Flows = {} THEN pc' = "fetch" /\ UNCHANGED runs
     ELSE /\ pc' = "run"
          /\ runs' = [t \in Tasks |-> IF t \in Flows THEN [Off EXCEPT !.pc = "execute"] ELSE Off]
  /\ UNCHANGED <<row, group, mine, todo, sig, cancel, desk, faults, decisions>>

-----------------------------------------------------------------------------
(***************************************************************************)
(* The automations of a group run in parallel.                             *)
(***************************************************************************)

Paused(g, c)  == [Off EXCEPT !.pc = "suspended", !.gate = g, !.copy = c]
Ended(result) == [Off EXCEPT !.pc = "ended", !.result = result]

FreeCopy(t, g) == IF row[Child(t, g, 1)].status = "absent" THEN 1 ELSE 2

OpenCopies(t) == {c \in Copies : \E g \in 1..MaxGate : row[Child(t, g, c)].status \in Open}

\* The child task that a retried first attempt finds.
WaitingChildren(t) ==
  {id \in Ids : /\ id.task = t /\ id.gate > 0 /\ row[id].status \in Open
                /\ \A c \in OpenCopies(t) : c <= id.copy}

\* What an attempt may leave in the table and what it may answer.
PausingAttempts(t, from) ==
  IF runs[t].outcome # "rejected" /\ from < Len(Gates[t])
  THEN LET g == from + 1
           c == FreeCopy(t, g)
       IN {[rows |-> [row EXCEPT ![Top(t, mine)].at = g,
                                 ![Child(t, g, c)].status = "in_progress"],
            run  |-> Paused(g, c)]}
  ELSE {}

EndingAttempts(t) ==
  {[rows |-> [row EXCEPT ![Top(t, mine)] =
                [status |-> IF res \in {"ok", "skip"} THEN "completed" ELSE "failed",
                 at |-> 0]],
    run |-> Ended(res)]
   : res \in Results}

ThrowingAttempt(t) ==
  [rows |-> [row EXCEPT ![Top(t, mine)].status = "failed"], run |-> Ended("reject")]

\* The child task has been created before the error; whether the checkpoint has
\* been stored no longer matters.
AbortedAttempts(t, from) ==
  {[rows |-> [a.rows EXCEPT ![Top(t, mine)].status = "failed"], run |-> Ended("reject")]
   : a \in PausingAttempts(t, from)}

Attempts(t) ==
  LET r == runs[t]
      at == row[Top(t, mine)].at
      from == IF r.outcome = "none" THEN 0 ELSE at
  IN IF row[Top(t, mine)].status \notin Open
     THEN {[rows |-> row, run |-> Ended("ok")]}
     ELSE IF r.outcome = "none" /\ at # 0 /\ WaitingChildren(t) # {}
     THEN {[rows |-> row, run |-> Paused(id.gate, id.copy)] : id \in WaitingChildren(t)}
     ELSE IF r.outcome # "none" /\ at = 0
     THEN {ThrowingAttempt(t)}
     ELSE PausingAttempts(t, from) \cup EndingAttempts(t)
            \cup {ThrowingAttempt(t)} \cup AbortedAttempts(t, from)

Running(t, at) == pc = "run" /\ t \in Flows /\ runs[t].pc = at

Execute(t) ==
  /\ Running(t, "execute")
  /\ \E a \in Attempts(t) : row' = a.rows /\ runs' = [runs EXCEPT ![t] = a.run]
  /\ UNCHANGED <<request, pc, group, mine, todo, sig, cancel, desk, faults, decisions>>

\* The attempt has done its work but its answer is lost, or it is cut short
\* between the INSERT of the child task and the UPDATE of the checkpoint.
ExecuteIsCut(t) ==
  /\ Running(t, "execute")
  /\ faults < MaxFaults
  /\ \E a \in Attempts(t) :
       \/ row' = a.rows
       \/ /\ a.run.pc = "suspended"
          /\ row' = [a.rows EXCEPT ![Top(t, mine)] = row[Top(t, mine)]]
  /\ IF runs[t].tries < MaxTries
     THEN runs' = [runs EXCEPT ![t].tries = @ + 1] /\ UNCHANGED pc
     ELSE pc' = "failed" /\ UNCHANGED runs
  /\ faults' = faults + 1
  /\ UNCHANGED <<request, group, mine, todo, sig, cancel, desk, decisions>>

ChildOf(t) == Child(t, runs[t].gate, runs[t].copy)

\* The top of the loop: an in-flow approval makes the request wait for it.
Suspend(t) ==
  /\ Running(t, "suspended")
  /\ runs' = [runs EXCEPT ![t] = IF cancel THEN Ended("ok") ELSE [@ EXCEPT !.pc = "await"]]
  /\ request' = IF ~cancel /\ KindOf(ChildOf(t)) = "approval" THEN "pending_approval"
                ELSE request
  /\ UNCHANGED <<row, pc, group, mine, todo, sig, cancel, desk, faults, decisions>>

\* Mutant: only an answer that lets the automation go on wakes it up.
AnsweredPositively(t) == sig[ChildOf(t)] \in {"approved", "completed"}

Answered(t) == sig[ChildOf(t)] \notin {"none", "cancelled"}

\* The child task is answered: completeRequestTask.
Answer(t) ==
  LET answer == sig[ChildOf(t)]
      approval == KindOf(ChildOf(t)) = "approval"
  IN
  /\ Running(t, "await")
  /\ Answered(t)
  /\ SetRow(ChildOf(t), IF approval THEN IF answer = "rejected" THEN "rejected" ELSE "completed"
                        ELSE IF answer = "skipped" THEN "skipped" ELSE "completed")
  /\ runs' = [runs EXCEPT ![t].pc = "answered",
                          ![t].outcome = IF approval THEN answer ELSE "completed"]
  /\ UNCHANGED <<request, pc, group, mine, todo, sig, cancel, desk, faults, decisions>>

Resume(t) ==
  /\ Running(t, "answered")
  /\ request' = "in_progress"
  /\ runs' = [runs EXCEPT ![t].pc = "execute"]
  /\ UNCHANGED <<row, pc, group, mine, todo, sig, cancel, desk, faults, decisions>>

RunCancelled(t) ==
  /\ Running(t, "await")
  /\ cancel /\ sig[ChildOf(t)] \in {"none", "cancelled"}
  /\ runs' = [runs EXCEPT ![t] = Ended("ok")]
  /\ UNCHANGED <<request, row, pc, group, mine, todo, sig, cancel, desk, faults, decisions>>

RunStep(t) ==
  Execute(t) \/ Suspend(t) \/ Answer(t) \/ Resume(t) \/ RunCancelled(t)

\* Promise.all
RunsOver == \A t \in Flows : runs[t].pc = "ended"

EndedWith(result) == \E t \in Flows : runs[t].pc = "ended" /\ runs[t].result = result

TopsOf(o) == {id \in Ids : id.gate = 0 /\ Order[id.task] = o}

\* The branches that automations took may skip the tasks of some orders.
SkipBranch ==
  IF EndedWith("skip")
  THEN \E orders \in SUBSET (1..LastOrder) : SkipRows(UNION {TopsOf(o) : o \in orders})
  ELSE UNCHANGED <<row, decisions>>

EndRuns ==
  /\ pc = "run" /\ RunsOver
  /\ \/ cancel /\ pc' = "cancel" /\ UNCHANGED <<row, decisions>>
     \/ ~cancel /\ EndedWith("reject") /\ pc' = "reject" /\ UNCHANGED <<row, decisions>>
     \/ ~cancel /\ ~EndedWith("reject") /\ pc' = "fetch" /\ SkipBranch
  /\ runs' = [t \in Tasks |-> Off]
  /\ UNCHANGED <<request, group, mine, todo, sig, cancel, desk, faults>>

-----------------------------------------------------------------------------
(***************************************************************************)
(* The workflow, from the wait for people to the end.                      *)
(***************************************************************************)

\* Mutant: a task that has been activated is not waited for.
AwaitingOnlyPending == {id \in TopsOf(group) : row[id].status = "pending"}

\* getAwaitingHumanTaskIds goes by request and order, like the activation.
AwaitingHuman == {id \in TopsOf(group) : row[id].status \in Open}

Fetch ==
  /\ pc = "fetch"
  /\ todo' = AwaitingHuman
  /\ pc' = "wait"
  /\ UNCHANGED <<request, row, group, mine, runs, sig, cancel, desk, faults, decisions>>

EndWait ==
  /\ pc = "wait"
  /\ \/ cancel /\ pc' = "cancel" /\ todo' = {}
     \/ /\ ~cancel /\ \A id \in todo : sig[id] # "none"
        /\ pc' = "process"
        /\ todo' = {Top(t, mine) : t \in InGroup(group) \cap Needs}
  /\ UNCHANGED <<request, row, group, mine, runs, sig, cancel, desk, faults, decisions>>

\* Mutant: the row is left to the person who answered the task.
ProcessedRowLeft(id) == UNCHANGED row

ProcessedRow(id) == SetRow(id, IF sig[id] = "skipped" THEN "skipped" ELSE "completed")

Process(id) ==
  /\ pc = "process" /\ id \in todo
  /\ todo' = todo \ {id}
  /\ \/ sig[id] = "none" /\ UNCHANGED <<row, pc>>
     \/ /\ KindOf(id) = "approval" /\ sig[id] = "rejected"
        /\ SetRow(id, "rejected") /\ pc' = "reject"
     \/ /\ sig[id] # "none" /\ ~(KindOf(id) = "approval" /\ sig[id] = "rejected")
        /\ ProcessedRow(id) /\ UNCHANGED pc
  /\ UNCHANGED <<request, group, mine, runs, sig, cancel, desk, faults, decisions>>

EndGroup ==
  /\ pc = "process" /\ todo = {}
  /\ IF group < LastOrder THEN group' = group + 1 /\ pc' = "activate"
     ELSE pc' = "fulfill" /\ UNCHANGED group
  /\ UNCHANGED <<request, row, mine, runs, todo, sig, cancel, desk, faults, decisions>>

\* finishCancellation: the task whose answer was the cancellation.
CancelTask ==
  /\ pc = "cancel"
  /\ LET cancelled == {id \in Ids : sig[id] = "cancelled"} IN
     IF cancelled = {} THEN UNCHANGED row
     ELSE \E id \in cancelled : SetRow(id, "cancelled")
  /\ pc' = "skip"
  /\ UNCHANGED <<request, group, mine, runs, todo, sig, cancel, desk, faults, decisions>>

\* Mutant: tasks somebody may be working on are left alone.
RemainingPending == {id \in Ids : row[id].status = "pending"}

Remaining == {id \in Ids : row[id].status \in Open}

SkipRemaining ==
  /\ pc \in {"reject", "skip"}
  /\ SkipRows(Remaining)
  /\ todo' = {}
  /\ pc' = IF pc = "reject" THEN "rejected" ELSE "cancelled"
  /\ UNCHANGED <<request, group, mine, runs, sig, cancel, desk, faults>>

CloseRequest ==
  /\ pc \in {"rejected", "cancelled", "fulfill"}
  /\ request' = IF pc = "fulfill" THEN "fulfilled" ELSE pc
  /\ pc' = "done"
  /\ UNCHANGED <<row, group, mine, runs, todo, sig, cancel, desk, faults, decisions>>

WorkflowStep ==
  \/ CreateTasks \/ OpenRequest \/ ActivateGroup \/ AnnounceGroup
  \/ \E t \in Tasks : RunStep(t)
  \/ EndRuns \/ Fetch \/ EndWait
  \/ \E id \in Ids : Process(id)
  \/ EndGroup \/ CancelTask \/ SkipRemaining \/ CloseRequest

-----------------------------------------------------------------------------
(***************************************************************************)
(* The people.                                                             *)
(***************************************************************************)

Answers(id) ==
  IF KindOf(id) = "approval" THEN {"approved", "rejected"}
  ELSE {"completed", "skipped", "cancelled"}

\* The handler reads the task and finds it in progress.
ReadTask(u, id) ==
  /\ desk[u].pc = "idle"
  /\ row[id].status = "in_progress"
  /\ \E outcome \in Answers(id) :
       desk' = [desk EXCEPT ![u] = [pc |-> "signal", id |-> id, outcome |-> outcome]]
  /\ UNCHANGED <<request, row, pc, group, mine, runs, todo, sig, cancel, faults, decisions>>

\* A workflow that is closed refuses the signal, and the request fails.
SignalTask(u) ==
  LET id == desk[u].id
      outcome == desk[u].outcome
  IN
  /\ desk[u].pc = "signal"
  /\ IF pc \in Closed
     THEN desk' = [desk EXCEPT ![u] = Idle] /\ UNCHANGED <<sig, cancel, decisions>>
     ELSE /\ sig' = [sig EXCEPT ![id] = outcome]
          /\ cancel' = (cancel \/ outcome = "cancelled")
          /\ decisions' = [decisions EXCEPT ![id] = @ \cup {outcome}]
          /\ desk' = [desk EXCEPT ![u].pc = "update"]
  /\ UNCHANGED <<request, row, pc, group, mine, runs, todo, faults>>

\* Mutant: the outcome itself, which the status column cannot hold.
StatusIsOutcome(outcome) == outcome

StatusOf(outcome) == IF outcome = "approved" THEN "completed" ELSE outcome

\* "Also update the task directly for immediate feedback"
UpdateTask(u) ==
  /\ desk[u].pc = "update"
  /\ SetRow(desk[u].id, StatusOf(desk[u].outcome))
  /\ desk' = [desk EXCEPT ![u] = Idle]
  /\ UNCHANGED <<request, pc, group, mine, runs, todo, sig, cancel, faults, decisions>>

\* The engine dies after the signal.
DeskDies(u) ==
  /\ desk[u].pc = "update"
  /\ faults < MaxFaults
  /\ faults' = faults + 1
  /\ desk' = [desk EXCEPT ![u] = Idle]
  /\ UNCHANGED <<request, row, pc, group, mine, runs, todo, sig, cancel, decisions>>

DeskStep(u) == SignalTask(u) \/ UpdateTask(u)

-----------------------------------------------------------------------------
Next ==
  \/ WorkflowStep
  \/ CreateIsCut
  \/ \E t \in Tasks : ExecuteIsCut(t)
  \/ \E u \in Users : DeskStep(u) \/ DeskDies(u) \/ \E id \in Ids : ReadTask(u, id)

Spec == Init /\ [][Next]_vars

\* Temporal keeps the workflow going, handlers end, and every task in progress
\* is answered by somebody.
Fairness ==
  /\ WF_vars(WorkflowStep)
  /\ \A u \in Users : WF_vars(DeskStep(u))
  /\ \A id \in Ids : WF_vars(\E u \in Users : ReadTask(u, id))

FairSpec == Spec /\ Fairness

-----------------------------------------------------------------------------
(***************************************************************************)
(* What fulfillment promises.                                              *)
(***************************************************************************)

Own == {Top(t, mine) : t \in Tasks}

\* No task is worked on, and no request fulfilled, before every approval of an
\* earlier order was approved by somebody or skipped: whatever else people
\* answer at the same time and whichever attempts are repeated.
ApprovalsComeFirst ==
  \A t \in Tasks :
    /\ Kind[t] = "approval"
    /\ \/ request = "fulfilled"
       \/ \E u \in Tasks : Order[u] > Order[t] /\ row[Top(u, mine)].status = "in_progress"
    => decisions[Top(t, mine)] \cap {"approved", "skipped"} # {}

\* The groups are worked on one after the other: while a task is in progress,
\* none of an earlier order is open, even if the handler that answered it died
\* before it could update the row.
OrderIsKept ==
  \A t, u \in Tasks :
    /\ Order[t] < Order[u]
    /\ row[Top(u, mine)].status = "in_progress"
    => row[Top(t, mine)].status \notin Open

\* A request that the workflow has rejected or cancelled has no open task, in-flow
\* tasks and copies left by repeated attempts included.  (POST /:id/approve may
\* reject a request whose tasks stay open and whose workflow goes on.)
NothingStaysOpen ==
  request \in {"rejected", "cancelled"} => \A id \in Ids : row[id].status \notin Open

\* catalog-fulfillment.ts:44: "Approval rejections reject the request."  A
\* fulfilled request has no approval on record as rejected.
RejectionsReject ==
  request = "fulfilled" =>
    \A id \in Own : KindOf(id) = "approval" => row[id].status # "rejected"

Approvals == {t \in Tasks : Kind[t] = "approval"}

Automated == {o \in 1..LastOrder : \E t \in InGroup(o) : Kind[t] = "flow"}

\* What a requester sees of requests.status.
Standing == IF request \in {"pending_approval", "in_progress"} THEN "open" ELSE request

Journey ==
  INSTANCE RequestJourney
  WITH status <- Standing, stage <- group, withdrawn <- cancel,
       answers <- [t \in Approvals |-> decisions[Top(t, mine)]]

\* The workflow implements the journey of a request: its groups are passed one
\* after the other, each once its approvals were given or skipped; nobody is asked
\* for an approval before; and it is fulfilled after the last group, rejected in a
\* group with a rejection or an automation, or cancelled by somebody, once.
JourneyIsKept == Journey!Spec

\* If people answer the tasks, the request is decided, however often automations
\* pause, fail and are repeated, unless both attempts of one were lost, with which
\* the workflow fails, or the tasks themselves were created twice.
RequestIsDecided ==
  [](mine = 1 /\ pc # "failed") => <>(request \in Decided)
=============================================================================
