# Nova Suite in TLA+

Nova Suite is an IT service management platform: an Express API over PostgreSQL
(`packages/nova-engine`), a Temporal worker (`packages/nova-worker`), code shared
by both (`packages/nova-shared`) and a React client (`packages/nova-web`). Most
of what it does is CRUD in one transaction. What is hard is where the API, the
tables and the durable workflows meet: the tables are read and written by HTTP
handlers whose statements commit one by one, by activities that Temporal retries,
and by several replicas of each service. These modules model that part.

| Module | What it is |
| --- | --- |
| `JobTable` | rows of `workflow_start_jobs` and the statements that change one |
| `WorkflowStartQueue` | the queue through which the engines start workflows: dispatchers, faults, outages |
| `WorkflowOutbox` | abstract specification: what the users of the queue rely on |
| `WorkflowStartQueue_proofs` | type correctness, the queue's invariants, who holds a job, and the refinement, proved |
| `SlaClock` | the pausable clock of `domain/sla.ts` as pure operators |
| `IncidentRow` | the row of an incident and what each statement of a request or writer makes of it; shared by the two modules below |
| `IncidentLifecycle` | one incident under concurrent requests and background writers |
| `IncidentLifecycle_proofs` | what statements make of rows and clocks; type correctness and what the clocks' records mean, proved |
| `IncidentEscalation` | the escalation workflow of an incident, against people and time |
| `IncidentTimers` | the incident with both of its workflows: the escalation composed with the auto-close timer |
| `IncidentEscalation_proofs` | type correctness, no early breach, no unjustified escalation; the composition implements the escalation, and a timer that was always stopped in time closes nothing early; proved |
| `CatalogFulfillment` | one catalog request: workflow, activities, tasks, people |
| `RequestJourney` | abstract specification: what requesters and approvers rely on |
| `CatalogFulfillment_proofs` | type correctness, what is closed at the end, the order of the groups and the approvals, and the refinement, proved |
| `KnowledgeApproval` | the versions of a knowledge article: people, handlers and the review workflow |
| `KnowledgeApproval_proofs` | type correctness, reviewers decide, one published version, proved |
| `AlertEpisodes` | monitoring messages, alert episodes and their incidents, under concurrent transactions |
| `AlertEpisodes_proofs` | type correctness, incidents linked, work kept, the last message decides, one incident for one alarm, proved |
| `MajorIncident` | a major incident from promotion to postmortem, its handlers and two workflows |
| `MajorIncident_proofs` | type correctness, rejections, finalization and resolution, proved |
| `ChangeControl` | changes through assessment, approval and scheduling, two handlers at once |
| `ChangeControl_proofs` | type correctness, approvals and scheduling, proved |
| `MC*` | instances for TLC, each with the configurations named after its runs |

`PROJECT.json` maps every definition to the lines it models. A definition whose
comment begins with "Mutant:" is not part of a model: it is a plausible mistake in the
code that one of the properties is there to catch.

## 1. Inventory

### Components, their state and operations

**Workflow start queue** (`nova-engine/src/temporal/workflow-start-queue.ts`, start
functions in `temporal/workflows.ts`). State: table `workflow_start_jobs`, per
engine one dispatcher (`dispatcherRunning`, the batch it has claimed). Operations:
seven enqueue functions (insert or upsert on `(tenant_id, job_type, workflow_id)`),
`drainWorkflowStartQueue` every few seconds (recover stale claims, fast-forward
retries after an outage, claim 20 with `FOR UPDATE SKIP LOCKED`, call Temporal,
mark completed or failed), `reconcileDataSourceSchedules` at start-up. Completed rows stay for ever.
Hard: several engines on one table, crashes between the call and the UPDATE, lost
replies, drains that outlast the stale period, re-enqueueing.
Correct when: no request is forgotten, a completed row is final, two engines do not hold
one claim, nothing is started twice without a fault, everything is started eventually.

**Incidents** (`api/incidents/routes.ts`, `domain/sla.ts`). State: row of `incidents`
(status, pending reason, SLA and OLA clock with `*_due_at`, `*_paused_at`, `*_paused_ms`,
`resolved_at`, `closed_at`). Operations: POST, PATCH (read, compute, UPDATE), journal
(read, UPDATE status, UPDATE clocks), bulk close and assign; background writers: auto-close,
auto-assignment, linked major incidents, changes, alerts, automations. Hard: every handler
works from a snapshot and updates without a condition; pausing and resuming by different
writers. Correct when: the due date is the agreed one plus the recorded pauses, pauses are
counted once, a record of a pause is never more than the time that passed.

**Catalog requests** (`workflows/catalog-fulfillment.ts`, `catalog-activities.ts`,
`catalog-automation-activities.ts`, `api/requests/routes.ts`). State: `requests.status`,
`request_tasks` with `automation_checkpoint`, the workflow (group, signals, cancellation).
Operations: create tasks, activate a group, run the group's automations in parallel, each
of which may pause for an approval or manual task and resume, wait for people, process
answers, reject, cancel, fulfill; people answer over HTTP: check, signal, UPDATE. Hard:
activities with several committed statements that are retried, two people with one task,
a signal that arrives while the workflow ends. Correct when: approvals precede the work,
groups do not overlap, a closed request has no open task, every request is decided.

**Incident escalation and auto-close** (`workflows/incident-escalation.ts`,
`incident-auto-close.ts`, `incident-activities.ts`). State: workflow locals (which warnings
and breaches were handled), `sla_breached`, `response_breached`, `priority`. Hard: timers
computed from a snapshot, marks without a condition, a signal or cancellation lost
before the dispatcher starts the workflow, a seven-day execution limit.
Correct when: no breach is marked before the due date, an overdue incident is marked in the end, an
escalation follows a breach and respects what people set, a reopened incident is not closed by a timer
of its previous resolution.

**Knowledge approval** (`api/knowledge/routes.ts`, `workflows/knowledge-approval.ts`,
`knowledge-activities.ts`). State: status of each version, `kb_article_approvals`, the job, the workflow with the
decisions it has heard. Operations: patch, submit (read, delete the approvals, set `review`, insert one approval per step,
enqueue), decide (read, UPDATE, signal), new version, publish (two UPDATEs); the workflow sets `review`, waits for each step
in order, then publishes or goes back to draft. Hard: a decision is written, then signalled; a thirty-day wait that falls
through; resubmission; publication in two statements. Correct when: an article is published by its workflow only if every
step was approved, and one version of an article is published at a time.

**Alerts** (`domain/alerts.ts`, `api/webhooks/inbound.ts`, `api/internal/events.ts`). State: `monitoring_events`, `alerts`
(episodes, one open per source and fingerprint by a unique index), incidents opened by them, change windows. Operations:
`ingestAlerts` in one transaction per delivery: record each message once, close or open an episode, reuse, reopen, open or
resolve its incident. Hard: parallel deliveries of one condition under READ COMMITTED, clearing against firing, row locks in the
order of a list. Correct when: the last new message decides whether an episode is open, an incident is opened once, people's work on it stays.

**Major incidents** (`api/major-incidents/routes.ts`, `workflows/major-incident.ts`, `workflows/postmortem.ts`,
`major-incident-activities.ts`). State: status, linked incidents, postmortem, the durable workflow, the reminder it leaves behind.
Operations: promote, accept, reject, investigate, link, resolve (UPDATE, then signal), postmortem handlers; the workflow watches
five minutes and finalizes statement by statement. Hard: two managers on one promotion, a signal before the workflow exists, a finalizing
activity that is repeated and races the postmortem's handler. Correct when: a rejection stands, finalizing leaves nothing linked open,
what is resolved stays resolved, reminders end.

**Change management** (`api/changes/routes.ts`). State: status and window of each change, `change_approvals`,
`change_conflicts`. Operations: eleven transitions (read, refresh and count conflicts, ask for approvals row by row, UPDATE), decisions on approvals
(UPDATE, count, UPDATE the change), PATCH. Hard: no handler uses a transaction or a condition on the status it read. Correct when: nobody who
has to approve is passed over, the last approver moves the change on, two risky changes do not share a window unnoticed.

**Data source schedules** (`api/datasources/routes.ts`, `datasource_schedule_start` jobs).
State: `schedule_enabled`, the Temporal schedule. Hard: PATCH and DELETE against the dispatcher's
check. Correct when: once requests stop, a schedule exists exactly if it is enabled.

**Problems** (`api/problems/routes.ts`, `workflows/problem-recurrence-scan.ts`). One row per problem, updated
by sequential handlers, and a scheduled query that scores recurrences. Correct when: a scan opens one problem per cluster.

**Worker and engine runtime** (`nova-worker/src/db.ts`, `nova-engine/src/data/db.ts`). Connection
pools of 5 and 20; activities that hold one connection and ask for another.

Not of interest here, being CRUD, pure transformation, external services or presentation:
catalog and cart, CMDB and assets, configuration packages, ServiceNow migration,
dashboards, administration, authentication, cache, AI assistants, notifications and chat
(apart from their jobs in the queue), schema and deployment, web client. `PROJECT.json` lists
each with its reason.

### How they interact

- A handler that needs a workflow **enqueues** a job (requests and major incidents
  through the handler's client, the others on a connection of their own, mostly without awaiting
  it); a dispatcher starts the workflow some time later.
- Handlers **signal** or **cancel** running workflows directly. `signalTaskCompleted` rethrows,
  the incident functions swallow errors.
- Workflows reach the tables only through **activities**, whose statements commit one by
  one (`withTenantContext` opens no transaction), with two or three attempts each.
- Incidents are the **shared row**: alerts, changes, major incidents, automations and three
  workflows write it.

## 2. Plan

Order of work; the first eight are done.

1. `JobTable`, `WorkflowStartQueue`, `WorkflowOutbox`, proofs. Everything else relies on the queue.
2. `SlaClock`, `IncidentRow`, `IncidentLifecycle`, proofs. The row with the most writers.
3. `CatalogFulfillment`, `RequestJourney`, proofs. The largest workflow.
4. `IncidentEscalation`, proofs. Extends `IncidentRow` like the lifecycle does; `IncidentTimers` composes it with the auto-close timer.
5. `KnowledgeApproval`, proofs. Two steps, two reviewers, lost signals, time limits, resubmission.
6. `AlertEpisodes`, proofs. Episodes and their incidents, composed with what people do to those.
7. `MajorIncident`, proofs.
8. `ChangeControl`, proofs.

Left, in this order:

9. `DataSourceSchedules`: upsert, PATCH, DELETE, dispatcher, reconciler.
   Liveness: schedule and flag agree once requests stop.
10. `WorkerPool`: pool of N, M activities that need one or two connections. Theorem: with
    at least as many connections as activities plus one nobody waits for ever; below, TLC shows the deadlock.
11. What the closure of a change does to linked incidents and problems; the problem's states; notification deduplication.

## 3. The workflow start queue

`table[j]` is the row of key `j`; `pc`, `batch` and `cur` are the local state of one drain per engine;
every `await` of `drainWorkflowStartQueue` and `processJob` is an action: `RecoverStale`,
`FastForward`, `ClaimDue`, `TakeJob`, `StartSucceeds` / `StartFails`, `Complete` / `Fail`. Time is
abstracted to two facts a statement can see: whether `next_attempt_at` has passed (`due`) and how old the
claim is (`lock`). `attempt_count` is left out because every enqueue writes
`max_attempts = 0`, so it only lengthens a delay. Faults: a crash with the loss of
all local state, a reply lost after Temporal started the workflow, `markJobCompleted` that throws, before or after its UPDATE committed
(caught, so the job is marked failed) and any other statement that throws (the drain is abandoned with its claims).
`exec[j]` is Temporal's execution under the job's workflow id: at most one runs,
and "already started" counts as success.

`owed[j]` is a history variable: the last request for `j` has not led to a running workflow.

| Run | Instance | Shows |
| --- | --- | --- |
| `QueueSafety` | 2 engines, 1 notification + 1 entity job, batches of 2, 2 requests per job, 1 fault, 1 outage, `SlowDrains` | `TypeOK`, `NoLostRequest`, refinement of `WorkflowOutbox` without fairness |
| `QueueLiveness` | the same with batches of 1, 1 request per job, drains within the stale period | `OneHolder`, `NoRerunWithoutFault`, `FirstRequestsAreServed`, refinement with fairness |

Two engines, two jobs and a batch of one or two are the least at which
claims overlap, a job waits behind another and a batch outlives its locks; one fault of each kind
already gives every single-fault history, and an outage any number of failed calls. In both runs every payload is accepted (`Rejected` is empty); the theorems hold for any.

*Fairness* (`FairSpec`): weak fairness of `DispatcherStep(e)` and `Restart(e)` per engine, of `BecomesDue(j)` and
`LockGoesStale(j)` per job (time passes), and of `TemporalComesUp`. Dispatchers are driven by `setInterval` and every statement has a timeout; a crashed replica is
restarted by the deployment. Nothing is assumed of request handlers or of faults.
`SlowDrains = FALSE` in the liveness run is an assumption about load: 20 jobs are
processed one after the other within five minutes (`STALE_PROCESSING_MINUTES`). Without it, two engines
can take each other's claims for ever: each recovers the other's stale claim before the other's
UPDATE, which then finds the row pending and does nothing.

*Proved* (`WorkflowStartQueue_proofs`), for any sets of jobs and engines, any batch size and bounds, with
`QueueAssumption`: `TypeCorrect`, `NoRequestIsLost`, `CompletedStays`, `OneHolderPerJob`, `RerunsNeedFaults` and `ImplementsOutbox`.
`NoLostRequest` is not inductive: that a completed job was started depends on what the dispatcher that
completes it has seen. `QueueInv` adds that a dispatcher holds only existing rows
(`ClaimsAreRows`), that one about to mark a job completed has seen its workflow start
(`CompletesAfterStart`), and that nothing is started or owed before it is asked for (`UnaskedIsIdle`). It
survives every fault because no statement other than `markJobCompleted` makes a row completed and none takes
one out of completed (`CompletedStays`, the action property `CompletedIsFinal`, which the refinement implies and no run repeats). The refinement maps a row and its execution to a phase; every step moves at most one job by one
phase.

`OneHolder` rests on `HolderInv`, which says of drains within the stale period: a dispatcher holds nothing between drains, and no job twice;
the row of a job that is held and was enqueued once has a fresh claim, so nobody recovers or claims it, or, after a fault, was completed by a holder that has not learnt so; and a row exists only if it was asked
for. Claims are made of pending rows only, and the claim of a dispatcher that died goes stale only after its holder has gone.
`NoRerunWithoutFault` adds `StartedOnce`: before the first fault, a notification that was started is completed, or its holder is about to complete it; so the dispatcher that calls
Temporal, being the only holder of an uncompleted row, calls it for the first time.

## 4. The incident and its clocks

`row` is the row; `snap[h]` is what handler `h` read. `PATCH /:id` is two actions (`PatchRead`,
`PatchWrite` / `PatchRefused`), a reply or work note up to three (`ReplyRead` / `NoteRead`, `MoveToInProgress`,
`ClearPending`), because each statement commits by itself. `Patched(r, cur, body, t)` is the UPDATE: new columns are
computed from the snapshot `cur`, columns it does not mention keep what `r` has by now.
A handler may die between statements (`Die`). Writers of a single statement are actions of their own, chosen by `Writers`
(`BulkClose`, `AutoAssign`, `ResolveByRecord`, `ClearByAlert`, `RefireByAlert` and others).
`now` advances by `ClockTicks`; `stood` is a history variable that counts the ticks during which `sla_paused_at` was set, `overlapped` one that says whether a request has been read while another was in progress. The response and the
resolution due date move together and are one field. Left out: columns that neither status nor clocks depend on; calls to Temporal.

| Run | Instance | Shows |
| --- | --- | --- |
| `Incident` | two handlers, every background writer, 5 requests and writers together, 2 ticks, 1 death | `LifecycleTypeOK`, `DueMatchesPausedTime`, `PauseIsCredited`, `PausedTimeWithinElapsed` |

Two ticks suffice for a pause of length one that begins after creation, and for a pause that is read by one handler and
ended by another; five requests for a pause, two overlapping resumptions, a background writer among them and one more change.
As long as requests come one after the other, pauses are credited exactly (`DueMatchesPausedTime`, `PauseIsCredited`) even while all background writers change the status, because
none of them touches the SLA clock. With overlapping requests exactness is lost: two handlers that read the same pause both extend the
due date, or one of them brings an ended pause back. For instance: the journal handler moves the incident to
`in_progress` in one UPDATE and resumes its clocks in a second one. A PATCH that reads between the two sees an active status with a
set `sla_paused_at`; it enters `pending` and, finding the clock already paused, writes that `sla_paused_at` back after the
journal has credited it. The next resumption credits the same pause again. What remains is `PausedTimeWithinElapsed`: each pair
(`paused_at`, `paused_ms`) was once true.

*Proved* (`IncidentLifecycle_proofs`), for any bodies, writers, handlers and bounds with `LifecycleAssumption`, `RowAssumption` and
`NoTimeAssumption`: `LifecycleTypeCorrect`; `RecordedPausesAreSound` (`PausedTimeWithinElapsed`),
by `SoundInv`, which says the same of every snapshot a handler holds; and `SerialDueDate`
and `SerialCredit`, by `ExactInv`: until requests overlap, at most one handler is active, and its snapshot has the SLA clock of the row.

## 5. The escalation of an incident and the timer that closes it

`IncidentEscalation` takes the row and its operators from `IncidentRow` and adds `priority` and `breached` (`sla_breached`). The
workflow is `pc` with its locals: `cur` (what `getIncident` returned), `wake` (the timer of `condition` and `sleep`), `warned`,
`resolved` (the signal's flag), `target`. Reading (`ReadIncident`), deciding (`Decide`) and every activity (`Warn`, `Mark`, `ReadPriority`,
`Raise`, `Settle`) are steps of their own, because Temporal puts a wait between them that is as long as the worker is down; so the time that `Decide`
sees may be later than the read. `WakeUp` and `FollowUp` are the timers, `Expire` the limit of seven days, `Fail` an activity whose three
attempts fail, `RaiseIsCut` an UPDATE that commits before its attempt is lost; the other activities are idempotent.
`response_due_at` is null: the response timer is the same code on other columns. A local `resolutionBreached` is not needed, because only this
workflow sets the column and it then leaves the loop. `getIncident` always finds the incident, since no code deletes one.

Most requests are single steps. One at a time may be slow (`slow`, `seen`): it reads (`ReadSlowly`), others write, and it writes what it computed from its read, as a PATCH
(`PatchSlowly`), or as the two UPDATEs of a reply or work note (`MoveSlowly`, `ClearSlowly`). A PATCH that ends the incident signals the workflow, as an alert's clearing does (`Signal`, which may be lost or come too early).
The other writers tell neither workflow anything (`SilentWrite`): bulk close, a change that is closed, an automation's ticket action, the end of a major incident, a work note.

`IncidentTimers` adds the workflow `incidentAutoClose`: `job` is its row in the queue, `timer` where it is, `fire` the end of its sleep. A PATCH compares the status it writes with the one it has read (`PatchTells`): one that resolves the
incident enqueues a job, one that takes it out of resolved cancels the timer, as a refiring alert does. Neither waits for its call; `calls` holds those on their way, which arrive (`EnqueueArrives`, where a completed row stays completed; `CancelArrives`)
in either order, or are lost (`CallLost`). The dispatcher starts the timer some time later (`StartTimer`), it looks (`LookAgain`) and closes with a condition in the UPDATE
(`CloseIfResolved`). The actions of `IncidentEscalation` are conjoined with what they tell the timer; there, `TimerCloses` is a close at any time. History: `since`, when the incident last became resolved, and `loose`,
whether a resolution once ended with its timer, or the start of it, left standing.

| Run | Instance | Shows |
| --- | --- | --- |
| `Escalation` | `IncidentEscalation`: 2 requests (pause, resume, resolve, reprioritise and the writers above, one of them slow), 3 ticks, 3 priorities, 1 fault | `TypeOK`, `NoBreachBeforeAgreement`, `OnlyBreachesEscalate`, `OverdueIsMarked` |
| `AutoClose` | `IncidentTimers`: 4 requests, a delay of 1 tick, 1 fault of the timer or its calls | `OnlyRestedIsClosed` |

Three ticks hold a pause, the extended due date and a poll or the follow-up; two requests a pause and its end, a change of priority beside either, or a slow request and another inside it. With three
priorities an escalation can meet both ends of the scale and a change in either direction. Four requests hold what makes the timer hard: a resolution, a bulk close, a PATCH to `in_progress` (which cancels only what it has read as resolved) and
another resolution, on which the first one's timer is still running. One tick is enough to tell a timer that waited from one that did not; the escalation is kept from running out of time there, and `Escalation` is the run for it.

`OnlyRestedIsClosed` excepts incidents that are `loose`, and a reader should know how: they left resolved by a writer that does not cancel (bulk close, an automation, a slow request that had read the incident before it was resolved), or while the job or the call for it
was still under way, or while the timer was closing already; or the cancellation was lost, or came after the next resolution. In each of these the code does close a later resolution early (section 11). What the property shows is that nothing else does: cancellations that arrive late but before the next resolution,
repeated starts, repeated closes, a completed row that absorbs the second resolution.

*Fairness* (`FairSpec`): weak fairness of `WorkflowStep` (Temporal keeps running the workflow) and of `Tick`. `OverdueIsMarked` is about an incident that is
never resolved and whose clock in the end runs past its due date; it excepts a workflow that has failed or expired, and one that waits for a
time beyond `MaxTime`, which the bounded clock cannot reach. Nothing is claimed of the timer's liveness: a second resolution meets the completed row and gets none (section 11).

*Proved* (`IncidentEscalation_proofs`), for any bodies, targets, delays and bounds with `EscalationAssumption`, `RowAssumption` and
`NoTimeAssumption`: `EscalationTypeCorrect`, `AgreementIsKept`, `EscalationIsJustified`, all from `EscalationInv`; and, with `TimersAssumption`, `TimersImplementEscalation` (so all three hold of the composition), `TimersTypeCorrect` and `ResolutionsRest`. Types are not inductive without `DueInv` (a timer
is a time only because the due date it is set to is not NULL), and `DueInv` rests on the lemmas that neither a request nor a writer
moves the due date back, also not one that computes it from an old read. `MarkInv` carries what `Decide` has seen to `Mark`, and that a breach is on record through the steps that escalate. `TimerInv` adds `RestInv` to the types (`TimerTypeOK`, which is proved and not run): while the incident is not loose, a call, a job or a timer that is under way
is of the present resolution or has its cancellation on its way, and it does not end before the delay counted from `since`. It is inductive because a resolution that ends with its job or call still under way is loose, and the completed row absorbs every later one, so that a timer once cancelled is not started anew.

## 6. Catalog fulfillment

`row[id]` is a row of `request_tasks`: `id` names the task definition, the gate (0 for the task itself, otherwise the child
task created when an automation pauses) and the copy, since a retried activity may insert a second one. `pc`, `group`, `mine`, `todo` and `runs`
are the workflow; `runs[t]` is one `runAutomated` of the `Promise.all`. `sig` and `cancel` are what the signal handler
stores. `desk[u]` is `POST /:id/tasks/:taskId/complete` between its check, its signal and its UPDATE. `decisions` is a history variable: every outcome
signalled for a task, plus "skipped" when the workflow skips it.

Activities that write the same rows however often they run are one action. Two are not idempotent and may be cut: `CreateIsCut`
(some of the INSERTs, then a retry that inserts all) and `ExecuteIsCut` (all of an attempt's statements, all but the
checkpoint, or the child task alone, then a retry; after two lost attempts the workflow fails). `SkipBranch` skips the orders that any of the group's automations names. What an automation computes is a choice among its results.

| Run | Instance | Shows |
| --- | --- | --- |
| `CatalogPeople` | a manager approval, an automation with a manual pause, another approval; two people | `ApprovalsComeFirst`, `OrderIsKept`, `JourneyIsKept` (refinement of `RequestJourney`) |
| `CatalogRetries` | two automations in parallel, one with an approval pause; one person, one lost or cut attempt | `TypeOK`, `NothingStaysOpen`, `RequestIsDecided` |
| `RejectionLost` | a skipped and a group approval, then manual work; two people | `RejectionsReject` is violated (finding) |

Each instance is the smallest service item in which its case happens: three orders so that somebody could be asked too early and work done between two approvals, two automations for `Promise.all`,
two people for a double answer. Two people and a fault at once are beyond TLC on that item, so
`CatalogPeople` has no faults; `CatalogRetries` has them, tasks created twice among them, and the theorems have both. One fault is one lost attempt; with two of one automation, the workflow
fails by its own retry policy and the request stays undecided, which is the code's choice; `RequestIsDecided` therefore excepts a workflow that has failed. Neither is a claim made about a request whose
tasks were created twice (`mine = 2`): an automation of the first copy is activated with the others and, having nobody to
answer it, is waited for without end unless a later group or a cancellation ends the request. Deadlock is not checked: a finished
request is a terminal state.

*Fairness* (`FairSpec`): weak fairness of `WorkflowStep` (Temporal keeps running the workflow), of `DeskStep(u)` (an HTTP handler that has begun
ends, by its UPDATE or by its death) and, per task, of somebody reading and answering it. The last is an assumption about people, and what the property is about: the code itself waits for them without limit.

*Proved* (`CatalogFulfillment_proofs`), for any service item with `CatalogAssumption`, any number of people and faults:
`CatalogTypeCorrect`, `NothingIsLeftOpen`, `GroupsAreOrdered`, `ApprovalsAreAsked` and `ImplementsJourney`. No property but the first is inductive.

- `ClosingInv`: from the branch that rejects or cancels on, all rows are closed. It holds although people go on writing,
  because a person's UPDATE only closes rows, and although an automation ends late, because `Promise.all` has returned before.
- `OrderInv` says where rows may be open: none in progress before the tasks are created (`NothingHasBegun`) nor in a later
  group (`LaterWaits`), none open in an earlier one (`EarlierIsClosed`) nor among tasks that are skipped at the start
  (`UnmanagedIsClosed`); an automation that has ended has closed its row or was cancelled (`EndedIsClosed`); what is still open
  while the workflow waits or processes is on its list, with an answer (`OpenIsAwaited`). The last two are why a
  group that ends leaves nothing open behind.
- `ApprovalInv` follows an approval's answer: from the desk to the signal and the record of decisions (`SignalsAreDecisions`,
  `NothingIsAnswered`), from a closed row back to an answer (`ClosedIsAnswered`), and from a processed group to an approval
  passed or skipped (`UnmanagedIsPassed`, `ProcessedIsPassed`, `EarlierIsPassed`, `FulfilledIsDone`). A person's UPDATE alone closes
  the row without approving anything, so the row is not enough: `ClosedIsAnswered` needs the signal before the UPDATE.
- `JourneyInv` is what the refinement of `RequestJourney` needs besides: the workflow's place tells how the request stands (`Standings`),
  a handler about to signal an approval has one of the present group or an earlier one (`AskedInTurn`), and what the workflow is about to do has its reason,
  which stays (`EndsForAReason`). The stage is the group, the answers of an approval are its decisions, and withdrawn is the cancellation heard.
  The journey lets a stage at which an automation runs be refused without an answer, since what an automation computes is not modelled.
  Signals to, and answers of, approvals of earlier stages and double answers are steps of the journey; calls repeated after a fault are stutters.

## 7. Knowledge articles and their review

`status[a]` is the status of version `a` of one article, `approvals[a]` its rows by step, `job[a]` and `run[a]` its review. `desk[h]` is a handler between
its statements: `PatchRead` / `PatchWrite`, `SubmitRead` / `Withdraw` / `SetReview` / `Ask` / `Enqueue`, `DecideRead` / `DecideWrite` / `DecideSignal`, `Publish` / `Retire`,
`VersionRead` / `VersionInsert`. The workflow is `Start`, `EnterReview`, `Proceed` (the condition on a step's decision or its timer), `BackToDraft`, `PublishReviewed`, `RetireReplaced`; `Repeat` and
`Fail` are attempts that are lost. `round` tells rows apart that a resubmission deleted from those it inserted. `Day` lets time pass for every running workflow; faults are handlers that die,
signals and attempts that are lost. `given` remembers the decisions people took, `interrupted` the versions whose publication was cut between its two UPDATEs.

| Run | Instance | Shows |
| --- | --- | --- |
| `Knowledge` | 2 handlers, 2 versions, 2 steps, both waits 2 days, 4 requests, 1 fault | `TypeOK`, `ReviewersDecide`, `OnePublishedVersion`, `HeardReviewsEnd` |

Two handlers and two versions are the least at which publications overlap; two steps let decisions arrive in either order and be rejected after an approval;
four requests hold a submission, both decisions and one thing that disturbs them. *Fairness*: weak fairness of `RunStep(a)`, Temporal keeps a workflow running. `HeardReviewsEnd` claims the end only of a
review that has heard every decision, since a signal that is lost cannot be repeated.

*Proved* (`KnowledgeApproval_proofs`), for any number of versions, steps and handlers with `KnowledgeAssumption`, whose only claim is that a step's wait is not
shorter than the workflow's limit: `KnowledgeTypeCorrect`, `ReviewsAreDecided`, `OneVersionIsPublished`. `KnowledgeInv` adds to the properties that a signal on its way is of a
decision given (`DeskInv`), that the workflow has heard only such (`HeardInv`), and that a running workflow is younger than its limit and has passed each earlier step on an approval (`WaitInv`). The last is why the timer
that falls through like an approval never publishes anything: the limit, counted from the start, comes first.

## 8. Alerts and the incidents they open

A row is `[was, is, by]`: its committed value, what its writer made of it, and the writer. `Seen` is what a statement of READ COMMITTED sees, `Free` whether it has to wait.
A delivery goes through `Record` (the unique message), `Find`, `Close`, `Judge` / `Resolve` (`clearIncident`), `Upsert` (the unique index on open episodes), `Reuse`, `Apply`, `Reopen`, then `Commit`; `Rollback` is a statement
that fails, `BreakDeadlock` what Postgres does to one of those that wait for each other. People change the status of incidents or comment on them (`SetStatus`, `Comment`), change windows begin and end
(`Window`). `settled` remembers what the last delivery that was not overtaken said of an alarm, `disturbed` the alarms whose deliveries were.

| Run | Instance | Shows |
| --- | --- | --- |
| `Alerts` | 3 deliveries, 2 at a time; one alarm with two onsets, another alarm; lists of one and two messages, two in opposite order; 3 episodes, 3 incidents, 1 event beside them | `TypeOK`, `IncidentsAreLinked`, `OneIncident`, `LastMessageDecides`, `WorkIsKept`, `DeliveriesEnd` |

Three deliveries hold a firing, its clearing and a return of the alarm, two of them overlapping; two lists in opposite order are the least that deadlocks. *Fairness*: weak fairness of each delivery's statements and of
`BreakDeadlock`.

`disturbed` collects the alarms of which a statement made an episode look younger or older than it is: `last_seen_at` is when the transaction began, so one that waited for a lock stamps its episode
with a time before that of an episode it came after; a clearing that waited for another one stamps an episode that is closed already, since the UPDATE of the close does not look at the status again; and
a change window may begin or end between the two looks at it. `OneIncident` is about all other alarms, `LastMessageDecides` about messages of which no other delivery was in progress.

*Proved* (`AlertEpisodes_proofs`), for any deliveries, alarms, lists of messages, episodes and incidents, with `AlertsAssumption`: all safety properties of the run.

- `AlertRowsKept`, `AlertsTypeCorrect`: `TypeOK` is not inductive, because a delivery goes by what it read before it waited. `TypeInv` adds what every row keeps through its writers (`RowsInv`: nothing committed
  vanishes or changes its alarm, an episode keeps its incident and stays resolved), what a delivery has in hand (`HoldInv`), and that whoever sees an episode sees its incident (`LinkInv`).
- `AlertIncidentsLinked`: `OpenedInv` says that a delivery which has opened an incident has linked it, before its commit makes both visible. `AlertWorkKept` follows from `RowsInv`.
- `AlertLastMessageDecides`: `LastInv`. `OneFires` is what the unique index on open episodes keeps true of committed rows and of those still being written; `Desk` and `AloneInv` say which alarms a delivery may have written; and an alarm that only
  one delivery is about is as its last message says (`AsSaid`), except while that message is dealt with.
- `AlertsCalm`, `AlertOneIncident`: `CalmInv`. Of an undisturbed alarm, every episode but the latest is over and no other is stamped later (`OverInv`), the incidents left behind were cancelled (`LeftInv`), and a
  delivery about to open another has passed over cancelled ones only (`AboutInv`). That there is a latest episode uses well-foundedness of `<` on the stamps.

## 9. Major incidents

`status`, `linked`, `incident` (whether each linked one is open) and `postmortem` are the tables; `desk[h]` is a handler between its statements; `run` is `majorIncidentWorkflow`, whose finalizing activity goes through
`SetResolved`, `LookForPostmortem`, `InsertPostmortem` (which may meet the row of a person), `SelectLinked`, `CloseOne`, `Finalized`; `reminder` is the child that outlives it. `Repeat` and `Fail` are attempts that are lost after, or
before, they took effect. `owed` remembers the incidents linked when the major incident was last set to resolved, `spared` those people opened again or whose update failed (the activity logs it and goes on).

| Run | Instance | Shows |
| --- | --- | --- |
| `Major` | 2 handlers, 2 incidents, 5 requests, 2 faults | `TypeOK`, `RejectedStaysDown`, `ClosedTogether`, `NoRelapse`, `RemindersEnd` |

Five requests hold a promotion, two managers on it, a resolution and a postmortem. *Fairness*: weak fairness of `RunStep` and of `Remind`, the steps and timers Temporal runs.

*Proved* (`MajorIncident_proofs`), for any incidents, handlers and bounds with `MajorAssumption`: `MajorTypeCorrect`, `RejectionsStand`, `FinalizedTogether` and the action property `ResolutionIsFinal`.
`MajorInv` adds that nothing exists before its row does (`AbsentInv`), that without an acceptance there is neither a job nor a handler about to write one nor a workflow (`UnacceptedInv`), and what each
position inside the finalizing activity has already seen done (`FinalInv`): the last is what makes a repeated attempt harmless.

## 10. Changes

`status`, `window`, `approvals`, `blocked` are the tables; a handler reads a change once, then `Weigh` and `Count` (conflicts), `Withdraw`, `Existing` and `Ask` (approvals, one row at a time), `WriteStatus`, `Refresh`; a decision is `Decide`, then
`Refuse` or `Tally` and `Admit`; `Patch` writes any status or window. No UPDATE has a condition, so the properties hold only of changes that were not `patched`, asked for approval
once more (`late`), decided before they waited for it (`hasty`), or scheduled by override or on an old look (`raced`); the histories say which, and what remains is what overlapping handlers cannot break.

| Run | Instance | Shows |
| --- | --- | --- |
| `Change` | 2 handlers, 2 changes of high risk (one an emergency, one that may be patched), 2 windows, 2 approvals required, 4 rows per change, 3 events; symmetric handlers and windows | `TypeOK`, `ApprovalsDecide`, `NoBlockedSchedule` |

Changes may begin anywhere on their way, so three events are enough for two overlapping requests and a third that was in between. Two approvals are the least at which two approvers can each be the last. No fairness is assumed: a handler that stops leaves a
change where it is, which `ApprovalsDecide` allows for (`cut`).

*Proved* (`ChangeControl_proofs`), for any changes, windows, handlers and numbers of approvals with `ChangeAssumption`: `ChangeTypeCorrect`, `NobodyIsPassedOver`, `ScheduledApart`. `ChangeInv` follows what a handler has seen of its change until
it writes (`DeskInv`, by `StillTrue`: it stays true unless the change is touched), and what the status says of the approvals (`Undecided`, `Drafts`). `ScheduledApart` needs `FreshInv` besides: what a scheduling
handler has found about conflicts holds as long as nobody has moved since.

## 11. Where code and documentation differ

One of these is a run that TLC must find violated. `RejectionLost`: `catalog-fulfillment.ts` rejects a request when an approval is rejected; with two approvers of one task at once it
fulfills a request that has a rejected approval on record, because both answers are accepted and the signal of one and the UPDATE of the other win.

Seen while modelling, without a run of their own. The models have each of these behaviours, or leave it out where their header says so.

*Queue.* The payload validator refuses notifications of alerts (`workflow-start-queue.ts:137`, against
`docs/EVENT_MANAGEMENT.md:47`). The alert on failed jobs in `docs/OBSERVABILITY.md:18` cannot fire, since no job is ever given up.

*Incidents.* "Start/reset auto-close timer when resolved" (`incidents/routes.ts:1730`): the second resolution meets the completed row of the first in the queue, and no timer is started. "Auto-closes incidents that remain in 'resolved' for N days" (`incident-auto-close.ts:22`): bulk close, automations, closed changes, and a reply or PATCH that read the incident before it was resolved move it out of resolved, or into it, without telling the timer, and a PATCH from
closed to `in_progress` does not cancel it either, since it looks at the status it has read (`incidents/routes.ts:1760`). The timer of the first resolution then closes a later one early. Handlers do not wait for the calls, so a cancellation may also come after the next resolution, or before the job it should have cancelled is started. Resuming extends the due dates "by
the paused duration" (`sla.ts:503`): two requests that overlap extend them twice. "While sla_paused_at is set, the workflow polls and does not fire breach" (`incident-escalation.ts:42`): it decides on an earlier read, and marks an
incident that was paused since. Bulk close leaves the clock paused (`incidents/routes.ts:591`); a reply read before a resolution and written after it reopens the incident (`:1892`).

*Catalog.* A retried attempt of an automation that was given the outcome of its first approval resumes the second with it (`catalog-automation-activities.ts:525`).
`POST /:id/approve` (`requests/routes.ts:823`) decides any request that is in `pending_approval`, also one that has tasks and whose workflow is waiting: a rejection leaves its tasks open and the workflow going on, to fulfill it in the end. `NothingStaysOpen` and
`JourneyIsKept` hold of what the workflow and the answers to its tasks do, not of this handler, which `CatalogFulfillment` leaves out. An item without tasks ends its workflow with the request in progress (`catalog-fulfillment.ts:68`), and is left out as well.

*Knowledge.* A decision signalled before the workflow has started is lost and cannot be given again. A resubmission leaves the running workflow with the decisions it has heard; after a review that
ended, it finds its job completed and no workflow is started. A PATCH that read a draft and writes after the publication edits a published article (`knowledge/routes.ts:394`). Two publications at once can retire each other. Two reviewers can decide the same step, and the last
row wins.

*Alerts.* A repeat with the same start time has the same external id and is dropped as a duplicate, so "A later `firing` … updates the open alert" (`docs/EVENT_MANAGEMENT.md:21`) and "opens it
then" (`:46`) do not happen for it. The reuse of a previous incident does not look at suppression (`:50`). A clearing that arrives while the firing is not committed is dropped, and one that read no incident leaves the incident uncleared. A clearing that waited for another one stamps the episode the other has closed, which then looks like the latest of its alarm: after a newer episode, a return
of the alarm is given the old incident or opens another. A
comment between the look of `clearIncident` and its UPDATE is ignored (`:52`). Jobs of a new incident are enqueued before the commit: the escalation may find no incident, and they survive a rollback.

*Major incidents.* A resolution signalled before the workflow started leaves the major incident in monitoring until somebody resolves it again. A handler that dies between the acceptance and the enqueueing
(`major-incidents/routes.ts:336`) leaves it declared without a workflow. An incident linked after the finalizing SELECT is never resolved with it. Action items are read, changed and written back as one JSON value, so one of
two concurrent changes is lost.

*Changes.* An approval after a rejection sets the change to approved; decisions revive cancelled changes and those under way. A decision between the INSERTs of `request_approval` finds no row pending, approves, and the next row
is inserted pending. Two schedules at once miss each other. Any transition may bring a new window that is not weighed (`changes/routes.ts:1701`). PATCH sets any status and window.

*Data source schedules* (no module). A dispatcher that has checked `schedule_enabled` may create the schedule after a PATCH or DELETE; a late one may write an old cron expression over the new one.

## 12. What is not proved, and why

Liveness (`FirstRequestsAreServed`, `RequestIsDecided`, `OverdueIsMarked`, `HeardReviewsEnd`, `DeliveriesEnd`, `RemindersEnd`) and the refinement with fairness (`OutboxService`) are only
model-checked: fairness is out of the prover's reach. All other properties of the passing runs
are theorems. There are no recursive definitions, so nothing needs induction over data; where a latest element is taken, its existence follows from the library's theorem on minimal elements.

Not modelled: everything in part 1 that has no module. Data source schedules, the pools of the worker and what the closure of a change does to other records come next
(section 2). The automation runtime is an interpreter of data whose effects `CatalogFulfillment` abstracts to gates and results; the CMDB, configuration packages, migration, dashboards, administration and the assistants are CRUD in one transaction,
pure transformations or calls of external services, with no interleaving of their own that a model could add to; the web client only sends the requests whose handlers are modelled. By lines these are most of the repository; by state that several
actors change at once they are little of it.
