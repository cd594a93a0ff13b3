-------------------------- MODULE IncidentEscalation --------------------------
(***************************************************************************)
(* The escalation workflow of an incident with a resolution target.        *)
(*                                                                         *)
(* The workflow reads the incident, decides from what it has read when to  *)
(* wake up next, and marks a breach when the due date is over.  Reading,   *)
(* deciding and each activity are steps of their own: people pause,        *)
(* resolve, reopen and reprioritise the incident between them, and the     *)
(* clock moves on, a little or, when the worker is down, by much.          *)
(*                                                                         *)
(* One request at a time may be slow: others write between its SELECT and  *)
(* its UPDATEs.  IncidentLifecycle has several of them.  Left out: the     *)
(* response timer, which is the same code with other columns               *)
(* (response_due_at is null); notifications; the bulk assignment, which    *)
(* writes handoff targets only; and the return when there is no incident,  *)
(* since no code deletes one.                                              *)
(***************************************************************************)
EXTENDS IncidentRow

CONSTANTS
  Lowest,         \* the least urgent priority
  WarnLead,       \* how long before the due date the warning is given
  PauseTime,      \* PAUSE_POLL_MS
  FollowUpTime,   \* how long after a breach the workflow looks again
  ExecutionLimit  \* workflowExecutionTimeout

ASSUME EscalationAssumption ==
  /\ Lowest \in Nat \ {0}
  /\ WarnLead \in Nat
  /\ PauseTime \in Nat /\ FollowUpTime \in Nat /\ ExecutionLimit \in Nat

VARIABLES
  priority,  \* and its priority
  breached,  \* and sla_breached
  pc,        \* where the workflow is
  cur,       \* the incident as getIncident returned it
  target,    \* the priority to escalate to
  wake,      \* when the timer of the workflow fires
  warned,    \* resolutionWarned
  resolved,  \* the flag the signal handler sets
  started,   \* when the workflow was started
  slow,      \* what the slow request is about to write
  seen,      \* the incident as it has read it
  people     \* history: the priority people gave the incident

columns  == <<row, priority, breached>>
workflow == <<pc, cur, target, wake, warned, resolved, started>>
handler  == <<slow, seen>>
bounds   == <<requests, faults>>
vars     == <<columns, now, workflow, handler, bounds, people>>

Priorities == 1..Lowest

Ended == {"done", "expired", "failed"}

\* Where the workflow waits for an activity.
Calls == {"loop", "warn", "mark", "fresh", "raise", "settle"}

PCs == {"queued", "decide", "wait", "follow"} \cup Calls \cup Ended

TypeOK ==
  /\ row \in Rows
  /\ priority \in Priorities
  /\ breached \in BOOLEAN
  /\ now \in Nat
  /\ pc \in PCs
  /\ cur \in Rows
  /\ target \in Priorities
  /\ wake \in Int
  /\ warned \in BOOLEAN
  /\ resolved \in BOOLEAN
  /\ started \in Nat
  /\ requests \in Nat
  /\ faults \in Nat
  /\ slow \in {"idle", "patch", "move", "clear"}
  /\ seen \in Rows
  /\ people \in Priorities

IsOpen(r) == r.status \notin Terminal

RunsOver(r, t) == IsOpen(r) /\ ~IsPaused(r.sla) /\ r.sla.due <= t

\* The incident has been created and its escalation job is in the queue.
Init ==
  /\ row = Blank
  /\ priority \in Priorities
  /\ breached = FALSE
  /\ now = 0
  /\ pc = "queued"
  /\ cur = Blank
  /\ target = 1
  /\ wake = 0
  /\ warned = FALSE
  /\ resolved = FALSE
  /\ started = 0
  /\ requests = 0
  /\ faults = 0
  /\ slow = "idle"
  /\ seen = Blank
  /\ people = priority

-----------------------------------------------------------------------------
(***************************************************************************)
(* The workflow.                                                           *)
(***************************************************************************)

\* A dispatcher of the queue starts the workflow.
Start ==
  /\ pc = "queued"
  /\ pc' = "loop"
  /\ started' = now
  /\ UNCHANGED <<columns, now, cur, target, wake, warned, resolved, bounds, handler, people>>

\* while (!resolved) and the activity getIncident.
ReadIncident ==
  /\ pc = "loop"
  /\ IF resolved
     THEN pc' = "done" /\ UNCHANGED cur
     ELSE pc' = "decide" /\ cur' = row
  /\ UNCHANGED <<columns, now, target, wake, warned, resolved, started, bounds, handler, people>>

\* Mutant: what only calls for a warning counts as a breach.
IsBreachEarly(r, t) == t >= r.sla.due - WarnLead

IsBreach(r, t) == t >= r.sla.due

IsWarning(r, t) == ~warned /\ t >= r.sla.due - WarnLead /\ ~IsBreach(r, t)

WaitUntil(t) == pc' = "wait" /\ wake' = t

\* The next event of the incident that was read.
NextEvent(r) == IF warned THEN r.sla.due ELSE r.sla.due - WarnLead

Decide ==
  /\ pc = "decide"
  /\ \/ /\ ~IsOpen(cur)
        /\ pc' = "done" /\ UNCHANGED wake
     \/ /\ IsOpen(cur) /\ IsPaused(cur.sla)
        /\ WaitUntil(now + PauseTime)
     \/ /\ IsOpen(cur) /\ ~IsPaused(cur.sla)
        /\ \/ IsBreach(cur, now) /\ pc' = "mark" /\ UNCHANGED wake
           \/ IsWarning(cur, now) /\ pc' = "warn" /\ UNCHANGED wake
           \/ /\ ~IsBreach(cur, now) /\ ~IsWarning(cur, now)
              /\ WaitUntil(NextEvent(cur))
  /\ UNCHANGED <<columns, now, cur, target, warned, resolved, started, bounds, handler, people>>

\* handleWarning: the activities may also assign the incident.
Warn ==
  /\ pc = "warn"
  /\ row' \in {row, AutoAssigned(row)}
  /\ warned' = TRUE
  /\ WaitUntil(cur.sla.due)
  /\ UNCHANGED <<priority, breached, now, cur, target, resolved, started, bounds, handler, people>>

\* markSlaBreached; the incident's definition may leave its priority alone.
Mark ==
  /\ pc = "mark"
  /\ breached' = TRUE
  /\ pc' \in {"fresh", "settle"}
  /\ UNCHANGED <<row, priority, now, cur, target, wake, warned, resolved, started, bounds,
                 handler, people>>

\* Mutant: nothing stops an incident of the highest priority from going higher.
EscalatedUnbounded(p) == p - 1

\* Math.max(1, priority - 1)
Escalated(p) == IF p > 1 THEN p - 1 ELSE 1

ReadPriority ==
  /\ pc = "fresh"
  /\ target' = Escalated(priority)
  /\ pc' = IF Escalated(priority) < priority THEN "raise" ELSE "settle"
  /\ UNCHANGED <<columns, now, cur, wake, warned, resolved, started, bounds, handler, people>>

\* Mutant: without AND priority > $1.
RaisedAlways(p) == target

\* UPDATE incidents SET priority = $1 WHERE id = $2 AND priority > $1
Raised(p) == IF p > target THEN target ELSE p

Raise ==
  /\ pc = "raise"
  /\ priority' = Raised(priority)
  /\ pc' = "settle"
  /\ UNCHANGED <<row, breached, now, cur, target, wake, warned, resolved, started, bounds,
                 handler, people>>

\* The UPDATE has committed and the activity is run again.
RaiseIsCut ==
  /\ pc = "raise"
  /\ faults < MaxFaults
  /\ faults' = faults + 1
  /\ priority' = Raised(priority)
  /\ UNCHANGED <<row, breached, now, workflow, requests, handler, people>>

\* The other actions of a breach, and the end of the loop.
Settle ==
  /\ pc = "settle"
  /\ row' \in {row, AutoAssigned(row)}
  /\ IF resolved
     THEN pc' = "done" /\ UNCHANGED wake
     ELSE pc' = "follow" /\ wake' = now + FollowUpTime
  /\ UNCHANGED <<priority, breached, now, cur, target, warned, resolved, started, bounds, handler, people>>

\* Mutant: the end of a wait ends the workflow.
WakeUpEnds ==
  /\ pc = "wait"
  /\ resolved \/ now >= wake
  /\ pc' = "done"
  /\ UNCHANGED <<columns, now, cur, target, wake, warned, resolved, started, bounds, handler, people>>

\* condition(() => resolved, waitMs)
WakeUp ==
  /\ pc = "wait"
  /\ resolved \/ now >= wake
  /\ pc' = IF resolved THEN "done" ELSE "loop"
  /\ UNCHANGED <<columns, now, cur, target, wake, warned, resolved, started, bounds, handler, people>>

\* The sleep after a breach, and a last look at the incident.
FollowUp ==
  /\ pc = "follow"
  /\ now >= wake
  /\ pc' = "done"
  /\ UNCHANGED <<columns, now, cur, target, wake, warned, resolved, started, bounds, handler, people>>

\* Temporal ends an execution that has taken too long.
Expire ==
  /\ pc \notin Ended \cup {"queued"}
  /\ now >= started + ExecutionLimit
  /\ pc' = "expired"
  /\ UNCHANGED <<columns, now, cur, target, wake, warned, resolved, started, bounds, handler, people>>

\* The last of an activity's attempts fails, and the workflow with it.
Fail ==
  /\ pc \in Calls
  /\ faults < MaxFaults
  /\ faults' = faults + 1
  /\ pc' = "failed"
  /\ UNCHANGED <<columns, now, cur, target, wake, warned, resolved, started, requests, handler, people>>

WorkflowStep ==
  \/ Start \/ ReadIncident \/ Decide \/ Warn \/ Mark \/ ReadPriority \/ Raise
  \/ Settle \/ WakeUp \/ FollowUp

-----------------------------------------------------------------------------
(***************************************************************************)
(* People and other writers.                                               *)
(***************************************************************************)

Sent ==
  /\ requests < MaxRequests
  /\ requests' = requests + 1

\* signalIncidentResolved: nothing happens without a running workflow, and an
\* error is logged and forgotten.
Signal ==
  \/ /\ resolved' = (resolved \/ pc \notin Ended \cup {"queued"})
     /\ UNCHANGED faults
  \/ /\ faults < MaxFaults
     /\ faults' = faults + 1
     /\ UNCHANGED resolved

NoSignal == UNCHANGED <<resolved, faults>>

\* The UPDATE and the signal of PATCH /:id, which has read the incident as from.
PatchFrom(from, body, fulfiller) ==
  LET to == WrittenStatus(body, from) IN
  /\ Accepted(body, fulfiller, from)
  /\ row' = Patched(row, from, body, now)
  /\ IF to \in Terminal /\ to # from.status THEN Signal ELSE NoSignal
  /\ UNCHANGED <<priority, breached, now, pc, cur, target, wake, warned, started, people>>

\* PATCH /:id
Patch(body, fulfiller) ==
  /\ Sent
  /\ PatchFrom(row, body, fulfiller)
  /\ UNCHANGED handler

\* PATCH /:id with another urgency, or an accepted suggestion.
Reprioritise ==
  /\ Sent
  /\ priority' \in Priorities
  /\ people' = priority'
  /\ UNCHANGED <<row, breached, now, workflow, handler, faults>>

\* The closing of a major incident and the deflection to a knowledge article: the
\* workflow is not told.
ResolveLinked ==
  /\ Sent
  /\ IsOpen(row)
  /\ row' = LinkedResolved(row, now)
  /\ UNCHANGED <<priority, breached, now, workflow, faults, handler, people>>

\* clearIncident
AlertClears ==
  /\ Sent
  /\ row.status = "new"
  /\ row' = AlertCleared(row, now)
  /\ Signal
  /\ UNCHANGED <<priority, breached, now, pc, cur, target, wake, warned, started, handler, people>>

\* reopenLinkedIncident
AlertRefires ==
  /\ Sent
  /\ row.status \in {"resolved", "closed"}
  /\ row' = Refired(row)
  /\ UNCHANGED <<priority, breached, now, workflow, faults, handler, people>>

\* The auto-close timer closes an incident that is resolved, and tells nobody.
TimerCloses ==
  /\ row.status = "resolved"
  /\ row' = TimerClosed(row, now)
  /\ UNCHANGED <<priority, breached, now, workflow, bounds, handler, people>>

\* PATCH /bulk, action close.
BulkCloses ==
  /\ Sent
  /\ row.status \notin {"closed", "cancelled"}
  /\ row' = [row EXCEPT !.status = "closed", !.closedAt = now]
  /\ UNCHANGED <<priority, breached, now, workflow, faults, handler, people>>

\* A change that is closed successfully resolves its incident, whatever it is in.
ChangeCloses ==
  /\ Sent
  /\ row' = [row EXCEPT !.status = "resolved"]
  /\ UNCHANGED <<priority, breached, now, workflow, faults, handler, people>>

\* Ticket actions of a catalog automation.
AutomationWrites ==
  /\ Sent
  /\ \/ \E s \in Statuses : row' = [row EXCEPT !.status = s]
     \/ row' = [row EXCEPT !.status = "closed", !.closedAt = now]
  /\ UNCHANGED <<priority, breached, now, workflow, faults, handler, people>>

-----------------------------------------------------------------------------
(***************************************************************************)
(* The slow request.                                                       *)
(***************************************************************************)

\* The SELECT of a PATCH, of the caller's reply to an incident that waits for
\* the caller, and of a work note.
ReadSlowly ==
  /\ Sent
  /\ slow = "idle"
  /\ \/ slow' = "patch"
     \/ row.status = "pending" /\ row.reason = "caller" /\ slow' = "move"
     \/ row.status \notin Terminal \cup {"in_progress"} /\ slow' = "move"
     \/ row.status \in Terminal \cup {"in_progress"} /\ IsPaused(row.sla) /\ slow' = "clear"
  /\ seen' = row
  /\ UNCHANGED <<columns, now, workflow, faults, people>>

Answered == slow' = "idle" /\ seen' = Blank

PatchSlowly(body, fulfiller) ==
  /\ slow = "patch"
  /\ PatchFrom(seen, body, fulfiller)
  /\ Answered
  /\ UNCHANGED requests

\* UPDATE incidents SET status = 'in_progress' WHERE id = $1
MoveSlowly ==
  /\ slow = "move"
  /\ row' = [row EXCEPT !.status = "in_progress"]
  /\ IF seen.status = "pending" \/ IsPaused(seen.sla)
     THEN slow' = "clear" /\ UNCHANGED seen
     ELSE Answered
  /\ UNCHANGED <<priority, breached, now, workflow, bounds, people>>

ClearSlowly ==
  /\ slow = "clear"
  /\ row' = Cleared(row, seen, now)
  /\ Answered
  /\ UNCHANGED <<priority, breached, now, workflow, bounds, people>>

\* The PATCH is refused, a statement fails or the engine dies.
GivesUp ==
  /\ slow # "idle"
  /\ Answered
  /\ UNCHANGED <<columns, now, workflow, bounds, people>>

\* Writers the workflow hears nothing of.
SilentWrite ==
  \/ Reprioritise \/ ResolveLinked \/ BulkCloses \/ ChangeCloses \/ AutomationWrites
  \/ ReadSlowly \/ MoveSlowly \/ ClearSlowly \/ GivesUp

Request ==
  \/ \E body \in Bodies, fulfiller \in BOOLEAN :
       Patch(body, fulfiller) \/ PatchSlowly(body, fulfiller)
  \/ SilentWrite \/ AlertClears \/ AlertRefires

Tick ==
  /\ now < MaxTime
  /\ now' = now + 1
  /\ UNCHANGED <<columns, workflow, bounds, handler, people>>

Next == WorkflowStep \/ RaiseIsCut \/ Expire \/ Fail \/ Request \/ TimerCloses \/ Tick

Spec == Init /\ [][Next]_vars

\* Temporal keeps a workflow running and fires its timers; time passes.
Fairness == WF_vars(WorkflowStep) /\ WF_vars(Tick)

FairSpec == Spec /\ Fairness

-----------------------------------------------------------------------------
(***************************************************************************)
(* What escalation promises.                                               *)
(***************************************************************************)

\* No breach is on record before the due date agreed at creation, however often
\* the clock is paused and resumed between what the workflow reads and marks.
NoBreachBeforeAgreement == breached => now >= SlaDue

\* Only a recorded breach escalates, and only upwards: if the priority is not
\* the one people gave last, it is more urgent and the breach is on record, even
\* if people change it between the workflow's read and its UPDATE or the UPDATE
\* is repeated.
OnlyBreachesEscalate == priority # people => priority < people /\ breached

\* An incident that is never resolved and whose clock in the end runs past its
\* due date is marked, unless its workflow has failed, has reached its time
\* limit or waits for a time beyond the bound: no pause makes the workflow
\* forget the incident.
OverdueIsMarked ==
  [](IsOpen(row)) /\ <>[](RunsOver(row, now)) =>
    <>(breached \/ pc \in {"expired", "failed"} \/ (pc = "wait" /\ wake > MaxTime))
=============================================================================
