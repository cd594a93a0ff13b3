---------------------------- MODULE IncidentTimers ----------------------------
(***************************************************************************)
(* An incident with both of its workflows: the escalation of               *)
(* IncidentEscalation and the timer that closes resolved incidents.        *)
(*                                                                         *)
(* A PATCH that resolves the incident puts a job into the queue, from      *)
(* which a dispatcher starts the timer some time later; a PATCH or an      *)
(* alert that takes it out of resolved cancels the timer.  Neither waits   *)
(* for its call, which may come late, after a later one, or never.  The    *)
(* other writers of the status tell the timer nothing.                     *)
(***************************************************************************)
EXTENDS IncidentEscalation

CONSTANT CloseDelay   \* autoCloseAfterDays

ASSUME TimersAssumption == CloseDelay \in Nat

VARIABLES
  job,    \* the row incident_autoclose_start of the queue
  timer,  \* where the auto-close workflow is
  fire,   \* when its sleep ends
  calls,  \* what is on its way to the queue and to the timer; of two calls of a
          \* kind the second would find done what it asks for
  since,  \* history: when the incident last became resolved
  loose,  \* history: whether a resolution's timer, or its start, was left standing
          \* when the resolution was over
  lost    \* a call was lost, an activity was repeated or the timer's workflow failed

closing   == <<job, timer, fire, calls, since, loose, lost>>
timerVars == <<vars, closing>>

TimerTypeOK ==
  /\ TypeOK
  /\ job \in {"absent", "pending", "completed"}
  /\ timer \in {"none", "sleep", "close", "ended"}
  /\ fire \in Nat
  /\ calls \subseteq {"enqueue", "cancel"}
  /\ since \in Nat
  /\ loose \in BOOLEAN
  /\ lost \in BOOLEAN

TimerInit ==
  /\ Init
  /\ job = "absent"
  /\ timer = "none"
  /\ fire = 0
  /\ calls = {}
  /\ since = 0
  /\ loose = FALSE
  /\ lost = FALSE

Running == timer \in {"sleep", "close"}

Entering == row.status # "resolved" /\ row'.status = "resolved"
Leaving  == row.status = "resolved" /\ row'.status # "resolved"

\* A resolution is over while its timer's start is still to come, while its timer
\* is closing it, or with nobody cancelling its timer; or the next one begins
\* before the cancellation is there.
Loosened ==
  \/ Leaving /\ ("enqueue" \in calls \/ job = "pending" \/ timer' = "close")
  \/ Leaving /\ timer' = "sleep" /\ "cancel" \notin calls'
  \/ Entering /\ "cancel" \in calls /\ Running

Remember ==
  /\ since' = IF Entering THEN now ELSE since
  /\ loose' = (loose \/ Loosened)

GoesWrong ==
  /\ ~lost
  /\ lost' = TRUE

-----------------------------------------------------------------------------
(***************************************************************************)
(* What requests and alerts do about the timer.                            *)
(***************************************************************************)

\* A PATCH compares the status it writes with the one it has read.
PatchTells(to, from) ==
  IF to \in {"unset", from.status} THEN {}
  ELSE IF to = "resolved" THEN {"enqueue"}
  ELSE IF from.status = "resolved" THEN {"cancel"}
  ELSE {}

Tell(some) == calls' = calls \cup some

RequestAndTimer ==
  /\ \/ \E body \in Bodies, fulfiller \in BOOLEAN :
          \/ /\ Patch(body, fulfiller)
             /\ Tell(PatchTells(WrittenStatus(body, row), row))
          \/ /\ PatchSlowly(body, fulfiller)
             /\ Tell(PatchTells(WrittenStatus(body, seen), seen))
     \/ AlertRefires /\ Tell({"cancel"})
     \/ (SilentWrite \/ AlertClears) /\ Tell({})
  /\ UNCHANGED <<job, timer, fire, lost>>
  /\ Remember

-----------------------------------------------------------------------------
(***************************************************************************)
(* The calls on their way.                                                 *)
(***************************************************************************)

\* enqueueIncidentAutoCloseStartJob: a completed row stays as it is.
Enqueued == job' = IF job = "completed" THEN "completed" ELSE "pending"

EnqueueArrives ==
  /\ "enqueue" \in calls
  /\ calls' = calls \ {"enqueue"}
  /\ Enqueued
  /\ UNCHANGED <<vars, timer, fire, since, loose, lost>>

\* Mutant: an incident that leaves resolved keeps its timer.
CancelledNever == UNCHANGED timer

\* cancelIncidentAutoClose ends a workflow that runs; an activity that has been
\* handed out may still be carried out.
Cancelled ==
  \/ timer' = IF Running THEN "ended" ELSE timer
  \/ timer = "close" /\ UNCHANGED timer

CancelArrives ==
  /\ "cancel" \in calls
  /\ calls' = calls \ {"cancel"}
  /\ Cancelled
  /\ UNCHANGED <<vars, job, fire, since, loose, lost>>

\* Errors of either call are logged and forgotten.
CallLost ==
  /\ GoesWrong
  /\ \E call \in calls :
       /\ calls' = calls \ {call}
       /\ loose' = (loose \/ (call = "cancel" /\ Running))
  /\ UNCHANGED <<vars, job, timer, fire, since>>

CallEnds == EnqueueArrives \/ CancelArrives \/ CallLost

-----------------------------------------------------------------------------
(***************************************************************************)
(* The workflow incidentAutoClose.                                         *)
(***************************************************************************)

\* A dispatcher starts it, and it sleeps first; one that runs already is left
\* alone.  A dispatcher that dies before the job is completed leaves the job to
\* be taken up again.
StartTimer ==
  /\ job = "pending"
  /\ \/ job' = "completed" /\ UNCHANGED lost
     \/ GoesWrong /\ UNCHANGED job
  /\ IF Running
     THEN UNCHANGED <<timer, fire>>
     ELSE timer' = "sleep" /\ fire' = now + CloseDelay
  /\ UNCHANGED <<vars, calls, since, loose>>

\* getIncident
LookAgain ==
  /\ timer = "sleep"
  /\ now >= fire
  /\ timer' = IF row.status = "resolved" THEN "close" ELSE "ended"
  /\ UNCHANGED <<vars, job, fire, calls, since, loose, lost>>

\* autoCloseIncident: the UPDATE has the status in its condition.  Once it has
\* committed the activity may be run again.
CloseIfResolved ==
  /\ timer = "close"
  /\ \/ timer' = "ended" /\ UNCHANGED lost
     \/ GoesWrong /\ UNCHANGED timer
  /\ IF row.status = "resolved" THEN TimerCloses ELSE UNCHANGED vars
  /\ UNCHANGED <<job, fire, calls>>
  /\ Remember

\* An activity fails three times, or the time limit, which is one day more than
\* the sleep, is reached.
TimerFails ==
  /\ Running /\ now >= fire
  /\ GoesWrong
  /\ timer' = "ended"
  /\ UNCHANGED <<vars, job, fire, calls, since, loose>>

TimerStep == StartTimer \/ LookAgain \/ CloseIfResolved \/ TimerFails

EscalationStep ==
  (WorkflowStep \/ RaiseIsCut \/ Expire \/ Fail \/ Tick) /\ UNCHANGED closing

TimerNext == EscalationStep \/ RequestAndTimer \/ CallEnds \/ TimerStep

TimerSpec == TimerInit /\ [][TimerNext]_timerVars

-----------------------------------------------------------------------------
(***************************************************************************)
(* What the timer promises.                                                *)
(***************************************************************************)

\* incident-auto-close.ts:22: "Auto-closes incidents that remain in 'resolved' for
\* N days".  Between the look and the UPDATE, as at any other time, a timer that
\* is about to close a resolved incident has waited that long since this
\* resolution, however often the incident was reopened and resolved again.
\* Excepted are incidents that once left resolved and kept their timer: through a
\* writer that does not cancel it (bulk close, an automation, a journal entry or
\* PATCH that had read the incident before it was resolved); while the timer's
\* job or the call for it was still under way; while the timer was closing the
\* incident already; or with a cancellation that was lost or that came after the
\* next resolution.
OnlyRestedIsClosed ==
  timer = "close" /\ row.status = "resolved" => loose \/ now >= since + CloseDelay

\* As long as no timer was left standing, a timer that is asked for, queued or
\* running is of the present resolution, or its cancellation is on its way; and
\* it does not end before its time.  A timer has been started from a job.
RestInv ==
  /\ job = "completed" => timer # "none"
  /\ timer # "none" => job # "absent"
  /\ since <= now
  /\ ~loose =>
       /\ "enqueue" \in calls \/ job = "pending" => row.status = "resolved"
       /\ timer = "sleep" => /\ row.status = "resolved" \/ "cancel" \in calls
                             /\ fire >= since + CloseDelay
       /\ timer = "close" => row.status = "resolved" /\ now >= since + CloseDelay
=============================================================================
