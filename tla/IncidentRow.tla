----------------------------- MODULE IncidentRow -----------------------------
(***************************************************************************)
(* The row of an incident: its status, its pending reason and its two      *)
(* clocks, and what the statements of requests and background writers make *)
(* of it.  IncidentLifecycle and IncidentEscalation describe who changes   *)
(* the row, and when.                                                      *)
(*                                                                         *)
(* Left out: the columns that neither the status nor the clocks depend on  *)
(* (assignee, responded_at, texts; IncidentEscalation adds the priority    *)
(* and the mark of a breach).  Notes are assumed to come with a PATCH that *)
(* resolves.                                                               *)
(***************************************************************************)
EXTENDS SlaClock

CONSTANTS
  SlaDue,      \* sla_due_at at creation
  OlaHours,    \* the handoff target of a group that has one
  Bodies,      \* the PATCH bodies that are sent
  MaxTime,     \* bound: the clock stops there
  MaxRequests, \* bound: requests and writers
  MaxFaults    \* bound: what goes wrong

ASSUME RowAssumption == SlaDue \in Nat /\ OlaHours \in Nat

Statuses == {"new", "assigned", "in_progress", "pending", "resolved", "closed",
             "cancelled"}
Terminal == {"resolved", "closed", "cancelled"}

\* waiting_for_caller, the other waiting_* reasons, and any other text.
PauseReasons == {"caller", "waiting"}
Reasons      == {"none", "other"} \cup PauseReasons

\* "unset": the body does not have the key.  A group either has handoff targets
\* or not, and is another one than the incident's.  A body with resolution notes
\* and no status acts as one with status resolved on an incident that is open.
BodyType == [status : Statuses \cup {"unset"},
             reason : Reasons \cup {"unset"},
             group  : {"unset", "plain", "ola"}]

Rows == [status : Statuses, reason : Reasons, sla : Clocks, ola : Clocks,
         resolvedAt : Times, closedAt : Times]

ASSUME RequestsAssumption ==
  /\ Bodies \subseteq BodyType
  /\ MaxTime \in Nat /\ MaxRequests \in Nat /\ MaxFaults \in Nat

VARIABLES
  row,      \* the row of the incident
  now,      \* the time
  requests, \* requests sent
  faults    \* what has gone wrong

-----------------------------------------------------------------------------
(***************************************************************************)
(* What the statements write.                                              *)
(***************************************************************************)

\* startOlaClock
HandoffClock(group, paused, t) ==
  IF group = "ola"
  THEN [pausedAt |-> IF paused THEN t ELSE NoTime, pausedMs |-> 0,
        due |-> t + OlaHours]
  ELSE NoClock

NewIncident(group) ==
  [status |-> "new", reason |-> "none",
   sla |-> [NoClock EXCEPT !.due = SlaDue],
   ola |-> HandoffClock(group, FALSE, 0),
   resolvedAt |-> NoTime, closedAt |-> NoTime]

Blank == NewIncident("plain")

\* updates.status after the status automation; "unset" when it is not written.
WrittenStatus(body, cur) ==
  IF body.status = "unset" /\ body.group # "unset" /\ cur.status \notin Terminal
  THEN "assigned" ELSE body.status

NextStatus(body, cur) ==
  IF WrittenStatus(body, cur) = "unset" THEN cur.status
  ELSE WrittenStatus(body, cur)

NextReason(body, cur) ==
  IF body.reason = "unset" THEN cur.reason ELSE body.reason

\* The 403 and 400 answers.
Accepted(body, fulfiller, cur) ==
  /\ \/ fulfiller
     \/ /\ body.reason = "unset" /\ body.group = "unset"
        /\ \/ body.status = "in_progress" /\ cur.status = "resolved"
           \/ body.status = "cancelled" /\ cur.status \notin {"closed", "cancelled"}
  /\ WrittenStatus(body, cur) = "pending" => NextReason(body, cur) # "none"

EnteringPause(body, cur) ==
  /\ NextStatus(body, cur) = "pending"
  /\ cur.status # "pending"
  /\ NextReason(body, cur) \in PauseReasons

LeavingPending(body, cur) ==
  cur.status = "pending" /\ WrittenStatus(body, cur) \notin {"unset", "pending"}

PatchedReason(body, cur, reason) ==
  IF WrittenStatus(body, cur) = "pending" THEN NextReason(body, cur)
  ELSE IF body.reason # "unset" THEN body.reason
  ELSE IF LeavingPending(body, cur) THEN "none"
  ELSE reason

\* Mutant: resuming forgets to extend the due dates.
PatchedSlaDueForgotten(body, cur, sla, t) ==
  IF EnteringPause(body, cur)
  THEN [sla EXCEPT !.pausedAt = Paused(cur.sla, t).pausedAt,
                   !.pausedMs = cur.sla.pausedMs]
  ELSE IF LeavingPending(body, cur) /\ IsPaused(cur.sla)
  THEN [Resumed(cur.sla, t) EXCEPT !.due = sla.due]
  ELSE sla

\* Mutant: pausing leaves sla_paused_ms to whoever wrote it last.
PatchedSlaTorn(body, cur, sla, t) ==
  IF EnteringPause(body, cur)
  THEN [sla EXCEPT !.pausedAt = Paused(cur.sla, t).pausedAt]
  ELSE IF LeavingPending(body, cur) /\ IsPaused(cur.sla)
  THEN Resumed(cur.sla, t)
  ELSE sla

\* Pausing writes sla_paused_at and sla_paused_ms but not the due dates.
PatchedSla(body, cur, sla, t) ==
  IF EnteringPause(body, cur)
  THEN [sla EXCEPT !.pausedAt = Paused(cur.sla, t).pausedAt,
                   !.pausedMs = cur.sla.pausedMs]
  ELSE IF LeavingPending(body, cur) /\ IsPaused(cur.sla)
  THEN Resumed(cur.sla, t)
  ELSE sla

PatchedOla(body, cur, ola, t) ==
  IF body.group # "unset"
  THEN IF NextStatus(body, cur) \in Terminal THEN ola
       ELSE HandoffClock(body.group,
                         /\ NextStatus(body, cur) = "pending"
                         /\ NextReason(body, cur) \in PauseReasons,
                         t)
  ELSE IF EnteringPause(body, cur) /\ cur.ola.due # NoTime
  THEN Paused(cur.ola, t)
  ELSE IF /\ LeavingPending(body, cur)
          /\ IsPaused(cur.sla)
          /\ IsPaused(cur.ola)
  THEN Resumed(cur.ola, t)
  ELSE ola

PatchedResolvedAt(to, cur, resolvedAt, t) ==
  IF to = "resolved" /\ cur.resolvedAt = NoTime THEN t
  ELSE IF to \notin {"unset", "resolved"} /\ cur.status = "resolved" THEN NoTime
  ELSE resolvedAt

\* The UPDATE of PATCH /:id: the columns come from the snapshot cur, the other
\* columns keep what r has by now.
Patched(r, cur, body, t) ==
  LET to == WrittenStatus(body, cur) IN
  [status     |-> IF to = "unset" THEN r.status ELSE to,
   reason     |-> PatchedReason(body, cur, r.reason),
   sla        |-> PatchedSla(body, cur, r.sla, t),
   ola        |-> PatchedOla(body, cur, r.ola, t),
   resolvedAt |-> PatchedResolvedAt(to, cur, r.resolvedAt, t),
   closedAt   |-> IF to = "closed" /\ cur.closedAt = NoTime THEN t ELSE r.closedAt]

\* clearPendingAndResumeSla: one UPDATE, with both clocks from the snapshot if
\* either of them is resumed.
Cleared(r, cur, t) ==
  IF IsPaused(cur.sla) \/ IsPaused(cur.ola)
  THEN [r EXCEPT !.reason = "none",
                 !.sla = Resumed(cur.sla, t),
                 !.ola = Resumed(cur.ola, t)]
  ELSE [r EXCEPT !.reason = "none"]

-----------------------------------------------------------------------------
(***************************************************************************)
(* Statements of other writers.                                            *)
(***************************************************************************)

AutoAssigned(r) == [r EXCEPT !.status = IF @ = "new" THEN "assigned" ELSE @]

LinkedResolved(r, t) ==
  [r EXCEPT !.status = "resolved", !.resolvedAt = IF @ = NoTime THEN t ELSE @]

AlertCleared(r, t) == [r EXCEPT !.status = "resolved", !.resolvedAt = t]

\* autoCloseIncident
TimerClosed(r, t) ==
  [r EXCEPT !.status = "closed", !.closedAt = IF @ = NoTime THEN t ELSE @]

Refired(r) ==
  [r EXCEPT !.status = "in_progress", !.resolvedAt = NoTime, !.closedAt = NoTime]
=============================================================================
