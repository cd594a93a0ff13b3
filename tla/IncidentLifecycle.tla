-------------------------- MODULE IncidentLifecycle --------------------------
(***************************************************************************)
(* One incident: its status, its pending reason and its two clocks, under  *)
(* the requests and background writers that change them.                   *)
(*                                                                         *)
(* Every statement of a request commits by itself.  PATCH /:id reads the   *)
(* row, computes from that snapshot which columns to write and writes them *)
(* in one later UPDATE; POST /:id/journal reads, moves the incident to     *)
(* in_progress and resumes the clocks in two further UPDATEs.  Other       *)
(* requests and the background writers run between these statements.       *)
(*                                                                         *)
(* Left out: the calls to Temporal.                                        *)
(***************************************************************************)
EXTENDS IncidentRow, FiniteSets

CONSTANTS
  Handlers,    \* requests that may be in progress at the same time
  Kinds,       \* which requests are sent: "patch", "reply", "note"
  Writers      \* which single-statement writers are active

WriterNames == {"bulk_close", "bulk_assign", "auto_close", "auto_assign",
                "resolve_linked", "close_change", "alerts", "automation"}

ASSUME LifecycleAssumption ==
  /\ Kinds \subseteq {"patch", "reply", "note"}
  /\ Writers \subseteq WriterNames

VARIABLES
  stage,      \* where each request handler is
  snap,       \* the row as the handler read it
  stood,      \* history: for how long the SLA clock has stood still
  overlapped  \* history: whether a request was read while another was in progress

lifecycleVars == <<row, now, stage, snap, requests, faults, stood, overlapped>>

Stages == {"idle", "patch", "move", "clear"}

LifecycleTypeOK ==
  /\ row \in Rows
  /\ now \in Nat
  /\ stage \in [Handlers -> Stages]
  /\ snap \in [Handlers -> Rows]
  /\ requests \in Nat
  /\ faults \in Nat
  /\ stood \in Nat
  /\ overlapped \in BOOLEAN

-----------------------------------------------------------------------------
(***************************************************************************)
(* Requests.                                                               *)
(***************************************************************************)

LifecycleInit ==
  /\ \E group \in {"plain", "ola"} : row = NewIncident(group)
  /\ now = 0
  /\ stage = [h \in Handlers |-> "idle"]
  /\ snap = [h \in Handlers |-> Blank]
  /\ requests = 0
  /\ faults = 0
  /\ stood = 0
  /\ overlapped = FALSE

\* The bound on requests and writers.
Counted ==
  /\ requests < MaxRequests
  /\ requests' = requests + 1

\* The SELECT with which a request begins.
Read(h, kind, next) ==
  /\ kind \in Kinds
  /\ stage[h] = "idle"
  /\ Counted
  /\ overlapped' = (overlapped \/ \E g \in Handlers : stage[g] # "idle")
  /\ stage' = [stage EXCEPT ![h] = next]
  /\ snap' = [snap EXCEPT ![h] = row]
  /\ UNCHANGED <<row, now, faults, stood>>

Done(h) ==
  /\ stage' = [stage EXCEPT ![h] = "idle"]
  /\ snap' = [snap EXCEPT ![h] = Blank]

PatchRead(h) == Read(h, "patch", "patch")

PatchWrite(h, fulfiller) ==
  /\ stage[h] = "patch"
  /\ \E body \in Bodies :
       /\ Accepted(body, fulfiller, snap[h])
       /\ row' = Patched(row, snap[h], body, now)
  /\ Done(h)
  /\ UNCHANGED <<now, requests, faults, stood, overlapped>>

PatchRefused(h) ==
  /\ stage[h] = "patch"
  /\ \E body \in Bodies, fulfiller \in BOOLEAN : ~Accepted(body, fulfiller, snap[h])
  /\ Done(h)
  /\ UNCHANGED <<row, now, requests, faults, stood, overlapped>>

\* The caller comments on an incident that waits for the caller.
ReplyRead(h) ==
  /\ row.status = "pending" /\ row.reason = "caller"
  /\ Read(h, "reply", "move")

\* A work note: its second SELECT, on which the status change depends.
NoteRead(h) ==
  \/ /\ row.status \notin Terminal \cup {"in_progress"}
     /\ Read(h, "note", "move")
  \/ /\ row.status \in Terminal \cup {"in_progress"}
     /\ IsPaused(row.sla)
     /\ Read(h, "note", "clear")

\* UPDATE incidents SET status = 'in_progress' WHERE id = $1
MoveToInProgress(h) ==
  /\ stage[h] = "move"
  /\ row' = [row EXCEPT !.status = "in_progress"]
  /\ IF snap[h].status = "pending" \/ IsPaused(snap[h].sla)
     THEN stage' = [stage EXCEPT ![h] = "clear"] /\ UNCHANGED snap
     ELSE Done(h)
  /\ UNCHANGED <<now, requests, faults, stood, overlapped>>

ClearPending(h) ==
  /\ stage[h] = "clear"
  /\ row' = Cleared(row, snap[h], now)
  /\ Done(h)
  /\ UNCHANGED <<now, requests, faults, stood, overlapped>>

\* A statement fails or the engine dies between two statements.
Die(h) ==
  /\ stage[h] # "idle"
  /\ faults < MaxFaults
  /\ faults' = faults + 1
  /\ Done(h)
  /\ UNCHANGED <<row, now, requests, stood, overlapped>>

RequestStep(h) ==
  \/ PatchRead(h) \/ PatchRefused(h)
  \/ \E fulfiller \in BOOLEAN : PatchWrite(h, fulfiller)
  \/ ReplyRead(h) \/ NoteRead(h) \/ MoveToInProgress(h) \/ ClearPending(h)
  \/ Die(h)

-----------------------------------------------------------------------------
(***************************************************************************)
(* Writers that change the incident in a single statement.                 *)
(***************************************************************************)

Write(writer, r) ==
  /\ writer \in Writers
  /\ Counted
  /\ row' = r
  /\ UNCHANGED <<now, stage, snap, faults, stood, overlapped>>

\* PATCH /bulk, action close.
BulkClose ==
  /\ row.status \notin {"closed", "cancelled"}
  /\ Write("bulk_close", [row EXCEPT !.status = "closed", !.closedAt = now])

\* PATCH /bulk, action assign_group.
BulkAssign ==
  /\ row.status \notin {"closed", "cancelled"}
  /\ \E group \in {"plain", "ola"} :
       Write("bulk_assign", [row EXCEPT !.ola = HandoffClock(group, IsPaused(row.sla), now)])

\* autoCloseIncident of the worker.
AutoClose ==
  /\ row.status = "resolved"
  /\ Write("auto_close", TimerClosed(row, now))

\* autoAssignIncident and applySlaActions of the worker.
AutoAssign ==
  /\ row.status = "new"
  /\ Write("auto_assign", AutoAssigned(row))

\* The closing of a major incident and the deflection to a knowledge article.
ResolveByRecord ==
  /\ row.status \notin Terminal
  /\ Write("resolve_linked", LinkedResolved(row, now))

\* syncRelatedRecords of a change that is closed successfully.
CloseChange ==
  Write("close_change", [row EXCEPT !.status = "resolved"])

\* clearIncident: the alert stops while nobody has worked on its incident.
ClearByAlert ==
  /\ row.status = "new"
  /\ Write("alerts", AlertCleared(row, now))

\* reopenLinkedIncident: the alert fires again.
RefireByAlert ==
  /\ row.status \in {"resolved", "closed"}
  /\ Write("alerts", Refired(row))

\* Mutant: the status text is not checked against the list of statuses.
AutomationUpdateUnchecked ==
  \E s \in Statuses \cup {"done"} : Write("automation", [row EXCEPT !.status = s])

\* Ticket actions of a catalog automation.
AutomationUpdate ==
  \E s \in Statuses : Write("automation", [row EXCEPT !.status = s])

AutomationClose ==
  Write("automation", [row EXCEPT !.status = "closed", !.closedAt = now])

Background ==
  \/ BulkClose \/ BulkAssign \/ AutoClose \/ AutoAssign \/ ResolveByRecord
  \/ CloseChange \/ ClearByAlert \/ RefireByAlert
  \/ AutomationUpdate \/ AutomationClose

ClockTicks ==
  /\ now < MaxTime
  /\ now' = now + 1
  /\ stood' = IF IsPaused(row.sla) THEN stood + 1 ELSE stood
  /\ UNCHANGED <<row, stage, snap, requests, faults, overlapped>>

LifecycleNext == (\E h \in Handlers : RequestStep(h)) \/ Background \/ ClockTicks

LifecycleSpec == LifecycleInit /\ [][LifecycleNext]_lifecycleVars

-----------------------------------------------------------------------------
(***************************************************************************)
(* What the lifecycle promises.                                            *)
(***************************************************************************)

\* As long as requests come one after the other, the due date is the one agreed at
\* creation plus the pauses recorded in sla_paused_ms: no sequence of requests,
\* background writers and deaths changes one without the other.
DueMatchesPausedTime == ~overlapped => row.sla.due = SlaDue + row.sla.pausedMs

\* As long as requests come one after the other, what is recorded, plus the pause
\* in progress, is exactly the time during which the clock stood still: no pause
\* is lost and none is counted twice, whatever writers come in between and even
\* when a reply dies between its two UPDATEs.
PauseIsCredited ==
  ~overlapped =>
    row.sla.pausedMs + (IF IsPaused(row.sla) THEN now - row.sla.pausedAt ELSE 0) = stood

\* What the records of both clocks say, plus a pause in progress, never exceeds
\* the time that has passed, which is what the attainment report subtracts it
\* from: however requests and writers interleave and die, sla_paused_at and
\* sla_paused_ms are written as a pair that was once true.
PausedTimeWithinElapsed ==
  \A c \in {row.sla, row.ola} :
    c.pausedMs + (IF IsPaused(c) THEN now - c.pausedAt ELSE 0) <= now
=============================================================================
