----------------------- MODULE IncidentLifecycle_proofs -----------------------
(***************************************************************************)
(* Lemmas about the row of an incident: every statement leaves a row       *)
(* behind, and none moves its due date back.  Theorems about               *)
(* IncidentLifecycle: type correctness, the soundness of the recorded      *)
(* pauses under any interleaving, and the exactness of the SLA clock when  *)
(* requests come one at a time.                                            *)
(***************************************************************************)
EXTENDS IncidentLifecycle, TLAPS

-----------------------------------------------------------------------------
(***************************************************************************)
(* Clocks and rows.                                                        *)
(***************************************************************************)

\* Pausing, resuming and restarting a clock yields a clock.
LEMMA ClockType ==
  ASSUME NEW c \in Clocks, NEW d \in Clocks, NEW t \in Nat, NEW group, NEW p \in BOOLEAN
  PROVE  /\ Paused(c, t) \in Clocks
         /\ Resumed(c, t) \in Clocks
         /\ HandoffClock(group, p, t) \in Clocks
         /\ [d EXCEPT !.pausedAt = Paused(c, t).pausedAt, !.pausedMs = c.pausedMs] \in Clocks
<1> USE NoTimeAssumption, RowAssumption DEF Clocks, Times
<1>1. IsPaused(c) => Standstill(c, t) \in Nat
  BY DEF Standstill, IsPaused
<1>2. Paused(c, t) \in Clocks
  BY DEF Paused, IsPaused
<1>3. Resumed(c, t) \in Clocks
  <2>1. CASE ~IsPaused(c)
    BY <2>1 DEF Resumed
  <2>2. CASE IsPaused(c)
    <3>1. (IF c.due = NoTime THEN NoTime ELSE c.due + Standstill(c, t)) \in Times
      BY <1>1, <2>2
    <3> QED BY <1>1, <2>2, <3>1 DEF Resumed
  <2> QED BY <2>1, <2>2
<1>4. HandoffClock(group, p, t) \in Clocks
  BY DEF HandoffClock, NoClock
<1> QED BY <1>2, <1>3, <1>4

\* The clocks a PATCH writes are clocks.
LEMMA PatchedClockType ==
  ASSUME NEW body \in BodyType, NEW cur \in Rows, NEW c \in Clocks, NEW t \in Nat
  PROVE  /\ PatchedSla(body, cur, c, t) \in Clocks
         /\ PatchedOla(body, cur, c, t) \in Clocks
<1>1. cur.sla \in Clocks /\ cur.ola \in Clocks
  BY DEF Rows
<1>2. PatchedSla(body, cur, c, t) \in Clocks
  BY <1>1, ClockType DEF PatchedSla
<1>3. PatchedOla(body, cur, c, t) \in Clocks
  <2> DEFINE p == NextStatus(body, cur) = "pending" /\ NextReason(body, cur) \in PauseReasons
  <2>1. HandoffClock(body.group, p, t) \in Clocks
    <3>1. p \in BOOLEAN
      OBVIOUS
    <3> QED BY <1>1, <3>1, ClockType
  <2> QED BY <1>1, <2>1, ClockType DEF PatchedOla
<1> QED BY <1>2, <1>3

\* Every statement leaves a row of the table behind.
LEMMA RowType ==
  ASSUME NEW r \in Rows, NEW cur \in Rows, NEW t \in Nat
  PROVE  /\ \A body \in BodyType : Patched(r, cur, body, t) \in Rows
         /\ Cleared(r, cur, t) \in Rows
         /\ [r EXCEPT !.status = "in_progress"] \in Rows
<1>1. r.sla \in Clocks /\ r.ola \in Clocks /\ cur.sla \in Clocks /\ cur.ola \in Clocks
  BY DEF Rows
<1>2. ASSUME NEW body \in BodyType PROVE Patched(r, cur, body, t) \in Rows
  <2>1. WrittenStatus(body, cur) \in Statuses \cup {"unset"}
    BY DEF WrittenStatus, BodyType, Statuses
  <2>2. PatchedReason(body, cur, r.reason) \in Reasons
    BY DEF PatchedReason, NextReason, BodyType, Rows, Reasons
  <2>3. PatchedResolvedAt(WrittenStatus(body, cur), cur, r.resolvedAt, t) \in Times
    BY DEF PatchedResolvedAt, Rows, Times
  <2>4. (IF WrittenStatus(body, cur) = "closed" /\ cur.closedAt = NoTime THEN t
         ELSE r.closedAt) \in Times
    BY DEF Rows, Times
  <2>5. PatchedSla(body, cur, r.sla, t) \in Clocks /\ PatchedOla(body, cur, r.ola, t) \in Clocks
    BY <1>1, PatchedClockType
  <2>6. (IF WrittenStatus(body, cur) = "unset" THEN r.status
         ELSE WrittenStatus(body, cur)) \in Statuses
    BY <2>1 DEF Rows
  <2> QED BY <2>2, <2>3, <2>4, <2>5, <2>6 DEF Patched, Rows
<1>3. Cleared(r, cur, t) \in Rows
  <2>1. Resumed(cur.sla, t) \in Clocks /\ Resumed(cur.ola, t) \in Clocks
    BY <1>1, ClockType
  <2> QED BY <2>1 DEF Cleared, Rows, Reasons
<1>4. [r EXCEPT !.status = "in_progress"] \in Rows
  BY DEF Rows, Statuses
<1> QED BY <1>2, <1>3, <1>4

LEMMA NewIncidentType ==
  ASSUME NEW group
  PROVE  NewIncident(group) \in Rows
<1>1. HandoffClock(group, FALSE, 0) \in Clocks
  BY RowAssumption, NoTimeAssumption DEF HandoffClock, NoClock, Clocks, Times
<1> QED BY <1>1, RowAssumption
        DEF NewIncident, NoClock, Clocks, Times, Rows, Statuses, Reasons

\* So do the statements of the other writers.
LEMMA WriterRowType ==
  ASSUME NEW r \in Rows, NEW t \in Nat
  PROVE  {AutoAssigned(r), LinkedResolved(r, t), AlertCleared(r, t), Refired(r), TimerClosed(r, t)}
           \subseteq Rows
<1>1. t \in Times /\ NoTime \in Times
  BY DEF Times
<1>2. AutoAssigned(r) \in Rows
  BY DEF AutoAssigned, Rows, Statuses
<1>3. LinkedResolved(r, t) \in Rows
  BY <1>1 DEF LinkedResolved, Rows, Statuses
<1>4. AlertCleared(r, t) \in Rows
  BY <1>1 DEF AlertCleared, Rows, Statuses
<1>5. Refired(r) \in Rows
  BY <1>1 DEF Refired, Rows, Statuses
<1>6. TimerClosed(r, t) \in Rows
  BY <1>1 DEF TimerClosed, Rows, Statuses
<1> QED BY <1>2, <1>3, <1>4, <1>5, <1>6

-----------------------------------------------------------------------------
(***************************************************************************)
(* The due date.                                                           *)
(***************************************************************************)

DueBy(c, d) == c.due \in Nat /\ c.due >= d

\* Resuming a clock moves its due date only forward.
LEMMA ResumedDue ==
  ASSUME NEW c \in Clocks, NEW t \in Nat, NEW d \in Nat, DueBy(c, d)
  PROVE  DueBy(Resumed(c, t), d)
<1>1. IsPaused(c) => Standstill(c, t) \in Nat
  BY NoTimeAssumption DEF Standstill, IsPaused, Clocks, Times
<1> QED BY <1>1, NoTimeAssumption DEF DueBy, Resumed, Clocks

\* So does a request, even one that writes from what it read before others wrote.
LEMMA RequestDue ==
  ASSUME NEW r \in Rows, NEW from \in Rows, NEW t \in Nat, NEW d \in Nat,
         DueBy(r.sla, d), DueBy(from.sla, d)
  PROVE  /\ \A body \in BodyType : DueBy(Patched(r, from, body, t).sla, d)
         /\ DueBy(Cleared(r, from, t).sla, d)
<1>1. r.sla \in Clocks /\ from.sla \in Clocks
  BY DEF Rows
<1>2. DueBy(Resumed(from.sla, t), d)
  BY <1>1, ResumedDue
<1>3. ASSUME NEW body \in BodyType PROVE DueBy(Patched(r, from, body, t).sla, d)
  <2>1. DueBy([r.sla EXCEPT !.pausedAt = Paused(from.sla, t).pausedAt,
                            !.pausedMs = from.sla.pausedMs], d)
    BY <1>1 DEF DueBy, Clocks
  <2>2. DueBy(PatchedSla(body, from, r.sla, t), d)
    BY <1>2, <2>1 DEF PatchedSla
  <2> QED BY <2>2 DEF Patched
<1> QED BY <1>2, <1>3 DEF Cleared, Rows

LEMMA WriterDue ==
  ASSUME NEW r \in Rows, NEW t \in Nat
  PROVE  \A s \in {AutoAssigned(r), LinkedResolved(r, t), AlertCleared(r, t), Refired(r),
                    TimerClosed(r, t)} :
           s.sla = r.sla
BY DEF AutoAssigned, LinkedResolved, AlertCleared, Refired, TimerClosed, Rows

LEMMA NewIncidentDue == ASSUME NEW group PROVE DueBy(NewIncident(group).sla, SlaDue)
BY RowAssumption, NoTimeAssumption DEF DueBy, NewIncident, NoClock

-----------------------------------------------------------------------------
(***************************************************************************)
(* Type correctness.                                                       *)
(***************************************************************************)

\* Every background writer leaves a row behind, and touches nothing but it.
LEMMA BackgroundType ==
  ASSUME LifecycleTypeOK, Background
  PROVE  /\ row' \in Rows /\ requests' \in Nat
         /\ UNCHANGED <<now, stage, snap, faults, stood, overlapped>>
<1>1. row \in Rows /\ now \in Nat /\ now \in Times
  BY DEF LifecycleTypeOK, Times
<1>2. PICK writer, r : Write(writer, r)
  BY DEF Background, BulkClose, BulkAssign, AutoClose, AutoAssign, ResolveByRecord, CloseChange,
         ClearByAlert, RefireByAlert, AutomationUpdate, AutomationClose
<1>3. requests' \in Nat /\ UNCHANGED <<now, stage, snap, faults, stood, overlapped>>
  BY <1>2 DEF Write, Counted, LifecycleTypeOK
<1> SUFFICES row' \in Rows
  BY <1>3
<1> USE DEF Write
<1>4. CASE BulkAssign
  <2>1. PICK group \in {"plain", "ola"} :
          Write("bulk_assign", [row EXCEPT !.ola = HandoffClock(group, IsPaused(row.sla), now)])
    BY <1>4 DEF BulkAssign
  <2>2. HandoffClock(group, IsPaused(row.sla), now) \in Clocks
    <3>1. IsPaused(row.sla) \in BOOLEAN /\ row.sla \in Clocks
      BY <1>1 DEF IsPaused, Rows
    <3> QED BY <1>1, <3>1, ClockType
  <2> QED BY <1>1, <2>1, <2>2 DEF Rows
<1>5. CASE BulkClose \/ AutoClose \/ ResolveByRecord
  BY <1>1, <1>5 DEF BulkClose, AutoClose, TimerClosed, ResolveByRecord, LinkedResolved, Rows, Statuses
<1>6. CASE AutoAssign \/ CloseChange \/ ClearByAlert \/ RefireByAlert \/ AutomationClose
  BY <1>1, <1>6 DEF AutoAssign, AutoAssigned, CloseChange, ClearByAlert, RefireByAlert, AlertCleared,
              Refired, AutomationClose, Rows, Statuses, Times
<1>7. CASE AutomationUpdate
  BY <1>1, <1>7 DEF AutomationUpdate, Rows
<1> QED BY <1>4, <1>5, <1>6, <1>7 DEF Background

\* Requests, too, keep the types.
LEMMA RequestStepType ==
  ASSUME LifecycleTypeOK, NEW h \in Handlers, RequestStep(h)
  PROVE  LifecycleTypeOK'
<1> USE DEF LifecycleTypeOK, Stages
<1>0. Blank \in Rows
  BY NewIncidentType DEF Blank
<1>1. CASE PatchRead(h) \/ ReplyRead(h) \/ NoteRead(h)
  <2>1. PICK kind \in {"patch", "reply", "note"}, next \in {"patch", "move", "clear"} : Read(h, kind, next)
    BY <1>1 DEF PatchRead, ReplyRead, NoteRead
  <2>2. overlapped' \in BOOLEAN
    BY <2>1 DEF Read
  <2> QED BY <2>1, <2>2 DEF Read, Counted
<1>2. ASSUME NEW f \in BOOLEAN, PatchWrite(h, f) PROVE LifecycleTypeOK'
  <2>1. PICK body \in Bodies : row' = Patched(row, snap[h], body, now)
    BY <1>2 DEF PatchWrite
  <2>2. row' \in Rows
    BY <2>1, RowType, RequestsAssumption
  <2> QED BY <1>0, <1>2, <2>2 DEF PatchWrite, Done
<1>3. CASE PatchRefused(h) \/ Die(h)
  BY <1>0, <1>3 DEF PatchRefused, Die, Done
<1>4. CASE MoveToInProgress(h)
  <2>1. row' \in Rows
    BY <1>4, RowType DEF MoveToInProgress
  <2> QED BY <1>0, <1>4, <2>1 DEF MoveToInProgress, Done
<1>5. CASE ClearPending(h)
  <2>1. row' \in Rows
    BY <1>5, RowType DEF ClearPending
  <2> QED BY <1>0, <1>5, <2>1 DEF ClearPending, Done
<1> QED BY <1>1, <1>2, <1>3, <1>4, <1>5 DEF RequestStep

\* The new incident has its types.
LEMMA InitialTypes == LifecycleInit => LifecycleTypeOK
<1> SUFFICES ASSUME LifecycleInit PROVE LifecycleTypeOK
  OBVIOUS
<1>1. overlapped \in BOOLEAN
  BY DEF LifecycleInit
<1> QED BY <1>1, NewIncidentType DEF LifecycleInit, LifecycleTypeOK, Blank, Stages

\* The variables always have the types TypeOK gives them: in particular no
\* request and no writer stores a status or a reason outside the lists.
THEOREM LifecycleTypeCorrect == LifecycleSpec => []LifecycleTypeOK
<1>1. LifecycleInit => LifecycleTypeOK
  BY InitialTypes
<1>2. LifecycleTypeOK /\ [LifecycleNext]_lifecycleVars => LifecycleTypeOK'
  <2> SUFFICES ASSUME LifecycleTypeOK, [LifecycleNext]_lifecycleVars PROVE LifecycleTypeOK'
    OBVIOUS
  <2>1. CASE \E h \in Handlers : RequestStep(h)
    BY <2>1, RequestStepType
  <2>2. CASE Background
    BY <2>2, BackgroundType DEF LifecycleTypeOK
  <2>3. CASE ClockTicks
    BY <2>3 DEF ClockTicks, LifecycleTypeOK
  <2>4. CASE UNCHANGED lifecycleVars
    BY <2>4 DEF lifecycleVars, LifecycleTypeOK
  <2> QED BY <2>1, <2>2, <2>3, <2>4 DEF LifecycleNext
<1> QED BY <1>1, <1>2, PTL DEF LifecycleSpec

-----------------------------------------------------------------------------
(***************************************************************************)
(* The recorded pauses, under any interleaving.  An UPDATE may restore a   *)
(* clock that is out of date, but every clock that a handler has read was  *)
(* once true, and what was true of a clock stays possible as time passes.  *)
(***************************************************************************)

\* A clock that can be the truth at time t: the pauses recorded in it were over
\* when the one in progress began, or else are over by now.
Sound(c, t) ==
  IF IsPaused(c) THEN c.pausedAt <= t /\ c.pausedMs <= c.pausedAt
  ELSE c.pausedMs <= t

SoundInv ==
  /\ LifecycleTypeOK
  /\ Sound(row.sla, now) /\ Sound(row.ola, now)
  /\ \A h \in Handlers : Sound(snap[h].sla, now) /\ Sound(snap[h].ola, now)

\* Every operation on clocks yields a sound clock from a sound one; writing the
\* pair (pausedAt, pausedMs) of a sound clock makes any clock sound.
LEMMA ClockSound ==
  ASSUME NEW c \in Clocks, NEW d \in Clocks, NEW t \in Nat, NEW group, NEW p \in BOOLEAN,
         Sound(c, t)
  PROVE  /\ Sound(Paused(c, t), t)
         /\ Sound(Resumed(c, t), t)
         /\ Sound(HandoffClock(group, p, t), t)
         /\ Sound([d EXCEPT !.pausedAt = Paused(c, t).pausedAt, !.pausedMs = c.pausedMs], t)
         /\ Sound(c, t + 1)
<1> USE NoTimeAssumption, RowAssumption DEF Clocks, Times, Sound, IsPaused
<1>1. Sound(Paused(c, t), t)
  BY DEF Paused
<1>2. Sound(Resumed(c, t), t)
  BY DEF Resumed, Standstill
<1>3. Sound(HandoffClock(group, p, t), t)
  BY DEF HandoffClock, NoClock
<1>4. Sound([d EXCEPT !.pausedAt = Paused(c, t).pausedAt, !.pausedMs = c.pausedMs], t)
  BY DEF Paused
<1>5. Sound(c, t + 1)
  OBVIOUS
<1> QED BY <1>1, <1>2, <1>3, <1>4, <1>5

\* What a PATCH writes is sound if the row and the snapshot are.
LEMMA PatchedSound ==
  ASSUME NEW body \in BodyType, NEW r \in Rows, NEW cur \in Rows, NEW t \in Nat,
         Sound(r.sla, t), Sound(r.ola, t), Sound(cur.sla, t), Sound(cur.ola, t)
  PROVE  /\ Sound(Patched(r, cur, body, t).sla, t)
         /\ Sound(Patched(r, cur, body, t).ola, t)
<1>1. /\ r.sla \in Clocks /\ r.ola \in Clocks
      /\ cur.sla \in Clocks /\ cur.ola \in Clocks
  BY DEF Rows
<1>2. Sound(PatchedSla(body, cur, r.sla, t), t)
  BY <1>1, ClockSound DEF PatchedSla
<1>3. Sound(PatchedOla(body, cur, r.ola, t), t)
  <2> DEFINE p == NextStatus(body, cur) = "pending" /\ NextReason(body, cur) \in PauseReasons
  <2>1. Sound(HandoffClock(body.group, p, t), t)
    <3>1. p \in BOOLEAN
      OBVIOUS
    <3> QED BY <1>1, <3>1, ClockSound
  <2> QED BY <1>1, <2>1, ClockSound DEF PatchedOla
<1> QED BY <1>2, <1>3 DEF Patched

LEMMA ClearedSound ==
  ASSUME NEW r \in Rows, NEW cur \in Rows, NEW t \in Nat,
         Sound(r.sla, t), Sound(r.ola, t), Sound(cur.sla, t), Sound(cur.ola, t)
  PROVE  /\ Sound(Cleared(r, cur, t).sla, t)
         /\ Sound(Cleared(r, cur, t).ola, t)
<1>1. cur.sla \in Clocks /\ cur.ola \in Clocks
  BY DEF Rows
<1>2. Sound(Resumed(cur.sla, t), t) /\ Sound(Resumed(cur.ola, t), t)
  BY <1>1, ClockSound
<1> QED BY <1>2 DEF Cleared, Rows

LEMMA NewIncidentSound ==
  ASSUME NEW group
  PROVE  Sound(NewIncident(group).sla, 0) /\ Sound(NewIncident(group).ola, 0)
BY RowAssumption, NoTimeAssumption
   DEF Sound, IsPaused, NewIncident, HandoffClock, NoClock

\* The snapshot of a finished handler is that of a new incident, sound for ever.
LEMMA BlankSound ==
  ASSUME NEW t \in Nat
  PROVE  Sound(Blank.sla, t) /\ Sound(Blank.ola, t)
BY RowAssumption, NoTimeAssumption
   DEF Blank, Sound, IsPaused, NewIncident, HandoffClock, NoClock

\* Requests keep the clocks of the row and of all snapshots sound.
LEMMA RequestSound ==
  ASSUME SoundInv, NEW h \in Handlers, RequestStep(h)
  PROVE  SoundInv'
<1>1. LifecycleTypeOK'
  BY RequestStepType DEF SoundInv
<1>2. /\ row \in Rows /\ snap[h] \in Rows /\ now \in Nat
      /\ snap \in [Handlers -> Rows]
      /\ Sound(row.sla, now) /\ Sound(row.ola, now)
      /\ \A i \in Handlers : Sound(snap[i].sla, now) /\ Sound(snap[i].ola, now)
  BY DEF SoundInv, LifecycleTypeOK
<1>3. Sound(Blank.sla, now) /\ Sound(Blank.ola, now)
  BY <1>2, BlankSound
<1>4. now' = now
  BY DEF RequestStep, PatchRead, ReplyRead, NoteRead, Read, PatchRefused, PatchWrite,
         MoveToInProgress, ClearPending, Die
<1>5. snap' = [snap EXCEPT ![h] = row] \/ snap' = [snap EXCEPT ![h] = Blank] \/ snap' = snap
  BY DEF RequestStep, PatchRead, ReplyRead, NoteRead, Read, PatchRefused, PatchWrite,
         MoveToInProgress, ClearPending, Die, Done
<1>6. \A i \in Handlers : Sound(snap'[i].sla, now) /\ Sound(snap'[i].ola, now)
  <2> TAKE i \in Handlers
  <2>1. snap'[i] \in {row, Blank, snap[i]}
    BY <1>2, <1>5
  <2> QED BY <1>2, <1>3, <2>1
<1>7. Sound(row'.sla, now) /\ Sound(row'.ola, now)
  <2>1. CASE row' = row
    BY <1>2, <2>1
  <2>2. CASE \E f \in BOOLEAN : PatchWrite(h, f)
    <3>1. PICK body \in Bodies : row' = Patched(row, snap[h], body, now)
      BY <2>2 DEF PatchWrite
    <3>2. body \in BodyType
      BY RequestsAssumption
    <3> QED BY <1>2, <3>1, <3>2, PatchedSound
  <2>3. CASE MoveToInProgress(h)
    BY <1>2, <2>3 DEF MoveToInProgress, Rows
  <2>4. CASE ClearPending(h)
    <3>1. row' = Cleared(row, snap[h], now)
      BY <2>4 DEF ClearPending
    <3> QED BY <1>2, <3>1, ClearedSound
  <2> QED BY <2>1, <2>2, <2>3, <2>4
          DEF RequestStep, PatchRead, ReplyRead, NoteRead, Read, PatchRefused, Die
<1> QED BY <1>1, <1>4, <1>6, <1>7 DEF SoundInv

\* No background writer touches the SLA clock, and only bulk assignment touches
\* the other one: it starts a new one.
LEMMA BackgroundSla ==
  ASSUME LifecycleTypeOK, Background
  PROVE  /\ row'.sla = row.sla
         /\ \/ row'.ola = row.ola
            \/ \E group \in {"plain", "ola"}, p \in BOOLEAN :
                 row'.ola = HandoffClock(group, p, now)
<1> USE DEF Write, LifecycleTypeOK, Rows
<1>1. CASE BulkAssign
  BY <1>1 DEF BulkAssign, IsPaused
<1>2. CASE BulkClose \/ AutoClose \/ AutoAssign \/ ResolveByRecord \/ CloseChange
  BY <1>2 DEF BulkClose, AutoClose, TimerClosed, AutoAssign, AutoAssigned, ResolveByRecord,
              LinkedResolved, CloseChange
<1>3. CASE ClearByAlert \/ RefireByAlert \/ AutomationUpdate \/ AutomationClose
  BY <1>3 DEF ClearByAlert, RefireByAlert, AlertCleared, Refired, AutomationUpdate, AutomationClose
<1> QED BY <1>1, <1>2, <1>3 DEF Background

\* The background writers keep the clocks sound.
LEMMA BackgroundSound ==
  ASSUME SoundInv, Background
  PROVE  SoundInv'
<1>1. /\ row' \in Rows /\ requests' \in Nat
      /\ UNCHANGED <<now, stage, snap, faults, stood, overlapped>>
  BY BackgroundType DEF SoundInv
<1>2. row \in Rows /\ now \in Nat /\ row.sla \in Clocks /\ row.ola \in Clocks
  BY DEF SoundInv, LifecycleTypeOK, Rows
<1>3. row'.sla = row.sla /\ Sound(row'.ola, now)
  BY <1>2, BackgroundSla, ClockSound DEF SoundInv
<1> QED BY <1>1, <1>2, <1>3 DEF SoundInv, LifecycleTypeOK

\* However many requests are in progress, wherever they interleave or die and
\* whatever the background writers do, the pauses recorded for an incident
\* never exceed its age.
THEOREM RecordedPausesAreSound == LifecycleSpec => []PausedTimeWithinElapsed
<1>1. LifecycleInit => SoundInv
  <2> SUFFICES ASSUME LifecycleInit PROVE SoundInv
    OBVIOUS
  <2>1. LifecycleTypeOK
    BY InitialTypes
  <2>2. Sound(row.sla, now) /\ Sound(row.ola, now)
    BY NewIncidentSound DEF LifecycleInit
  <2>3. \A h \in Handlers : Sound(snap[h].sla, now) /\ Sound(snap[h].ola, now)
    BY BlankSound DEF LifecycleInit
  <2> QED BY <2>1, <2>2, <2>3 DEF SoundInv
<1>2. SoundInv /\ [LifecycleNext]_lifecycleVars => SoundInv'
  <2> SUFFICES ASSUME SoundInv, [LifecycleNext]_lifecycleVars PROVE SoundInv'
    OBVIOUS
  <2>1. CASE \E h \in Handlers : RequestStep(h)
    BY <2>1, RequestSound
  <2>2. CASE Background
    BY <2>2, BackgroundSound
  <2>3. CASE ClockTicks
    <3>1. /\ row.sla \in Clocks /\ row.ola \in Clocks /\ now \in Nat
          /\ \A h \in Handlers : snap[h].sla \in Clocks /\ snap[h].ola \in Clocks
      BY DEF SoundInv, LifecycleTypeOK, Rows
    <3>2. Sound(row.sla, now + 1) /\ Sound(row.ola, now + 1)
      BY <3>1, ClockSound DEF SoundInv
    <3>3. \A h \in Handlers : Sound(snap[h].sla, now + 1) /\ Sound(snap[h].ola, now + 1)
      BY <3>1, ClockSound DEF SoundInv
    <3>4. LifecycleTypeOK'
      BY <2>3 DEF ClockTicks, LifecycleTypeOK, SoundInv
    <3> QED BY <2>3, <3>2, <3>3, <3>4 DEF ClockTicks, SoundInv
  <2>4. CASE UNCHANGED lifecycleVars
    BY <2>4 DEF lifecycleVars, SoundInv, LifecycleTypeOK
  <2> QED BY <2>1, <2>2, <2>3, <2>4 DEF LifecycleNext
<1>3. SoundInv => PausedTimeWithinElapsed
  BY NoTimeAssumption
     DEF SoundInv, LifecycleTypeOK, Rows, Clocks, Times, Sound, IsPaused, PausedTimeWithinElapsed
<1> QED BY <1>1, <1>2, <1>3, PTL DEF LifecycleSpec

-----------------------------------------------------------------------------
(***************************************************************************)
(* The exactness of the SLA clock when no two requests overlap: then the   *)
(* snapshot a handler works from still has the clock of the row, because   *)
(* no background writer touches the SLA clock.                             *)
(***************************************************************************)

\* A clock that tells the truth: c stood still for "still" of the t that passed.
Exact(c, t, still) ==
  /\ c.due = SlaDue + c.pausedMs
  /\ IF IsPaused(c)
     THEN c.pausedAt <= t /\ c.pausedMs + (t - c.pausedAt) = still
     ELSE c.pausedMs = still

\* Until requests overlap, the clock of the row is exact, and at most one request
\* is in progress, which has read this clock.
ExactInv ==
  /\ LifecycleTypeOK
  /\ ~overlapped =>
       /\ Exact(row.sla, now, stood)
       /\ \A h \in Handlers :
            stage[h] # "idle" => /\ snap[h].sla = row.sla
                                 /\ \A g \in Handlers : stage[g] # "idle" => g = h

\* Pausing and resuming an exact clock leaves an exact clock.
LEMMA ClockExact ==
  ASSUME NEW c \in Clocks, NEW t \in Nat, NEW still \in Nat, Exact(c, t, still)
  PROVE  /\ Exact(Resumed(c, t), t, still)
         /\ Exact([c EXCEPT !.pausedAt = Paused(c, t).pausedAt, !.pausedMs = c.pausedMs],
                  t, still)
         /\ Exact(c, t + 1, IF IsPaused(c) THEN still + 1 ELSE still)
<1> USE NoTimeAssumption, RowAssumption DEF Clocks, Times, Exact, IsPaused
<1>1. Exact(Resumed(c, t), t, still)
  <2>1. c.due # NoTime
    OBVIOUS
  <2> QED BY <2>1 DEF Resumed, Standstill
<1>2. Exact([c EXCEPT !.pausedAt = Paused(c, t).pausedAt, !.pausedMs = c.pausedMs], t, still)
  BY DEF Paused
<1>3. Exact(c, t + 1, IF IsPaused(c) THEN still + 1 ELSE still)
  OBVIOUS
<1> QED BY <1>1, <1>2, <1>3

\* A handler that works from the row's own clock keeps it exact.
LEMMA RequestExact ==
  ASSUME ExactInv, NEW h \in Handlers, RequestStep(h)
  PROVE  ExactInv'
<1>1. LifecycleTypeOK'
  BY RequestStepType DEF ExactInv
<1>2. /\ row \in Rows /\ now \in Nat /\ stood \in Nat /\ row.sla \in Clocks
      /\ snap \in [Handlers -> Rows] /\ stage \in [Handlers -> Stages]
  BY DEF ExactInv, LifecycleTypeOK, Rows
<1>3. CASE PatchRead(h) \/ ReplyRead(h) \/ NoteRead(h)
  <2>1. PICK kind \in {"patch", "reply", "note"}, next \in {"patch", "move", "clear"} : Read(h, kind, next)
    BY <1>3 DEF PatchRead, ReplyRead, NoteRead
  <2>2. /\ row' = row /\ now' = now /\ stood' = stood
        /\ snap' = [snap EXCEPT ![h] = row] /\ stage' = [stage EXCEPT ![h] = next]
    BY <2>1 DEF Read
  <2>3. ~overlapped' => ~overlapped /\ \A g \in Handlers : stage[g] = "idle"
    BY <2>1 DEF Read
  <2> QED BY <1>1, <1>2, <2>2, <2>3 DEF ExactInv
<1>4. CASE \/ PatchRefused(h) \/ \E f \in BOOLEAN : PatchWrite(h, f)
           \/ MoveToInProgress(h) \/ ClearPending(h) \/ Die(h)
  <2>1. now' = now /\ stood' = stood /\ overlapped' = overlapped /\ stage[h] # "idle"
    BY <1>4 DEF PatchRefused, PatchWrite, MoveToInProgress, ClearPending, Die
  <2>2. \/ Done(h)
        \/ /\ stage' = [stage EXCEPT ![h] = "clear"] /\ snap' = snap
           /\ row' = [row EXCEPT !.status = "in_progress"]
    BY <1>4 DEF PatchRefused, PatchWrite, MoveToInProgress, ClearPending, Die
  <2> SUFFICES ASSUME ~overlapped
               PROVE  /\ Exact(row'.sla, now, stood)
                      /\ \A i \in Handlers :
                           stage'[i] # "idle" => /\ snap'[i].sla = row'.sla
                                                 /\ \A g \in Handlers : stage'[g] # "idle" => g = i
    BY <1>1, <2>1 DEF ExactInv
  <2>3. /\ Exact(row.sla, now, stood) /\ snap[h].sla = row.sla
        /\ \A g \in Handlers : stage[g] # "idle" => g = h
    BY <2>1 DEF ExactInv
  <2>4. \/ row'.sla = row.sla
        \/ row'.sla = Resumed(row.sla, now)
        \/ row'.sla = [row.sla EXCEPT !.pausedAt = Paused(row.sla, now).pausedAt,
                                      !.pausedMs = row.sla.pausedMs]
    <3>1. CASE \E f \in BOOLEAN : PatchWrite(h, f)
      <4>1. PICK body \in Bodies : row' = Patched(row, snap[h], body, now)
        BY <3>1 DEF PatchWrite
      <4>2. row'.sla = PatchedSla(body, snap[h], row.sla, now)
        BY <4>1 DEF Patched
      <4> QED BY <2>3, <4>2 DEF PatchedSla
    <3>2. CASE PatchRefused(h) \/ Die(h)
      BY <3>2 DEF PatchRefused, Die
    <3>3. CASE MoveToInProgress(h)
      BY <1>2, <3>3 DEF MoveToInProgress, Rows
    <3>4. CASE ClearPending(h)
      BY <1>2, <2>3, <3>4 DEF ClearPending, Cleared, Rows
    <3> QED BY <1>4, <3>1, <3>2, <3>3, <3>4
  <2>5. Exact(row'.sla, now, stood)
    <3>1. /\ Exact(Resumed(row.sla, now), now, stood)
          /\ Exact([row.sla EXCEPT !.pausedAt = Paused(row.sla, now).pausedAt,
                                   !.pausedMs = row.sla.pausedMs], now, stood)
      BY <1>2, <2>3, ClockExact
    <3> QED BY <2>3, <2>4, <3>1
  <2>6. CASE Done(h)
    BY <1>2, <2>3, <2>5, <2>6 DEF Done
  <2>7. CASE /\ stage' = [stage EXCEPT ![h] = "clear"] /\ snap' = snap
             /\ row' = [row EXCEPT !.status = "in_progress"]
    <3>1. row'.sla = row.sla
      BY <1>2, <2>7 DEF Rows
    <3> QED BY <1>2, <2>3, <2>5, <2>7, <3>1
  <2> QED BY <2>2, <2>6, <2>7
<1> QED BY <1>3, <1>4 DEF RequestStep

\* ExactInv is invariant, whatever the background writers do and wherever a
\* request dies.
LEMMA SerialClock == LifecycleSpec => []ExactInv
<1>1. LifecycleInit => ExactInv
  <2> SUFFICES ASSUME LifecycleInit PROVE ExactInv
    OBVIOUS
  <2>1. LifecycleTypeOK
    BY InitialTypes
  <2>2. Exact(row.sla, now, stood)
    BY RowAssumption, NoTimeAssumption DEF LifecycleInit, Exact, NewIncident, NoClock, IsPaused
  <2> QED BY <2>1, <2>2 DEF LifecycleInit, ExactInv
<1>2. ExactInv /\ [LifecycleNext]_lifecycleVars => ExactInv'
  <2> SUFFICES ASSUME ExactInv, [LifecycleNext]_lifecycleVars PROVE ExactInv'
    OBVIOUS
  <2>1. CASE \E h \in Handlers : RequestStep(h)
    BY <2>1, RequestExact
  <2>2. CASE Background
    <3>1. /\ row' \in Rows /\ row'.sla = row.sla /\ requests' \in Nat
          /\ UNCHANGED <<now, stage, snap, faults, stood, overlapped>>
      BY <2>2, BackgroundType, BackgroundSla DEF ExactInv
    <3> QED BY <3>1 DEF ExactInv, LifecycleTypeOK
  <2>3. CASE ClockTicks
    <3>1. row.sla \in Clocks /\ now \in Nat /\ stood \in Nat
      BY DEF ExactInv, LifecycleTypeOK, Rows
    <3>2. ~overlapped => Exact(row.sla, now + 1, IF IsPaused(row.sla) THEN stood + 1 ELSE stood)
      BY <3>1, ClockExact DEF ExactInv
    <3>3. LifecycleTypeOK'
      BY <2>3 DEF ClockTicks, LifecycleTypeOK, ExactInv
    <3> QED BY <2>3, <3>2, <3>3 DEF ClockTicks, ExactInv
  <2>4. CASE UNCHANGED lifecycleVars
    BY <2>4 DEF lifecycleVars, ExactInv, LifecycleTypeOK
  <2> QED BY <2>1, <2>2, <2>3, <2>4 DEF LifecycleNext
<1> QED BY <1>1, <1>2, PTL DEF LifecycleSpec

\* Until requests overlap, the due date is always the agreed one plus the
\* recorded pauses.
THEOREM SerialDueDate == LifecycleSpec => []DueMatchesPausedTime
<1>1. ExactInv => DueMatchesPausedTime
  BY DEF ExactInv, Exact, DueMatchesPausedTime
<1> QED BY <1>1, SerialClock, PTL

\* Until requests overlap, every pause is credited exactly once.
THEOREM SerialCredit == LifecycleSpec => []PauseIsCredited
<1>1. ExactInv => PauseIsCredited
  <2> SUFFICES ASSUME ExactInv, ~overlapped PROVE PauseIsCredited
    BY DEF PauseIsCredited
  <2>1. row.sla \in Clocks /\ now \in Nat /\ stood \in Nat /\ Exact(row.sla, now, stood)
    BY DEF ExactInv, LifecycleTypeOK, Rows
  <2> QED BY <2>1, NoTimeAssumption DEF Exact, PauseIsCredited, IsPaused, Clocks, Times
<1> QED BY <1>1, SerialClock, PTL
=============================================================================
