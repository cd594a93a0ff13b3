---------------------- MODULE IncidentEscalation_proofs ----------------------
(***************************************************************************)
(* Theorems about IncidentEscalation: type correctness, no breach before   *)
(* the agreed due date, and what an escalation presupposes; and about      *)
(* IncidentTimers, which implements it: what the auto-close timer waits    *)
(* for.                                                                    *)
(***************************************************************************)
EXTENDS IncidentTimers, IncidentLifecycle_proofs

\* The due date is a time, in the row and in what the workflow and a slow request
\* have read of it, and it is never earlier than agreed.
DueInv == DueBy(row.sla, SlaDue) /\ DueBy(cur.sla, SlaDue) /\ DueBy(seen.sla, SlaDue)

\* Whoever marks a breach has seen the due date pass, and whoever escalates has
\* marked one.
MarkInv ==
  /\ pc = "mark" \/ breached = TRUE => now >= SlaDue
  /\ pc \in {"fresh", "raise", "settle"} => breached = TRUE

EscalationInv == TypeOK /\ DueInv /\ MarkInv /\ OnlyBreachesEscalate

-----------------------------------------------------------------------------
(***************************************************************************)
(* The initial state.                                                      *)
(***************************************************************************)

LEMMA InitInv == Init => EscalationInv
<1> SUFFICES ASSUME Init PROVE EscalationInv
  OBVIOUS
<1>1. row \in Rows /\ cur \in Rows /\ seen \in Rows /\ DueInv
  BY NewIncidentType, NewIncidentDue DEF Init, Blank, DueInv
<1>2. priority \in Priorities /\ people \in Priorities /\ target \in Priorities
  BY EscalationAssumption DEF Init, Priorities
<1>3. TypeOK
  <2>1. breached \in BOOLEAN /\ warned \in BOOLEAN /\ resolved \in BOOLEAN
    BY Zenon DEF Init
  <2>2. pc \in PCs
    BY DEF Init, PCs
  <2>3. now \in Nat /\ wake \in Int /\ started \in Nat /\ requests \in Nat /\ faults \in Nat
    BY DEF Init
  <2>4. slow \in {"idle", "patch", "move", "clear"}
    BY DEF Init
  <2> QED BY <1>1, <1>2, <2>1, <2>2, <2>3, <2>4 DEF TypeOK
<1> QED BY <1>1, <1>3 DEF Init, EscalationInv, MarkInv, OnlyBreachesEscalate

-----------------------------------------------------------------------------
(***************************************************************************)
(* Type correctness.                                                       *)
(***************************************************************************)

LEMMA EscalatedType ==
  ASSUME NEW p \in Priorities
  PROVE  Escalated(p) \in Priorities
BY EscalationAssumption DEF Escalated, Priorities

\* A step of the workflow.
LEMMA WorkflowType ==
  ASSUME TypeOK, DueInv, WorkflowStep \/ RaiseIsCut \/ Expire \/ Fail
  PROVE  TypeOK'
<1> USE DEF TypeOK, PCs, Calls, Ended, columns, bounds, workflow, handler
<1>1. AutoAssigned(row) \in Rows
  BY WriterRowType
<1>2. /\ now + PauseTime \in Int /\ now + FollowUpTime \in Int
      /\ cur.sla.due \in Int /\ cur.sla.due - WarnLead \in Int
  BY EscalationAssumption DEF DueInv, DueBy
<1>3. CASE Start \/ ReadIncident \/ WakeUp \/ FollowUp
  BY <1>3 DEF Start, ReadIncident, WakeUp, FollowUp
<1>4. CASE Expire \/ Fail
  BY <1>4 DEF Expire, Fail
<1>5. CASE Decide
  <2>1. pc' \in PCs /\ wake' \in Int
    BY <1>2, <1>5 DEF Decide, WaitUntil, NextEvent
  <2> QED BY <1>5, <2>1 DEF Decide
<1>6. CASE Warn
  BY <1>1, <1>2, <1>6 DEF Warn, WaitUntil
<1>7. CASE Mark
  BY <1>7 DEF Mark
<1>8. CASE ReadPriority
  BY <1>8, EscalatedType DEF ReadPriority
<1>9. CASE Raise \/ RaiseIsCut
  BY <1>9 DEF Raise, RaiseIsCut, Raised
<1>10. CASE Settle
  BY <1>1, <1>2, <1>10 DEF Settle
<1> QED BY <1>3, <1>4, <1>5, <1>6, <1>7, <1>8, <1>9, <1>10 DEF WorkflowStep

\* A signal sets the flag or is lost.
LEMMA SignalType ==
  ASSUME TypeOK, Signal \/ NoSignal
  PROVE  resolved' \in BOOLEAN /\ faults' \in Nat
<1>1. faults' = faults \/ faults' = faults + 1
  BY DEF Signal, NoSignal
<1>2. resolved' = resolved \/ resolved' = (resolved \/ pc \notin Ended \cup {"queued"})
  BY DEF Signal, NoSignal
<1>3. resolved' \in BOOLEAN
  BY <1>2, Zenon DEF TypeOK
<1> QED BY <1>1, <1>3 DEF TypeOK

LEMMA PatchFromType ==
  ASSUME TypeOK, NEW from \in Rows, NEW body \in Bodies, NEW fulfiller \in BOOLEAN,
         PatchFrom(from, body, fulfiller)
  PROVE  row' \in Rows /\ resolved' \in BOOLEAN /\ faults' \in Nat
<1>1. row' \in Rows
  BY RequestsAssumption, RowType DEF PatchFrom, TypeOK
<1>2. resolved' \in BOOLEAN /\ faults' \in Nat
  BY SignalType DEF PatchFrom
<1> QED BY <1>1, <1>2

\* A single statement that sets the status, and perhaps the time of closing.
LEMMA StatementType ==
  ASSUME NEW r \in Rows, NEW t \in Nat, NEW s \in Statuses
  PROVE  [r EXCEPT !.status = s] \in Rows /\ [r EXCEPT !.status = s, !.closedAt = t] \in Rows
BY DEF Rows, Times

LEMMA RequestType ==
  ASSUME TypeOK, Request \/ TimerCloses \/ Tick
  PROVE  TypeOK'
<1> USE DEF TypeOK, PCs, columns, bounds, workflow, handler, Sent
<1>0. Blank \in Rows /\ {"in_progress", "resolved", "closed"} \subseteq Statuses
  BY NewIncidentType DEF Blank, Statuses
<1>1. {LinkedResolved(row, now), AlertCleared(row, now), Refired(row), TimerClosed(row, now)}
        \subseteq Rows
  BY WriterRowType
<1>2. ASSUME NEW body \in Bodies, NEW fulfiller \in BOOLEAN, Patch(body, fulfiller)
      PROVE  TypeOK'
  <2>1. row' \in Rows /\ resolved' \in BOOLEAN /\ faults' \in Nat
    BY <1>2, PatchFromType DEF Patch
  <2> QED BY <1>2, <2>1 DEF Patch, PatchFrom
<1>3. ASSUME NEW body \in Bodies, NEW fulfiller \in BOOLEAN, PatchSlowly(body, fulfiller)
      PROVE  TypeOK'
  <2>1. row' \in Rows /\ resolved' \in BOOLEAN /\ faults' \in Nat
    BY <1>3, PatchFromType DEF PatchSlowly
  <2> QED BY <1>0, <1>3, <2>1 DEF PatchSlowly, PatchFrom, Answered
<1>4. CASE Reprioritise
  BY <1>4 DEF Reprioritise
<1>5. CASE ResolveLinked \/ AlertRefires
  BY <1>1, <1>5 DEF ResolveLinked, AlertRefires
<1>6. CASE AlertClears
  <2>1. resolved' \in BOOLEAN /\ faults' \in Nat
    BY <1>6, SignalType DEF AlertClears
  <2> QED BY <1>1, <1>6, <2>1 DEF AlertClears
<1>7. CASE TimerCloses \/ Tick
  BY <1>1, <1>7 DEF TimerCloses, Tick
<1>8. CASE BulkCloses \/ ChangeCloses \/ AutomationWrites
  <2>1. row' \in Rows
    <3>1. PICK s \in Statuses : \/ row' = [row EXCEPT !.status = s]
                               \/ row' = [row EXCEPT !.status = s, !.closedAt = now]
      BY <1>0, <1>8 DEF BulkCloses, ChangeCloses, AutomationWrites
    <3>2. /\ [row EXCEPT !.status = s] \in Rows
          /\ [row EXCEPT !.status = s, !.closedAt = now] \in Rows
      BY StatementType
    <3> QED BY <3>1, <3>2
  <2> QED BY <1>8, <2>1 DEF BulkCloses, ChangeCloses, AutomationWrites
<1>9. CASE ReadSlowly \/ GivesUp
  BY <1>0, <1>9 DEF ReadSlowly, GivesUp, Answered
<1>10. CASE MoveSlowly \/ ClearSlowly
  <2>1. row' \in Rows
    BY <1>10, RowType DEF MoveSlowly, ClearSlowly
  <2>2. slow' \in {"idle", "patch", "move", "clear"} /\ seen' \in Rows
    BY <1>0, <1>10 DEF MoveSlowly, ClearSlowly, Answered
  <2> QED BY <1>10, <2>1, <2>2 DEF MoveSlowly, ClearSlowly
<1> QED BY <1>2, <1>3, <1>4, <1>5, <1>6, <1>7, <1>8, <1>9, <1>10 DEF Request, SilentWrite

-----------------------------------------------------------------------------
(***************************************************************************)
(* The due date.                                                           *)
(***************************************************************************)

LEMMA DueStep ==
  ASSUME TypeOK, DueInv, [Next]_vars
  PROVE  DueInv'
<1> USE DEF columns, workflow, bounds, handler
<1>0. row \in Rows /\ seen \in Rows /\ now \in Nat /\ SlaDue \in Nat
  BY RowAssumption DEF TypeOK
<1>1. AutoAssigned(row).sla = row.sla
  BY <1>0, WriterDue
<1>2. CASE UNCHANGED vars
  BY <1>2 DEF DueInv, vars
<1>3. CASE WorkflowStep \/ RaiseIsCut \/ Expire \/ Fail
  <2>1. row'.sla = row.sla /\ seen' = seen
    BY <1>1, <1>3 DEF WorkflowStep, Start, ReadIncident, Decide, Warn, Mark, ReadPriority, Raise,
                      Settle, WakeUp, FollowUp, RaiseIsCut, Expire, Fail
  <2>2. cur' = cur \/ cur' = row
    BY <1>3 DEF WorkflowStep, Start, ReadIncident, Decide, Warn, Mark, ReadPriority, Raise,
                Settle, WakeUp, FollowUp, RaiseIsCut, Expire, Fail
  <2> QED BY <2>1, <2>2 DEF DueInv
<1>4. CASE Request \/ TimerCloses \/ Tick
  <2>0. DueBy(Blank.sla, SlaDue)
    BY NewIncidentDue DEF Blank
  <2>1. cur' = cur /\ (seen' = seen \/ seen' = row \/ seen' = Blank)
    BY <1>4 DEF Request, SilentWrite, Patch, PatchSlowly, PatchFrom, Reprioritise, ResolveLinked,
                AlertClears, AlertRefires, BulkCloses, ChangeCloses, AutomationWrites, ReadSlowly,
                MoveSlowly, ClearSlowly, GivesUp, Answered, TimerCloses, Tick
  <2>2. DueBy(row'.sla, SlaDue)
    <3>1. ASSUME NEW body \in Bodies, NEW fulfiller \in BOOLEAN,
                 Patch(body, fulfiller) \/ PatchSlowly(body, fulfiller)
          PROVE  DueBy(row'.sla, SlaDue)
      <4>1. PICK from \in {row, seen} : row' = Patched(row, from, body, now)
        BY <3>1 DEF Patch, PatchSlowly, PatchFrom
      <4> QED BY <1>0, <4>1, RequestsAssumption, RequestDue DEF DueInv
    <3>2. CASE ClearSlowly
      BY <1>0, <3>2, RequestDue DEF ClearSlowly, DueInv
    <3>3. CASE \/ ResolveLinked \/ AlertClears \/ AlertRefires \/ Reprioritise \/ TimerCloses
               \/ Tick
      BY <1>0, <3>3, WriterDue DEF ResolveLinked, AlertClears, AlertRefires, Reprioritise,
                                   TimerCloses, Tick, DueInv
    <3>4. CASE \/ BulkCloses \/ ChangeCloses \/ AutomationWrites \/ MoveSlowly
               \/ ReadSlowly \/ GivesUp
      <4>1. row'.sla = row.sla
        BY <1>0, <3>4 DEF BulkCloses, ChangeCloses, AutomationWrites, MoveSlowly, ReadSlowly,
                          GivesUp, Rows
      <4> QED BY <4>1 DEF DueInv
    <3> QED BY <1>4, <3>1, <3>2, <3>3, <3>4 DEF Request, SilentWrite
  <2> QED BY <2>0, <2>1, <2>2 DEF DueInv
<1> QED BY <1>2, <1>3, <1>4 DEF Next

-----------------------------------------------------------------------------
(***************************************************************************)
(* Marks and priorities.                                                   *)
(***************************************************************************)

LEMMA MarkStep ==
  ASSUME TypeOK, DueInv, MarkInv, [Next]_vars
  PROVE  MarkInv'
<1> USE DEF columns, workflow, bounds, handler
<1>0. now \in Nat /\ SlaDue \in Nat /\ breached \in BOOLEAN /\ cur.sla.due \in Nat
      /\ cur.sla.due >= SlaDue
  BY RowAssumption DEF TypeOK, DueInv, DueBy
<1>1. CASE Decide
  <2>1. /\ now' = now /\ breached' = breached
        /\ pc' = "mark" => IsBreach(cur, now)
        /\ pc' \notin {"fresh", "raise", "settle"}
    BY <1>1 DEF Decide, WaitUntil
  <2> QED BY <1>0, <2>1 DEF MarkInv, IsBreach
<1>2. CASE Mark
  BY <1>2 DEF Mark, MarkInv
<1>3. CASE Start \/ ReadIncident \/ Warn \/ WakeUp \/ FollowUp \/ Expire \/ Fail
  BY <1>3 DEF Start, ReadIncident, Warn, WaitUntil, WakeUp, FollowUp, Expire, Fail, MarkInv
<1>4. CASE ReadPriority \/ Raise \/ RaiseIsCut \/ Settle
  BY <1>4 DEF ReadPriority, Raise, RaiseIsCut, Settle, MarkInv
<1>5. CASE Request \/ TimerCloses \/ UNCHANGED vars
  <2>1. now' = now /\ breached' = breached /\ pc' = pc
    BY <1>5 DEF Request, SilentWrite, Patch, PatchSlowly, PatchFrom, Reprioritise, ResolveLinked,
                AlertClears, AlertRefires, BulkCloses, ChangeCloses, AutomationWrites, ReadSlowly,
                MoveSlowly, ClearSlowly, GivesUp,
                TimerCloses, vars
  <2> QED BY <2>1 DEF MarkInv
<1>6. CASE Tick
  BY <1>0, <1>6 DEF Tick, MarkInv
<1> QED BY <1>1, <1>2, <1>3, <1>4, <1>5, <1>6 DEF Next, WorkflowStep

LEMMA PriorityStep ==
  ASSUME TypeOK, MarkInv, OnlyBreachesEscalate, [Next]_vars
  PROVE  OnlyBreachesEscalate'
<1> USE DEF columns, workflow, bounds, handler
<1>0. /\ priority \in Int /\ people \in Int /\ target \in Int /\ breached \in BOOLEAN
  BY DEF TypeOK, Priorities
<1>1. CASE Raise \/ RaiseIsCut
  <2>1. /\ breached = TRUE /\ breached' = breached /\ people' = people
        /\ priority' = Raised(priority)
    BY <1>1 DEF Raise, RaiseIsCut, MarkInv
  <2> QED BY <1>0, <2>1 DEF OnlyBreachesEscalate, Raised
<1>2. CASE Mark
  BY <1>2 DEF Mark, OnlyBreachesEscalate
<1>3. CASE Reprioritise
  BY <1>3 DEF Reprioritise, OnlyBreachesEscalate
<1>4. CASE \/ Start \/ ReadIncident \/ Decide \/ Warn \/ ReadPriority \/ Settle \/ WakeUp
           \/ FollowUp \/ Expire \/ Fail \/ Tick \/ UNCHANGED vars
           \/ AlertClears \/ AlertRefires \/ TimerCloses \/ (SilentWrite /\ ~Reprioritise)
           \/ \E body \in Bodies, fulfiller \in BOOLEAN :
                Patch(body, fulfiller) \/ PatchSlowly(body, fulfiller)
  <2>1. priority' = priority /\ people' = people /\ breached' = breached
    BY <1>4 DEF Start, ReadIncident, Decide, Warn, ReadPriority, Settle, WakeUp, FollowUp, Expire,
                Fail, Tick, SilentWrite, Patch, PatchSlowly, PatchFrom, ResolveLinked, AlertClears,
                AlertRefires, BulkCloses, ChangeCloses, AutomationWrites, ReadSlowly,
                MoveSlowly, ClearSlowly, GivesUp, TimerCloses, vars
  <2> QED BY <2>1 DEF OnlyBreachesEscalate
<1> QED BY <1>1, <1>2, <1>3, <1>4 DEF Next, WorkflowStep, Request, SilentWrite

-----------------------------------------------------------------------------
(***************************************************************************)
(* The theorems.                                                           *)
(***************************************************************************)

\* All of it together is inductive: timers are times because due dates are.
THEOREM EscalationInvariant == Spec => []EscalationInv
<1>1. EscalationInv /\ [Next]_vars => EscalationInv'
  <2> SUFFICES ASSUME EscalationInv, [Next]_vars PROVE EscalationInv'
    OBVIOUS
  <2>1. TypeOK'
    <3>1. CASE Next
      BY <3>1, WorkflowType, RequestType DEF Next, EscalationInv
    <3>2. CASE UNCHANGED vars
      BY <3>2 DEF vars, columns, workflow, bounds, handler, TypeOK, EscalationInv
    <3> QED BY <3>1, <3>2
  <2> QED BY <2>1, DueStep, MarkStep, PriorityStep DEF EscalationInv
<1> QED BY <1>1, InitInv, PTL DEF Spec

\* Every reachable state is well typed: no pause, handover or escalation takes
\* the due date, the timers or the priority out of their ranges.
THEOREM EscalationTypeCorrect == Spec => []TypeOK
<1>1. EscalationInv => TypeOK
  BY DEF EscalationInv
<1> QED BY <1>1, EscalationInvariant, PTL

\* For any requests, timers, delays and faults, no breach is on record before
\* the due date that was agreed at creation.
THEOREM AgreementIsKept == Spec => []NoBreachBeforeAgreement
<1>1. EscalationInv => NoBreachBeforeAgreement
  BY DEF EscalationInv, MarkInv, NoBreachBeforeAgreement
<1> QED BY <1>1, EscalationInvariant, PTL

\* For any interleaving of people and workflow, the workflow never makes an
\* incident less urgent than people made it, nor more urgent without a breach.
THEOREM EscalationIsJustified == Spec => []OnlyBreachesEscalate
<1>1. EscalationInv => OnlyBreachesEscalate
  BY DEF EscalationInv
<1> QED BY <1>1, EscalationInvariant, PTL

-----------------------------------------------------------------------------
(***************************************************************************)
(* The auto-close timer next to the escalation.                            *)
(***************************************************************************)

\* With the timer beside it, the escalation takes none but its own steps.
LEMMA TimerStepIsStep ==
  ASSUME [TimerNext]_timerVars
  PROVE  [Next]_vars
<1>1. CASE EscalationStep
  BY <1>1 DEF EscalationStep, Next
<1>2. CASE RequestAndTimer
  BY <1>2 DEF RequestAndTimer, Request, Next
<1>3. CASE CallEnds
  BY <1>3 DEF CallEnds, EnqueueArrives, CancelArrives, CallLost
<1>4. CASE TimerStep
  BY <1>4 DEF TimerStep, StartTimer, LookAgain, CloseIfResolved, TimerFails, Next
<1>5. CASE UNCHANGED timerVars
  BY <1>5 DEF timerVars
<1> QED BY <1>1, <1>2, <1>3, <1>4, <1>5 DEF TimerNext

\* The incident with both of its workflows implements the incident whose timer
\* may close it at any time: what is proved of IncidentEscalation holds of it.
THEOREM TimersImplementEscalation == TimerSpec => Spec
<1>1. TimerInit => Init
  BY DEF TimerInit
<1> QED BY <1>1, TimerStepIsStep, PTL DEF TimerSpec, Spec

TimerInv == TimerTypeOK /\ RestInv

\* The variables of the timer.
LEMMA ClosingType ==
  ASSUME TimerTypeOK, TimerNext
  PROVE  /\ job' \in {"absent", "pending", "completed"}
         /\ timer' \in {"none", "sleep", "close", "ended"}
         /\ fire' \in Nat /\ calls' \subseteq {"enqueue", "cancel"} /\ since' \in Nat
         /\ loose' \in BOOLEAN /\ lost' \in BOOLEAN
<1> USE TimersAssumption DEF TimerTypeOK, closing, GoesWrong
<1>1. now \in Nat
  BY DEF TypeOK
<1>2. Remember => since' \in Nat /\ loose' \in BOOLEAN
  <2>1. Remember => loose' \in BOOLEAN
    BY Zenon DEF Remember
  <2> QED BY <1>1, <2>1 DEF Remember
<1>3. CASE EscalationStep
  BY <1>3 DEF EscalationStep
<1>4. CASE RequestAndTimer
  <2>1. calls' \subseteq {"enqueue", "cancel"}
    <3>1. \A to, from : PatchTells(to, from) \subseteq {"enqueue", "cancel"}
      BY DEF PatchTells
    <3> QED BY <1>4, <3>1 DEF RequestAndTimer, Tell
  <2> QED BY <1>2, <1>4, <2>1 DEF RequestAndTimer
<1>5. CASE EnqueueArrives \/ CancelArrives
  BY <1>5 DEF EnqueueArrives, Enqueued, CancelArrives, Cancelled
<1>6. CASE CallLost
  <2>1. loose' \in BOOLEAN
    BY <1>6, Zenon DEF CallLost
  <2> QED BY <1>6, <2>1 DEF CallLost
<1>7. CASE StartTimer
  <2>1. fire' \in Nat
    BY <1>1, <1>7 DEF StartTimer
  <2>2. lost' \in BOOLEAN
    BY <1>7, Zenon DEF StartTimer
  <2> QED BY <1>7, <2>1, <2>2 DEF StartTimer
<1>8. CASE LookAgain
  BY <1>8 DEF LookAgain
<1>9. CASE CloseIfResolved
  BY <1>2, <1>9 DEF CloseIfResolved
<1>10. CASE TimerFails
  BY <1>10 DEF TimerFails
<1> QED BY <1>3, <1>4, <1>5, <1>6, <1>7, <1>8, <1>9, <1>10 DEF TimerNext, TimerStep, CallEnds

\* The escalation itself neither resolves an incident nor takes one out of resolved.
LEMMA EscalationKeepsResolved ==
  ASSUME TypeOK, WorkflowStep \/ RaiseIsCut \/ Expire \/ Fail \/ Tick
  PROVE  (row'.status = "resolved") <=> (row.status = "resolved")
<1> USE DEF columns, workflow
<1>1. row'= row \/ row' = AutoAssigned(row)
  BY DEF WorkflowStep, Start, ReadIncident, Decide, Warn, Mark, ReadPriority, Raise, Settle, WakeUp,
         FollowUp, RaiseIsCut, Expire, Fail, Tick
<1>2. row \in Rows
  BY DEF TypeOK
<1>3. AutoAssigned(row).status = IF row.status = "new" THEN "assigned" ELSE row.status
  BY <1>2 DEF AutoAssigned, Rows
<1> QED BY <1>1, <1>3

\* Time does not run back, and only Tick lets it pass.
LEMMA TimePasses ==
  ASSUME TypeOK, [Next]_vars
  PROVE  now' = now \/ (now' = now + 1 /\ UNCHANGED row)
<1> USE DEF columns, workflow
<1>1. CASE Tick
  BY <1>1 DEF Tick
<1>2. CASE WorkflowStep \/ RaiseIsCut \/ Expire \/ Fail
  BY <1>2 DEF WorkflowStep, Start, ReadIncident, Decide, Warn, Mark, ReadPriority, Raise, Settle,
              WakeUp, FollowUp, RaiseIsCut, Expire, Fail
<1>3. CASE Request \/ TimerCloses \/ UNCHANGED vars
  BY <1>3 DEF Request, SilentWrite, Patch, PatchSlowly, PatchFrom, Reprioritise, ResolveLinked,
              AlertClears, AlertRefires, BulkCloses, ChangeCloses, AutomationWrites, ReadSlowly,
              MoveSlowly, ClearSlowly, GivesUp,
              TimerCloses, vars
<1> QED BY <1>1, <1>2, <1>3 DEF Next

\* What a request leaves of the job and the timer.
LEMMA RequestAndTimerRests ==
  ASSUME TimerInv, RequestAndTimer, now' = now
  PROVE  RestInv'
<1> USE DEF TimerInv, TimerTypeOK, RestInv, Running
<1>1. now \in Nat /\ since \in Nat /\ fire \in Nat /\ CloseDelay \in Nat
  BY TimersAssumption DEF TypeOK
<1>2. /\ UNCHANGED <<job, timer, fire>> /\ calls \subseteq calls'
      /\ since' = IF Entering THEN now ELSE since
      /\ loose' = (loose \/ Loosened)
  BY DEF RequestAndTimer, Remember, Tell
<1>3. since' <= now'
  BY <1>1, <1>2
<1>4. CASE loose' = TRUE
  BY <1>2, <1>3, <1>4
<1>5. CASE ~loose'
  <2>1. ~loose /\ ~Loosened
    BY <1>2, <1>5
  <2>2. "enqueue" \in calls' /\ "enqueue" \notin calls => row'.status = "resolved"
    <3>1. ASSUME NEW body \in Bodies, NEW fulfiller \in BOOLEAN, NEW from,
                 PatchFrom(from, body, fulfiller),
                 "enqueue" \in PatchTells(WrittenStatus(body, from), from)
          PROVE  row'.status = "resolved"
      <4>1. WrittenStatus(body, from) = "resolved"
        BY <3>1 DEF PatchTells
      <4> QED BY <3>1, <4>1 DEF PatchFrom, Patched
    <3> QED BY <3>1 DEF RequestAndTimer, Patch, PatchSlowly, Tell
  <2>3. CASE Leaving
    <3>1. "enqueue" \notin calls /\ job # "pending" /\ timer # "close"
          /\ (timer = "sleep" => "cancel" \in calls')
      BY <1>2, <2>1, <2>3 DEF Loosened
    <3>2. since' = since /\ row'.status # "resolved"
      BY <1>2, <2>3 DEF Entering, Leaving
    <3> QED BY <1>2, <1>3, <2>1, <2>2, <3>1, <3>2
  <2>4. CASE Entering
    <3>1. "cancel" \in calls => ~Running
      BY <2>1, <2>4 DEF Loosened
    <3>2. ~Running /\ row'.status = "resolved"
      BY <2>1, <2>4, <3>1 DEF Entering
    <3> QED BY <1>2, <1>3, <3>2
  <2>5. CASE ~Entering /\ ~Leaving
    <3>1. (row'.status = "resolved") <=> (row.status = "resolved")
      BY <2>5 DEF Entering, Leaving
    <3> QED BY <1>2, <1>3, <2>1, <2>2, <2>5, <3>1
  <2> QED BY <2>3, <2>4, <2>5
<1> QED BY <1>2, <1>4, <1>5

\* The calls on their way.
LEMMA CallEndsRests ==
  ASSUME TimerInv, CallEnds
  PROVE  RestInv'
<1> USE DEF TimerInv, TimerTypeOK, RestInv, Running
<1>1. UNCHANGED <<now, row, fire, since>>
  BY DEF CallEnds, EnqueueArrives, CancelArrives, CallLost, vars, columns
<1>2. CASE EnqueueArrives
  <2>1. /\ "enqueue" \in calls /\ UNCHANGED <<timer, loose>> /\ calls' = calls \ {"enqueue"}
        /\ job' = IF job = "completed" THEN "completed" ELSE "pending"
    BY <1>2 DEF EnqueueArrives, Enqueued
  <2> QED BY <1>1, <2>1
<1>3. CASE CancelArrives
  <2>1. /\ UNCHANGED <<job, loose>> /\ calls' = calls \ {"cancel"}
        /\ timer' = (IF Running THEN "ended" ELSE timer) \/ (timer = "close" /\ timer' = timer)
    BY <1>3 DEF CancelArrives, Cancelled
  <2> QED BY <1>1, <2>1
<1>4. CASE CallLost
  <2>1. PICK call \in calls : /\ calls' = calls \ {call}
                              /\ loose' = (loose \/ (call = "cancel" /\ Running))
    BY <1>4 DEF CallLost
  <2>2. UNCHANGED <<job, timer>>
    BY <1>4 DEF CallLost
  <2> QED BY <1>1, <2>1, <2>2
<1> QED BY <1>2, <1>3, <1>4 DEF CallEnds

LEMMA RestStep ==
  ASSUME TimerInv, [TimerNext]_timerVars
  PROVE  RestInv'
<1> USE TimersAssumption DEF TimerInv, TimerTypeOK, RestInv, Running, closing, GoesWrong
<1>1. now \in Nat /\ since \in Nat /\ fire \in Nat
  BY DEF TypeOK
<1>2. now' = now \/ (now' = now + 1 /\ UNCHANGED row)
  BY TimerStepIsStep, TimePasses
<1>3. CASE EscalationStep
  <2>1. UNCHANGED closing
    BY <1>3 DEF EscalationStep
  <2>2. (row'.status = "resolved") <=> (row.status = "resolved")
    BY <1>3, EscalationKeepsResolved DEF EscalationStep
  <2> QED BY <1>1, <1>2, <2>1, <2>2
<1>4. CASE RequestAndTimer
  <2>1. now' = now
    BY <1>4 DEF RequestAndTimer, SilentWrite, Patch, PatchSlowly, PatchFrom, Reprioritise,
                ResolveLinked, AlertClears, AlertRefires, BulkCloses, ChangeCloses, AutomationWrites,
                ReadSlowly, MoveSlowly, ClearSlowly, GivesUp
  <2> QED BY <1>4, <2>1, RequestAndTimerRests
<1>5. CASE CallEnds
  BY <1>5, CallEndsRests
<1>6. CASE StartTimer
  BY <1>1, <1>6 DEF StartTimer, vars, columns
<1>7. CASE LookAgain
  BY <1>1, <1>7 DEF LookAgain, vars, columns
<1>8. CASE CloseIfResolved
  <2>1. /\ now' = now /\ UNCHANGED <<job, fire, calls>>
        /\ timer = "close" /\ timer' \in {"ended", "close"}
    BY <1>8 DEF CloseIfResolved, TimerCloses, vars
  <2>2. row'.status # "resolved"
    BY <1>8 DEF CloseIfResolved, TimerCloses, TimerClosed, TypeOK, Rows, vars, columns
  <2>3. since' = since /\ loose' = (loose \/ Loosened)
    BY <1>8, <2>2 DEF CloseIfResolved, Remember, Entering
  <2>4. ~loose' => /\ "enqueue" \notin calls' /\ job' # "pending" /\ timer' # "close"
    BY <2>1, <2>2, <2>3 DEF Loosened, Leaving
  <2> QED BY <1>1, <2>1, <2>2, <2>3, <2>4
<1>9. CASE TimerFails
  BY <1>9 DEF TimerFails, vars, columns
<1>10. CASE UNCHANGED timerVars
  BY <1>10 DEF timerVars, vars, columns
<1> QED BY <1>3, <1>4, <1>5, <1>6, <1>7, <1>8, <1>9, <1>10 DEF TimerNext, TimerStep

\* All of it together is inductive; the types of the incident come from the escalation.
THEOREM TimerInvariant == TimerSpec => []TimerInv
<1>1. TimerInit => TimerInv
  <2> SUFFICES ASSUME TimerInit PROVE TimerInv
    OBVIOUS
  <2>1. TypeOK /\ now = 0
    BY InitInv DEF TimerInit, EscalationInv, Init
  <2>2. TimerTypeOK
    BY <2>1 DEF TimerInit, TimerTypeOK
  <2>3. RestInv
    BY <2>1 DEF TimerInit, RestInv, Running
  <2> QED BY <2>2, <2>3 DEF TimerInv
<1>2. TimerInv /\ TypeOK' /\ [TimerNext]_timerVars => TimerInv'
  <2> SUFFICES ASSUME TimerInv, TypeOK', [TimerNext]_timerVars PROVE TimerInv'
    OBVIOUS
  <2>1. TimerTypeOK'
    <3>1. CASE TimerNext
      BY <3>1, ClosingType DEF TimerInv, TimerTypeOK
    <3>2. CASE UNCHANGED timerVars
      BY <3>2 DEF timerVars, closing, TimerInv, TimerTypeOK
    <3> QED BY <3>1, <3>2
  <2> QED BY <2>1, RestStep DEF TimerInv
<1> QED BY <1>1, <1>2, TimersImplementEscalation, EscalationTypeCorrect, PTL DEF TimerSpec

\* Every reachable state of the incident, the queue's row and both workflows is
\* well typed.
THEOREM TimersTypeCorrect == TimerSpec => []TimerTypeOK
<1>1. TimerInv => TimerTypeOK
  BY DEF TimerInv
<1> QED BY <1>1, TimerInvariant, PTL

\* However often an incident is reopened and resolved again, a timer that was
\* stopped in time each time closes nothing that has not rested for CloseDelay.
THEOREM ResolutionsRest == TimerSpec => []OnlyRestedIsClosed
<1>1. TimerInv => OnlyRestedIsClosed
  BY DEF TimerInv, RestInv, Running, OnlyRestedIsClosed
<1> QED BY <1>1, TimerInvariant, PTL
=============================================================================
