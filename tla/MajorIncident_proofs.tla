------------------------- MODULE MajorIncident_proofs -------------------------
(***************************************************************************)
(* For any incidents, handlers and faults: the variables keep their types, *)
(* a rejected promotion stays down, a resolved major incident does not     *)
(* relapse, and what the workflow has finalized is closed as a whole.      *)
(***************************************************************************)
EXTENDS MajorIncident, TLAPS

DeskState     == [pc : DeskPCs, inc : Incidents]
RunPCs        == Ended \cup Calls \cup {"wait", "watch"}
ReminderState == [pc : {"none", "check", "wait", "done", "failed"}, heard : BOOLEAN]

\* Before there is a major incident nobody works on it.
AbsentInv ==
  status = "absent" =>
    /\ linked = {} /\ owed = {} /\ run.todo = {} /\ postmortem = "none"
    /\ \A h \in Handlers : At(h, "idle")

\* Without an acceptance there is no workflow, and nobody about to ask for one.
UnacceptedInv ==
  status \in {"absent", "pending_acceptance"} \/ rejected =>
    /\ job = "absent" /\ run.pc = "none"
    /\ \A h \in Handlers : ~At(h, "enqueue")

\* How far an attempt to finalize has come.
FinalInv ==
  /\ run.pc \in {"look", "insert", "select", "close", "child", "done"} => status = "resolved"
  /\ run.pc \in {"select", "close", "child", "done"} => postmortem # "none"
  /\ run.pc = "close" => \A i \in owed \ (spared \cup run.todo) : incident[i] = "over"
  /\ run.pc \in {"child", "done"} => \A i \in owed \ spared : incident[i] = "over"

MajorInv ==
  /\ TypeOK /\ AbsentInv /\ UnacceptedInv /\ FinalInv
  /\ rejected => status = "cancelled"

-----------------------------------------------------------------------------
(***************************************************************************)
(* The initial state.                                                      *)
(***************************************************************************)

LEMMA IdleType == Idle \in DeskState /\ Idle.pc = "idle"
BY MajorAssumption DEF Idle, DeskState, DeskPCs

LEMMA InitInv == Init => MajorInv
<1> SUFFICES ASSUME Init PROVE MajorInv
  OBVIOUS
<1>1. desk \in [Handlers -> DeskState] /\ \A h \in Handlers : desk[h].pc = "idle"
  BY IdleType DEF Init
<1>2. TypeOK
  BY <1>1 DEF Init, TypeOK, DeskState, Statuses, NoRun, Ended
<1>3. AbsentInv /\ UnacceptedInv /\ FinalInv
  BY <1>1 DEF Init, AbsentInv, UnacceptedInv, FinalInv, At, NoRun
<1> QED BY <1>2, <1>3 DEF MajorInv, Init

-----------------------------------------------------------------------------
(***************************************************************************)
(* Type correctness.                                                       *)
(***************************************************************************)

LEMMA DeskType ==
  ASSUME TypeOK, NEW h \in Handlers
  PROVE  /\ Finish(h) => desk' \in [Handlers -> DeskState]
         /\ \A pc \in DeskPCs : Goto(h, pc) => desk' \in [Handlers -> DeskState]
<1>1. desk \in [Handlers -> DeskState]
  BY DEF TypeOK, DeskState
<1>2. ASSUME Finish(h) PROVE desk' \in [Handlers -> DeskState]
  BY <1>1, <1>2, IdleType DEF Finish
<1>3. ASSUME NEW pc \in DeskPCs, Goto(h, pc) PROVE desk' \in [Handlers -> DeskState]
  <2>1. [desk[h] EXCEPT !.pc = pc] \in DeskState
    BY <1>1 DEF DeskState
  <2> QED BY <1>1, <1>3, <2>1 DEF Goto
<1> QED BY <1>2, <1>3

LEMMA FaultType == ASSUME TypeOK, Fault PROVE faults' \in Nat
BY DEF TypeOK, Fault

LEMMA RequestType ==
  ASSUME MajorInv, NEW h \in Handlers, Request(h)
  PROVE  TypeOK'
<1> USE DEF tables, workflows, history, bounds
<1>1. TypeOK /\ AbsentInv
  BY DEF MajorInv
<1>2. DeskPCs = {"idle", "accept", "enqueue", "reject", "investigate", "resolve", "signal",
                 "link", "draft", "announce"}
  BY DEF DeskPCs
<1>3. ASSUME NEW pc \in DeskPCs, Begin(h, pc)
      PROVE  desk' \in [Handlers -> DeskState] /\ requests' \in Nat
  BY <1>1, <1>3, DeskType DEF Begin, TypeOK
<1>4. CASE Promote(h)
  <2>1. linked = {} /\ owed = {} /\ run.todo = {}
    BY <1>1, <1>4 DEF Promote, AbsentInv
  <2>2. desk' \in [Handlers -> DeskState] /\ requests' \in Nat
    BY <1>2, <1>3, <1>4 DEF Promote
  <2>3. linked' \subseteq Incidents /\ status' \in Statuses
    BY <1>4, MajorAssumption DEF Promote, Statuses
  <2> QED BY <1>1, <1>4, <2>1, <2>2, <2>3 DEF Promote, TypeOK, DeskState
<1>5. CASE Declare(h)
  <2>1. desk' \in [Handlers -> DeskState] /\ requests' \in Nat
    BY <1>2, <1>3, <1>5 DEF Declare
  <2> QED BY <1>1, <1>5, <2>1 DEF Declare, TypeOK, DeskState, Statuses
<1>6. CASE Read(h)
  <2>1. desk' \in [Handlers -> DeskState] /\ requests' \in Nat
    BY <1>2, <1>3, <1>6 DEF Read
  <2> QED BY <1>1, <1>6, <2>1 DEF Read, TypeOK, DeskState
<1>7. CASE Edit(h) \/ Publish(h)
  <2>1. desk' \in [Handlers -> DeskState] /\ requests' \in Nat
    BY <1>2, <1>3, <1>7 DEF Edit, Publish
  <2> QED BY <1>1, <1>7, <2>1 DEF Edit, Publish, TypeOK, DeskState
<1>8. ASSUME NEW i \in Incidents, LinkRead(h, i)
      PROVE  TypeOK'
  <2>1. [pc |-> "link", inc |-> i] \in DeskState
    BY DEF DeskState, DeskPCs
  <2>2. desk' \in [Handlers -> DeskState]
    BY <1>1, <1>8, <2>1 DEF LinkRead, TypeOK, DeskState
  <2> QED BY <1>1, <1>8, <2>2 DEF LinkRead, TypeOK, DeskState
<1> QED BY <1>4, <1>5, <1>6, <1>7, <1>8 DEF Request

LEMMA HandleType ==
  ASSUME TypeOK, NEW h \in Handlers, Handle(h) \/ Die(h)
  PROVE  TypeOK'
<1> USE DEF tables, workflows, history, bounds
<1>1. desk' \in [Handlers -> DeskState]
  <2>1. {"enqueue", "signal"} \subseteq DeskPCs
    BY DEF DeskPCs
  <2>2. Finish(h) \/ Goto(h, "enqueue") \/ Goto(h, "signal")
    BY DEF Handle, Accept, Enqueue, Reject, Investigate, Resolve, Signal, Link, Draft, Announce, Die
  <2> QED BY <2>1, <2>2, DeskType
<1>2. CASE Accept(h) \/ Reject(h) \/ Investigate(h) \/ Resolve(h)
  <2>1. status' \in Statuses /\ rejected' \in BOOLEAN
    BY <1>2 DEF Accept, Reject, Investigate, Resolve, Statuses, TypeOK
  <2> QED BY <1>1, <1>2, <2>1 DEF Accept, Reject, Investigate, Resolve, TypeOK, DeskState
<1>3. CASE Enqueue(h) \/ Draft(h)
  BY <1>1, <1>3 DEF Enqueue, Draft, TypeOK, DeskState
<1>4. CASE Signal(h)
  <2>1. run' \in [pc : RunPCs, phase : {"active", "monitoring"}, todo : SUBSET linked]
    BY <1>4 DEF Signal, TypeOK, RunPCs
  <2> QED BY <1>1, <1>4, <2>1, FaultType DEF Signal, TypeOK, DeskState, RunPCs
<1>5. CASE Link(h)
  BY <1>1, <1>5 DEF Link, TypeOK, DeskState
<1>6. CASE Announce(h)
  <2>1. reminder' \in ReminderState
    <3>1. reminder.heard \in BOOLEAN /\ (reminder.pc \in {"check", "wait"}) \in BOOLEAN
      BY DEF TypeOK
    <3>2. (reminder.heard \/ reminder.pc \in {"check", "wait"}) \in BOOLEAN
      BY <3>1, Zenon
    <3> DEFINE heard == reminder.heard \/ reminder.pc \in {"check", "wait"}
    <3>3. reminder' = reminder \/ reminder' = [reminder EXCEPT !.heard = heard]
      BY <1>6 DEF Announce
    <3> HIDE DEF heard
    <3> QED BY <3>2, <3>3 DEF ReminderState, TypeOK, heard
  <2> QED BY <1>1, <1>6, <2>1, FaultType DEF Announce, TypeOK, DeskState, ReminderState
<1>7. CASE Die(h)
  BY <1>1, <1>7, FaultType DEF Die, TypeOK, DeskState
<1> QED BY <1>2, <1>3, <1>4, <1>5, <1>6, <1>7 DEF Handle

LEMMA WorkflowType ==
  ASSUME TypeOK, Start \/ RunStep \/ Repeat \/ Fail
  PROVE  TypeOK'
<1> USE DEF tables, workflows, history, bounds
<1> DEFINE RunState == [pc : RunPCs, phase : {"active", "monitoring"}, todo : SUBSET linked]
<1>1. run \in RunState
  BY DEF TypeOK, RunPCs
<1>2. ASSUME NEW pc \in RunPCs, RunGoto(pc) PROVE run' \in RunState
  BY <1>1, <1>2 DEF RunGoto
<1>3. RunPCs = {"none", "done", "failed", "declare", "monitor", "child", "resolve", "look",
                "insert", "select", "close", "wait", "watch"}
  BY DEF RunPCs, Ended, Calls, Finalizing
<1>4. CASE Start
  <2>1. run' \in RunState
    BY <1>1, <1>3, <1>4 DEF Start, NoRun
  <2> QED BY <1>4, <2>1, FaultType DEF Start, TypeOK, RunPCs
<1>5. CASE Declared
  <2>1. run' \in RunState
    BY <1>1, <1>3, <1>5 DEF Declared, RunGoto
  <2> QED BY <1>5, <2>1 DEF Declared, TypeOK, RunPCs
<1>6. CASE HearResolution \/ Watched \/ LookForPostmortem \/ Finalized
  <2>1. run' \in RunState
    BY <1>2, <1>3, <1>6 DEF HearResolution, Watched, LookForPostmortem, Finalized
  <2> QED BY <1>6, <2>1 DEF HearResolution, Watched, LookForPostmortem, Finalized, TypeOK, RunPCs
<1>7. CASE SetMonitoring \/ SetResolved
  <2>1. run' \in RunState
    BY <1>2, <1>3, <1>7 DEF SetMonitoring, SetResolved
  <2>2. status' \in Statuses
    BY <1>7 DEF SetMonitoring, SetResolved, MonitoredUnlessOver, Statuses, TypeOK
  <2> QED BY <1>7, <2>1, <2>2 DEF SetMonitoring, SetResolved, TypeOK, RunPCs
<1>8. CASE InsertPostmortem
  <2>1. run' \in RunState
    BY <1>2, <1>3, <1>8 DEF InsertPostmortem, AfterDuplicate
  <2> QED BY <1>8, <2>1 DEF InsertPostmortem, TypeOK, RunPCs
<1>9. CASE SelectLinked
  <2>1. run' \in RunState
    BY <1>1, <1>3, <1>9 DEF SelectLinked, LinkedIncidents
  <2> QED BY <1>9, <2>1 DEF SelectLinked, TypeOK, RunPCs
<1>10. ASSUME NEW i \in Incidents, CloseOne(i)
       PROVE  TypeOK'
  <2>1. run' \in RunState
    BY <1>1, <1>10 DEF CloseOne
  <2>2. incident' \in [Incidents -> {"open", "over"}] /\ faults' \in Nat
    BY <1>10, FaultType DEF CloseOne, TypeOK
  <2>3. spared' \subseteq Incidents
    BY <1>10 DEF CloseOne, TypeOK
  <2> QED BY <1>10, <2>1, <2>2, <2>3 DEF CloseOne, TypeOK, RunPCs
<1>11. CASE StartChild
  <2>1. run' \in RunState
    BY <1>2, <1>3, <1>11 DEF StartChild
  <2>2. reminder' \in ReminderState
    <3>1. reminder' = reminder \/ reminder' = [pc |-> "check", heard |-> FALSE]
      BY <1>11 DEF StartChild
    <3>2. [pc |-> "check", heard |-> FALSE] \in ReminderState
      BY DEF ReminderState
    <3> QED BY <3>1, <3>2 DEF TypeOK, ReminderState
  <2> QED BY <1>11, <2>1, <2>2 DEF StartChild, TypeOK, RunPCs, ReminderState
<1>12. CASE Repeat \/ Fail
  <2>1. run' \in RunState
    BY <1>2, <1>3, <1>12 DEF Repeat, Fail
  <2> QED BY <1>12, <2>1, FaultType DEF Repeat, Fail, TypeOK, RunPCs
<1> QED
  BY <1>4, <1>5, <1>6, <1>7, <1>8, <1>9, <1>10, <1>11, <1>12 DEF RunStep

LEMMA OtherType ==
  ASSUME TypeOK, (\E i \in Incidents : WorkOn(i)) \/ Remind \/ GiveUp
  PROVE  TypeOK'
<1> USE DEF tables, workflows, history, bounds
<1>1. ASSUME NEW i \in Incidents, WorkOn(i) PROVE TypeOK'
  <2>1. incident' \in [Incidents -> {"open", "over"}]
    BY <1>1 DEF WorkOn, TypeOK
  <2> QED BY <1>1, <2>1 DEF WorkOn, TypeOK
<1>2. CASE Remind \/ GiveUp
  <2>1. reminder' \in ReminderState
    BY <1>2 DEF Remind, Check, Wake, GiveUp, TypeOK, ReminderState
  <2> QED BY <1>2, <2>1, FaultType DEF Remind, Check, Wake, GiveUp, TypeOK, ReminderState
<1> QED BY <1>1, <1>2

LEMMA TypeStep == ASSUME MajorInv, [Next]_vars PROVE TypeOK'
<1>1. CASE UNCHANGED vars
  BY <1>1 DEF MajorInv, TypeOK, vars, tables, workflows, bounds, history
<1> QED BY <1>1, RequestType, HandleType, WorkflowType, OtherType DEF MajorInv, Next

-----------------------------------------------------------------------------
(***************************************************************************)
(* Before the acceptance, and after a rejection.                           *)
(***************************************************************************)

\* How the status may move: by a handler, or by the workflow.
LEMMA StatusMoves ==
  ASSUME TypeOK, [Next]_vars
  PROVE  \/ status' = status
         \/ status = "absent" /\ status' \in {"pending_acceptance", "declared"}
         \/ status = "pending_acceptance" /\ status' \in {"declared", "cancelled"}
         \/ status \in Resolvable /\ status' \in {"investigating", "monitoring"}
         \/ run.pc = "monitor" /\ status' = MonitoredUnlessOver(status)
         \/ run.pc = "resolve" /\ status' = "resolved"
<1> USE DEF tables, workflows, history, bounds
<1>2. ASSUME NEW h \in Handlers, Handle(h)
      PROVE  \/ status' = status
             \/ status = "pending_acceptance" /\ status' \in {"declared", "cancelled"}
             \/ status \in Resolvable /\ status' \in {"investigating", "monitoring"}
  <2>1. {"declared"} \subseteq Resolvable
    BY DEF Resolvable, Statuses
  <2> QED
    BY <1>2, <2>1 DEF Handle, Accept, Enqueue, Reject, Investigate, Resolve, Signal, Link,
       Draft, Announce, MayLeave, Proposed
<1>3. ASSUME NEW h \in Handlers, Request(h)
      PROVE  \/ status' = status
             \/ status = "absent" /\ status' \in {"pending_acceptance", "declared"}
  BY <1>3 DEF Request, Promote, Declare, Read, Edit, Publish, LinkRead
<1>4. CASE RunStep
  BY <1>4 DEF RunStep, Declared, HearResolution, SetMonitoring, Watched, SetResolved,
     LookForPostmortem, InsertPostmortem, SelectLinked, Finalized, StartChild, CloseOne, RunAt
<1> QED
  BY <1>2, <1>3, <1>4 DEF Next, Die, WorkOn, Start, Repeat, Fail, Remind, Check, Wake, GiveUp, vars

\* Promotion and declaration come first, and only once.
LEMMA AbsentStep == ASSUME MajorInv, [Next]_vars PROVE AbsentInv'
<1> USE DEF tables, workflows, history, bounds
<1>1. TypeOK /\ AbsentInv /\ UnacceptedInv
  BY DEF MajorInv
<1> SUFFICES ASSUME status' = "absent"
             PROVE  /\ linked' = {} /\ owed' = {} /\ run'.todo = {} /\ postmortem' = "none"
                    /\ \A h \in Handlers : desk'[h].pc = "idle"
  BY DEF AbsentInv, At
<1>2. status = "absent"
  BY <1>1, StatusMoves DEF MonitoredUnlessOver
<1>3. /\ linked = {} /\ owed = {} /\ run.todo = {} /\ postmortem = "none"
      /\ \A h \in Handlers : desk[h].pc = "idle"
      /\ job = "absent" /\ run.pc = "none"
  BY <1>1, <1>2 DEF AbsentInv, UnacceptedInv, At
<1>4. ASSUME NEW h \in Handlers PROVE ~Request(h) /\ ~Handle(h) /\ ~Die(h)
  <2>1. ~Request(h)
    BY <1>2, <1>3 DEF Request, Promote, Declare, Read, Edit, Publish, LinkRead
  <2>2. ~Handle(h) /\ ~Die(h)
    BY <1>3 DEF Handle, Accept, Enqueue, Reject, Investigate, Resolve, Signal, Link, Draft,
       Announce, Die, At
  <2> QED BY <2>1, <2>2
<1>5. ~(Start \/ RunStep \/ Repeat \/ Fail)
  BY <1>3 DEF Start, RunStep, Repeat, Fail, Declared, HearResolution, SetMonitoring, Watched,
     SetResolved, LookForPostmortem, InsertPostmortem, SelectLinked, Finalized, StartChild,
     CloseOne, RunAt, Ended, Finalizing
<1>6. CASE \E i \in Incidents : WorkOn(i)
  BY <1>3, <1>6 DEF WorkOn
<1>7. CASE Remind \/ GiveUp
  BY <1>3, <1>7 DEF Remind, Check, Wake, GiveUp
<1>8. CASE UNCHANGED vars
  BY <1>3, <1>8 DEF vars
<1> QED BY <1>4, <1>5, <1>6, <1>7, <1>8 DEF Next

\* A handler asks for the workflow only once the promotion is accepted.
LEMMA UnacceptedStep ==
  ASSUME MajorInv, [Next]_vars
  PROVE  UnacceptedInv' /\ (rejected' => status' = "cancelled")
<1> USE DEF tables, workflows, history, bounds
<1>1. TypeOK /\ UnacceptedInv /\ (rejected => status = "cancelled")
  BY DEF MajorInv
<1>2. rejected' = rejected \/ \E h \in Handlers : Reject(h)
  BY DEF Next, Request, Promote, Declare, Read, Edit, Publish, LinkRead, Handle, Accept, Enqueue,
     Investigate, Resolve, Signal, Link, Draft, Announce, Die, WorkOn, Start, RunStep, Declared,
     HearResolution, SetMonitoring, Watched, SetResolved, LookForPostmortem, InsertPostmortem,
     SelectLinked, Finalized, StartChild, CloseOne, Repeat, Fail, Remind, Check, Wake, GiveUp, vars
<1>3. ASSUME status' \in {"absent", "pending_acceptance"} \/ rejected'
      PROVE  /\ job = "absent" /\ run.pc = "none"
             /\ \A h \in Handlers : desk[h].pc # "enqueue"
  <2>1. CASE \E h \in Handlers : Reject(h)
    BY <1>1, <1>3, <2>1 DEF Reject, MayLeave, Proposed, UnacceptedInv, At
  <2>2. CASE rejected' = rejected
    BY <1>1, <1>3, <2>2, StatusMoves DEF MonitoredUnlessOver, UnacceptedInv, At
  <2> QED BY <1>2, <2>1, <2>2
<1>4. rejected' => status' = "cancelled"
  <2>1. CASE \E h \in Handlers : Reject(h)
    BY <1>1, <2>1 DEF Reject
  <2>2. CASE rejected' = rejected
    <3> SUFFICES ASSUME rejected' PROVE status' = "cancelled"
      OBVIOUS
    <3>1. status = "cancelled" /\ run.pc = "none"
      BY <1>1, <1>3, <2>2
    <3> QED BY <1>1, <3>1, StatusMoves DEF Resolvable
  <2> QED BY <1>2, <2>1, <2>2
<1>5. ASSUME status' \in {"absent", "pending_acceptance"} \/ rejected'
      PROVE  /\ job' = "absent" /\ run'.pc = "none"
             /\ \A h \in Handlers : desk'[h].pc # "enqueue"
  <2>1. job = "absent" /\ run.pc = "none" /\ \A h \in Handlers : desk[h].pc # "enqueue"
    BY <1>3, <1>5
  <2>2. status' # "declared" \/ status' = "cancelled"
    BY <1>4, <1>5
  <2>3. ASSUME NEW h \in Handlers, Accept(h) PROVE Finish(h)
    BY <2>2, <2>3 DEF Accept
  <2>4. desk \in [Handlers -> DeskState] /\ Idle.pc = "idle"
    BY <1>1, IdleType DEF TypeOK, DeskState
  <2>5. ASSUME NEW h \in Handlers, Finish(h)
        PROVE  \A g \in Handlers : desk'[g].pc # "enqueue"
    BY <2>1, <2>4, <2>5 DEF Finish
  <2>6. ASSUME NEW h \in Handlers, NEW pc, pc # "enqueue", Goto(h, pc)
        PROVE  \A g \in Handlers : desk'[g].pc # "enqueue"
    BY <2>1, <2>4, <2>6 DEF Goto, DeskState
  <2>7. ASSUME NEW h \in Handlers, Request(h)
        PROVE  /\ job' = "absent" /\ run'.pc = "none"
               /\ \A g \in Handlers : desk'[g].pc # "enqueue"
    <3>1. UNCHANGED workflows /\ ~Declare(h)
      BY <2>2, <2>7 DEF Request, Promote, Declare, Read, Edit, Publish, LinkRead
    <3>2. CASE \E i \in Incidents : LinkRead(h, i)
      BY <2>1, <2>4, <3>1, <3>2 DEF LinkRead
    <3>3. CASE Promote(h) \/ Read(h) \/ Edit(h) \/ Publish(h)
      BY <2>1, <2>6, <3>1, <3>3 DEF Promote, Read, Edit, Publish, Begin
    <3> QED BY <2>7, <3>1, <3>2, <3>3 DEF Request
  <2>8. ASSUME NEW h \in Handlers, Handle(h) \/ Die(h)
        PROVE  /\ job' = "absent" /\ run'.pc = "none"
               /\ \A g \in Handlers : desk'[g].pc # "enqueue"
    <3>1. job' = job /\ run' = run
      BY <2>1, <2>8 DEF Handle, Accept, Enqueue, Reject, Investigate, Resolve, Signal, Link, Draft,
         Announce, Die, At, Ended
    <3>2. Finish(h) \/ Goto(h, "signal")
      <4>1. ~Enqueue(h)
        BY <2>1 DEF Enqueue, At
      <4> QED
        BY <2>3, <2>8, <4>1 DEF Handle, Reject, Investigate, Resolve, Signal, Link, Draft, Announce,
           Die
    <3> QED BY <2>1, <2>5, <2>6, <3>1, <3>2
  <2>9. ~(Start \/ RunStep \/ Repeat \/ Fail)
    BY <2>1 DEF Start, RunStep, Repeat, Fail, Declared, HearResolution, SetMonitoring, Watched,
       SetResolved, LookForPostmortem, InsertPostmortem, SelectLinked, Finalized, StartChild,
       CloseOne, RunAt, Ended, Finalizing
  <2>10. CASE (\E i \in Incidents : WorkOn(i)) \/ Remind \/ GiveUp \/ UNCHANGED vars
    BY <2>1, <2>10 DEF WorkOn, Remind, Check, Wake, GiveUp, vars
  <2> QED BY <2>7, <2>8, <2>9, <2>10 DEF Next
<1> QED BY <1>4, <1>5 DEF UnacceptedInv, At

-----------------------------------------------------------------------------
(***************************************************************************)
(* The resolution.                                                         *)
(***************************************************************************)

\* Only the workflow moves a resolved major incident, and it keeps it resolved.
LEMMA StaysResolved ==
  ASSUME TypeOK, [Next]_vars, status = "resolved"
  PROVE  status' = "resolved"
BY StatusMoves DEF Resolvable, MonitoredUnlessOver

\* A postmortem is never taken away.
LEMMA StaysWritten ==
  ASSUME [Next]_vars, postmortem # "none"
  PROVE  postmortem' # "none"
<1> USE DEF tables, workflows, history, bounds
<1> QED
  BY DEF Next, Request, Promote, Declare, Read, Edit, Publish, LinkRead, Handle, Accept, Enqueue,
     Reject, Investigate, Resolve, Signal, Link, Draft, Announce, Die, WorkOn, Start, RunStep,
     Declared, HearResolution, SetMonitoring, Watched, SetResolved, LookForPostmortem,
     InsertPostmortem, SelectLinked, Finalized, StartChild, CloseOne, Repeat, Fail, Remind, Check,
     Wake, GiveUp, vars

\* An incident that is over stays over, or people have opened it.
LEMMA StaysOver ==
  ASSUME TypeOK, [Next]_vars, NEW i \in Incidents, incident[i] = "over"
  PROVE  /\ incident'[i] = "over" \/ i \in spared'
         /\ spared \subseteq spared'
<1> USE DEF tables, workflows, history, bounds
<1>1. ASSUME NEW k \in Incidents, WorkOn(k) \/ CloseOne(k)
      PROVE  (incident'[i] = "over" \/ i \in spared') /\ spared \subseteq spared'
  BY <1>1 DEF WorkOn, CloseOne, TypeOK
<1>2. CASE UNCHANGED <<incident, spared>>
  BY <1>2
<1> QED
  BY <1>1, <1>2 DEF Next, Request, Promote, Declare, Read, Edit, Publish, LinkRead, Handle, Accept,
     Enqueue, Reject, Investigate, Resolve, Signal, Link, Draft, Announce, Die, Start, RunStep,
     Declared, HearResolution, SetMonitoring, Watched, SetResolved, LookForPostmortem,
     InsertPostmortem, SelectLinked, Finalized, StartChild, Repeat, Fail, Remind, Check, Wake,
     GiveUp, vars

LEMMA SparedGrows == ASSUME [Next]_vars PROVE spared \subseteq spared'
<1> USE DEF tables, workflows, history, bounds
<1> QED
  BY DEF Next, Request, Promote, Declare, Read, Edit, Publish, LinkRead, Handle, Accept, Enqueue,
     Reject, Investigate, Resolve, Signal, Link, Draft, Announce, Die, WorkOn, Start, RunStep,
     Declared, HearResolution, SetMonitoring, Watched, SetResolved, LookForPostmortem,
     InsertPostmortem, SelectLinked, Finalized, StartChild, CloseOne, Repeat, Fail, Remind, Check,
     Wake, GiveUp, vars

LEMMA FinalStep == ASSUME MajorInv, [Next]_vars PROVE FinalInv'
<1> USE DEF tables, workflows, history, bounds
<1>1. TypeOK /\ FinalInv
  BY DEF MajorInv
<1> DEFINE Closed(set) == \A i \in owed' \ (spared' \cup set) : incident'[i] = "over"
<1>2. ASSUME run'.pc = run.pc, run'.todo = run.todo, owed' = owed
      PROVE  FinalInv'
  <2>1. owed \subseteq Incidents
    BY <1>1 DEF TypeOK
  <2>2. run.pc = "close" => Closed(run.todo)
    BY <1>1, <1>2, <2>1, StaysOver, SparedGrows DEF FinalInv
  <2>3. run.pc \in {"child", "done"} => Closed({})
    BY <1>1, <1>2, <2>1, StaysOver, SparedGrows DEF FinalInv
  <2> QED BY <1>1, <1>2, <2>2, <2>3, StaysResolved, StaysWritten DEF FinalInv
<1>3. CASE UNCHANGED <<run, owed>>
  BY <1>2, <1>3
<1>4. ASSUME run'.pc \in {"none", "failed", "declare", "wait", "monitor", "watch", "resolve"}
      PROVE  FinalInv'
  BY <1>4 DEF FinalInv
<1>5. run.pc \in RunPCs /\ run \in [pc : RunPCs, phase : {"active", "monitoring"}, todo : SUBSET linked]
  BY <1>1 DEF TypeOK, RunPCs
<1>6. ASSUME NEW h \in Handlers, Signal(h) PROVE FinalInv'
  <2>1. run'.pc = run.pc /\ run'.todo = run.todo /\ owed' = owed
    BY <1>5, <1>6 DEF Signal
  <2> QED BY <1>2, <2>1
<1>7. CASE Start
  <2>1. CASE run' = [NoRun EXCEPT !.pc = "declare"]
    BY <1>4, <2>1 DEF NoRun
  <2> QED BY <1>3, <1>7, <2>1 DEF Start
<1>8. CASE Declared \/ HearResolution \/ SetMonitoring \/ Watched \/ Repeat \/ Fail
  <2>1. run'.pc \in {"wait", "monitor", "watch", "resolve", "failed"}
    BY <1>5, <1>8 DEF Declared, HearResolution, SetMonitoring, Watched, Repeat, Fail, RunGoto
  <2> QED BY <1>4, <2>1
<1>9. CASE SetResolved
  <2>1. run'.pc = "look" /\ status' = "resolved"
    BY <1>5, <1>9 DEF SetResolved, RunGoto
  <2> QED BY <2>1 DEF FinalInv
<1>10. CASE LookForPostmortem
  <2>1. /\ status' = "resolved" /\ postmortem' = postmortem
        /\ run'.pc = IF postmortem = "none" THEN "insert" ELSE "select"
    BY <1>1, <1>5, <1>10 DEF LookForPostmortem, RunGoto, RunAt, FinalInv
  <2> QED BY <2>1 DEF FinalInv
<1>11. CASE InsertPostmortem
  <2>1. \/ run'.pc = "select" /\ status' = "resolved" /\ postmortem' # "none"
        \/ run'.pc = "resolve"
    BY <1>1, <1>5, <1>11 DEF InsertPostmortem, AfterDuplicate, RunGoto, RunAt, FinalInv
  <2> QED BY <2>1 DEF FinalInv
<1>12. CASE SelectLinked
  <2>1. /\ run'.pc = "close" /\ run'.todo = linked
        /\ status' = "resolved" /\ postmortem' # "none" /\ owed' \subseteq linked
    BY <1>1, <1>5, <1>12 DEF SelectLinked, LinkedIncidents, RunAt, FinalInv, TypeOK
  <2> QED BY <2>1 DEF FinalInv
<1>13. ASSUME NEW i \in Incidents, CloseOne(i) PROVE FinalInv'
  <2>1. /\ run'.pc = "close" /\ run'.todo = run.todo \ {i} /\ owed' = owed
        /\ status' = "resolved" /\ postmortem' # "none"
    BY <1>1, <1>5, <1>13 DEF CloseOne, RunAt, FinalInv
  <2>2. incident'[i] = "over" \/ i \in spared'
    BY <1>1, <1>13 DEF CloseOne, TypeOK
  <2>3. \A k \in owed \ (spared \cup run.todo) : incident[k] = "over"
    BY <1>1, <1>13 DEF CloseOne, RunAt, FinalInv
  <2>4. owed \subseteq Incidents
    BY <1>1 DEF TypeOK
  <2>5. Closed(run.todo \ {i})
    BY <1>1, <2>1, <2>2, <2>3, <2>4, StaysOver, SparedGrows
  <2> QED BY <2>1, <2>5 DEF FinalInv
<1>14. CASE Finalized
  <2>1. /\ run'.pc = "child" /\ status' = "resolved" /\ postmortem' # "none"
        /\ UNCHANGED <<owed, spared, incident>>
    BY <1>1, <1>5, <1>14 DEF Finalized, RunGoto, RunAt, FinalInv
  <2>2. \A k \in owed \ spared : incident[k] = "over"
    BY <1>1, <1>14 DEF Finalized, RunAt, FinalInv
  <2> QED BY <2>1, <2>2 DEF FinalInv
<1>15. CASE StartChild
  <2>1. /\ run'.pc \in {"failed", "done"} /\ status' = "resolved" /\ postmortem' # "none"
        /\ UNCHANGED <<owed, spared, incident>>
    BY <1>1, <1>5, <1>15 DEF StartChild, RunGoto, RunAt, FinalInv
  <2>2. \A k \in owed \ spared : incident[k] = "over"
    BY <1>1, <1>15 DEF StartChild, RunAt, FinalInv
  <2> QED BY <2>1, <2>2 DEF FinalInv
<1> QED
  BY <1>3, <1>6, <1>7, <1>8, <1>9, <1>10, <1>11, <1>12, <1>13, <1>14, <1>15 DEF Next, Request,
     Promote, Declare, Read, Edit, Publish, LinkRead, Handle, Accept, Enqueue, Reject, Investigate,
     Resolve, Link, Draft, Announce, Die, WorkOn, RunStep, Remind, Check, Wake, GiveUp, vars

-----------------------------------------------------------------------------
(***************************************************************************)
(* The theorems.                                                           *)
(***************************************************************************)

\* The inductive invariant: nothing happens before the promotion, no workflow is asked
\* for before the acceptance, and each stage of the finalization keeps what the stages
\* before have done.
THEOREM MajorInvariant == Spec => []MajorInv
<1>1. Init => MajorInv
  BY InitInv
<1>2. MajorInv /\ [Next]_vars => MajorInv'
  BY TypeStep, AbsentStep, UnacceptedStep, FinalStep DEF MajorInv
<1> QED BY <1>1, <1>2, PTL DEF Spec

\* Every reachable state is well typed; in particular the list of incidents to close
\* holds only linked ones.
THEOREM MajorTypeCorrect == Spec => []TypeOK
<1>1. MajorInv => TypeOK
  BY DEF MajorInv
<1> QED BY <1>1, MajorInvariant, PTL

\* However many managers accept and reject at once, a rejected promotion stays cancelled
\* and gets no workflow.
THEOREM RejectionsStand == Spec => []RejectedStaysDown
<1>1. MajorInv => RejectedStaysDown
  BY DEF MajorInv, UnacceptedInv, RejectedStaysDown
<1> QED BY <1>1, MajorInvariant, PTL

\* However many attempts the finalization takes, in the end the major incident, its
\* postmortem and the incidents linked by then are in the state it promises.
THEOREM FinalizedTogether == Spec => []ClosedTogether
<1>1. MajorInv => ClosedTogether
  BY DEF MajorInv, FinalInv, ClosedTogether
<1> QED BY <1>1, MajorInvariant, PTL

\* No handler, and no workflow that is started again, takes a major incident out of
\* resolved.
THEOREM ResolutionIsFinal == Spec => NoRelapse
<1>1. TypeOK /\ [Next]_vars => [status = "resolved" => status' = "resolved"]_vars
  BY StaysResolved
<1> QED BY <1>1, MajorTypeCorrect, PTL DEF Spec, NoRelapse
=============================================================================
