---------------------------- MODULE MajorIncident ----------------------------
(***************************************************************************)
(* One major incident, from its promotion to its postmortem.               *)
(*                                                                         *)
(* Managers accept, reject, link and resolve over HTTP; the statements of  *)
(* a handler commit one by one and are steps of their own.  A durable      *)
(* workflow, started through the workflow start queue, hears of the        *)
(* resolution, watches for five minutes, closes the linked incidents and   *)
(* leaves a workflow behind that reminds of the postmortem.                *)
(*                                                                         *)
(* Left out: events, notifications and nudges, roles, action items, and    *)
(* texts.  What else happens to the linked incidents is open.              *)
(***************************************************************************)
EXTENDS Integers

CONSTANTS
  Incidents,    \* incidents that may be linked
  Primary,      \* the one it was promoted from
  Handlers,     \* requests in progress at the same time
  MaxRequests,  \* bound: requests sent
  MaxFaults     \* bound: handlers that die, signals and attempts lost

ASSUME MajorAssumption ==
  /\ Primary \in Incidents
  /\ MaxRequests \in Nat /\ MaxFaults \in Nat

\* major_incident_status_enum; an absent one has not been created.
Statuses == {"absent", "pending_acceptance", "declared", "investigating", "monitoring",
             "resolved", "cancelled"}

VARIABLES
  status,      \* major_incidents.status
  linked,      \* major_incident_related_incidents
  incident,    \* whether each incident is open
  postmortem,  \* postmortems.status
  job,         \* the row in workflow_start_jobs
  run,         \* majorIncidentWorkflow
  reminder,    \* postmortemWorkflow
  desk,        \* what each handler is doing
  requests,    \* requests sent
  faults,      \* handlers that died, signals and attempts lost
  rejected,    \* history: the promotion was rejected
  owed,        \* history: incidents linked when it was last set to resolved
  spared       \* history: incidents people opened again, or that were not updated

tables    == <<status, linked, incident, postmortem>>
workflows == <<job, run, reminder>>
bounds    == <<requests, faults>>
history   == <<rejected, owed, spared>>
vars      == <<tables, workflows, desk, bounds, history>>

Ended == {"none", "done", "failed"}

\* Where the workflow waits for an activity; majorIncidentFinalizeResolved goes
\* through "resolve", "look", "insert", "select" and "close".
Finalizing == {"resolve", "look", "insert", "select", "close"}
Calls == {"declare", "monitor", "child"} \cup Finalizing

DeskPCs == {"idle", "accept", "enqueue", "reject", "investigate", "resolve", "signal",
            "link", "draft", "announce"}

TypeOK ==
  /\ status \in Statuses
  /\ linked \subseteq Incidents
  /\ incident \in [Incidents -> {"open", "over"}]
  /\ postmortem \in {"none", "draft", "published"}
  /\ job \in {"absent", "pending", "completed"}
  /\ run \in [pc : Ended \cup Calls \cup {"wait", "watch"},
              phase : {"active", "monitoring"}, todo : SUBSET linked]
  /\ reminder \in [pc : {"none", "check", "wait", "done", "failed"}, heard : BOOLEAN]
  /\ desk \in [Handlers -> [pc : DeskPCs, inc : Incidents]]
  /\ requests \in Nat /\ faults \in Nat
  /\ rejected \in BOOLEAN
  /\ owed \subseteq linked
  /\ spared \subseteq Incidents

NoRun == [pc |-> "none", phase |-> "active", todo |-> {}]
Idle  == [pc |-> "idle", inc |-> Primary]

Init ==
  /\ status = "absent"
  /\ linked = {}
  /\ incident = [i \in Incidents |-> "open"]
  /\ postmortem = "none"
  /\ job = "absent"
  /\ run = NoRun
  /\ reminder = [pc |-> "none", heard |-> FALSE]
  /\ desk = [h \in Handlers |-> Idle]
  /\ requests = 0 /\ faults = 0
  /\ rejected = FALSE
  /\ owed = {}
  /\ spared = {}

Fault == faults < MaxFaults /\ faults' = faults + 1

-----------------------------------------------------------------------------
(***************************************************************************)
(* The requests of managers.                                               *)
(***************************************************************************)

At(h, pc) == desk[h].pc = pc
Goto(h, pc) == desk' = [desk EXCEPT ![h].pc = pc]
Finish(h) == desk' = [desk EXCEPT ![h] = Idle]

\* A request arrives, and its handler has come as far as pc.
Begin(h, pc) ==
  /\ requests < MaxRequests
  /\ requests' = requests + 1
  /\ At(h, "idle")
  /\ Goto(h, pc)

\* POST / : from an incident it awaits acceptance, by itself it is declared.
Promote(h) ==
  /\ status = "absent"
  /\ Begin(h, "idle")
  /\ status' = "pending_acceptance"
  /\ linked' = {Primary}
  /\ UNCHANGED <<incident, postmortem, workflows, faults, history>>

Declare(h) ==
  /\ status = "absent"
  /\ Begin(h, "enqueue")
  /\ status' = "declared"
  /\ UNCHANGED <<linked, incident, postmortem, workflows, faults, history>>

\* The first SELECT of a handler, which refuses what it must not do.
Read(h) ==
  /\ \/ status = "pending_acceptance" /\ (Begin(h, "accept") \/ Begin(h, "reject"))
     \/ status = "declared" /\ Begin(h, "investigate")
     \/ /\ status \notin {"absent", "resolved", "cancelled", "pending_acceptance"}
        /\ Begin(h, "resolve")
     \/ status # "absent" /\ postmortem = "none" /\ Begin(h, "draft")
  /\ UNCHANGED <<tables, workflows, faults, history>>

\* Mutant: UPDATE ... SET status, whatever it has become since.
MayLeaveAnyway(from) == TRUE

\* UPDATE ... WHERE status
MayLeave(from) == status \in from

Proposed == {"pending_acceptance"}

\* POST /:id/accept-major; when the status has changed, 409.
Accept(h) ==
  /\ At(h, "accept")
  /\ \/ MayLeave(Proposed) /\ status' = "declared" /\ Goto(h, "enqueue")
     \/ ~MayLeave(Proposed) /\ Finish(h) /\ UNCHANGED status
  /\ UNCHANGED <<linked, incident, postmortem, workflows, bounds, history>>

\* A completed job is left as it is.
Enqueue(h) ==
  /\ At(h, "enqueue")
  /\ job' = IF job = "completed" THEN job ELSE "pending"
  /\ Finish(h)
  /\ UNCHANGED <<tables, run, reminder, bounds, history>>

\* POST /:id/reject-promotion
Reject(h) ==
  /\ At(h, "reject")
  /\ \/ MayLeave(Proposed) /\ status' = "cancelled" /\ rejected' = TRUE
     \/ ~MayLeave(Proposed) /\ UNCHANGED <<status, rejected>>
  /\ Finish(h)
  /\ UNCHANGED <<linked, incident, postmortem, workflows, bounds, owed, spared>>

\* POST /:id/investigate
Investigate(h) ==
  /\ At(h, "investigate")
  /\ status' = IF MayLeave({"declared"}) THEN "investigating" ELSE status
  /\ Finish(h)
  /\ UNCHANGED <<linked, incident, postmortem, workflows, bounds, history>>

\* POST /:id/resolve, which may be repeated while it is being watched.
Resolvable == Statuses \ {"absent", "resolved", "cancelled", "pending_acceptance"}

Resolve(h) ==
  /\ At(h, "resolve")
  /\ \/ MayLeave(Resolvable) /\ status' = "monitoring" /\ Goto(h, "signal")
     \/ ~MayLeave(Resolvable) /\ Finish(h) /\ UNCHANGED status
  /\ UNCHANGED <<linked, incident, postmortem, workflows, bounds, history>>

\* declareResolved: without a running workflow nothing happens, and an error is
\* only logged.
Signal(h) ==
  /\ At(h, "signal")
  /\ \/ /\ run' = IF run.pc \in Ended THEN run ELSE [run EXCEPT !.phase = "monitoring"]
        /\ UNCHANGED faults
     \/ Fault /\ UNCHANGED run
  /\ Finish(h)
  /\ UNCHANGED <<tables, job, reminder, requests, history>>

\* POST /:id/related-incidents, at any time once it is accepted.
LinkRead(h, i) ==
  /\ status \notin {"absent", "pending_acceptance"}
  /\ i \notin linked
  /\ requests < MaxRequests
  /\ requests' = requests + 1
  /\ At(h, "idle")
  /\ desk' = [desk EXCEPT ![h] = [pc |-> "link", inc |-> i]]
  /\ UNCHANGED <<tables, workflows, faults, history>>

Link(h) ==
  /\ At(h, "link")
  /\ linked' = linked \cup {desk[h].inc}
  /\ Finish(h)
  /\ UNCHANGED <<status, incident, postmortem, workflows, bounds, history>>

\* POST /:id/postmortem: postmortems.major_incident_id is unique.
Draft(h) ==
  /\ At(h, "draft")
  /\ \/ postmortem # "none" /\ UNCHANGED postmortem
     \/ postmortem = "none" /\ postmortem' \in {"draft", "published"}
  /\ Finish(h)
  /\ UNCHANGED <<status, linked, incident, workflows, bounds, history>>

\* PATCH /:id/postmortem gives any status and tells nobody.
Edit(h) ==
  /\ postmortem # "none"
  /\ Begin(h, "idle")
  /\ postmortem' = IF postmortem = "draft" THEN "published" ELSE "draft"
  /\ UNCHANGED <<status, linked, incident, workflows, faults, history>>

\* POST /:id/postmortem/publish
Publish(h) ==
  /\ postmortem # "none"
  /\ Begin(h, "announce")
  /\ postmortem' = "published"
  /\ UNCHANGED <<status, linked, incident, workflows, faults, history>>

\* postmortemPublished
Announce(h) ==
  /\ At(h, "announce")
  /\ \/ reminder' = [reminder EXCEPT !.heard = @ \/ reminder.pc \in {"check", "wait"}]
        /\ UNCHANGED faults
     \/ Fault /\ UNCHANGED reminder
  /\ Finish(h)
  /\ UNCHANGED <<tables, job, run, requests, history>>

\* The engine goes down, or a statement fails.
Die(h) ==
  /\ ~At(h, "idle")
  /\ Fault
  /\ Finish(h)
  /\ UNCHANGED <<tables, workflows, requests, history>>

Handle(h) ==
  \/ Accept(h) \/ Enqueue(h) \/ Reject(h) \/ Investigate(h) \/ Resolve(h) \/ Signal(h)
  \/ Link(h) \/ Draft(h) \/ Announce(h)

Request(h) ==
  \/ Promote(h) \/ Declare(h) \/ Read(h) \/ Edit(h) \/ Publish(h)
  \/ \E i \in Incidents : LinkRead(h, i)

\* Someone resolves an incident, or opens it again.
WorkOn(i) ==
  /\ requests < MaxRequests
  /\ requests' = requests + 1
  /\ incident' = [incident EXCEPT ![i] = IF @ = "open" THEN "over" ELSE "open"]
  /\ spared' = IF incident[i] = "over" THEN spared \cup {i} ELSE spared
  /\ UNCHANGED <<status, linked, postmortem, workflows, desk, faults, rejected, owed>>

-----------------------------------------------------------------------------
(***************************************************************************)
(* majorIncidentWorkflow.                                                  *)
(***************************************************************************)

RunAt(pc) == run.pc = pc
RunGoto(pc) == run' = [run EXCEPT !.pc = pc]

\* A dispatcher starts the workflow, unless it is running; the reply may be
\* lost, and the job is tried again.
Start ==
  /\ job = "pending"
  /\ \/ job' = "completed" /\ UNCHANGED faults
     \/ Fault /\ UNCHANGED job
  /\ run' = IF run.pc \in Ended THEN [NoRun EXCEPT !.pc = "declare"] ELSE run
  /\ UNCHANGED <<tables, reminder, desk, requests, history>>

\* majorIncidentOnDeclared; a signal may have come before.
Declared ==
  /\ RunAt("declare")
  /\ RunGoto("wait")
  /\ UNCHANGED <<tables, job, reminder, desk, bounds, history>>

\* condition(() => phase !== 'active')
HearResolution ==
  /\ RunAt("wait")
  /\ run.phase # "active"
  /\ RunGoto("monitor")
  /\ UNCHANGED <<tables, job, reminder, desk, bounds, history>>

\* Mutant: watches an incident that is resolved.
MonitoredAgain(s) == "monitoring"

MonitoredUnlessOver(s) == IF s \in {"resolved", "cancelled"} THEN s ELSE "monitoring"

\* majorIncidentSetMonitoring
SetMonitoring ==
  /\ RunAt("monitor")
  /\ status' = MonitoredUnlessOver(status)
  /\ RunGoto("watch")
  /\ UNCHANGED <<linked, incident, postmortem, job, reminder, desk, bounds, history>>

\* sleep('5 minutes')
Watched ==
  /\ RunAt("watch")
  /\ RunGoto("resolve")
  /\ UNCHANGED <<tables, job, reminder, desk, bounds, history>>

\* majorIncidentFinalizeResolved
SetResolved ==
  /\ RunAt("resolve")
  /\ status' = "resolved"
  /\ owed' = linked
  /\ RunGoto("look")
  /\ UNCHANGED <<linked, incident, postmortem, job, reminder, desk, bounds, rejected, spared>>

LookForPostmortem ==
  /\ RunAt("look")
  /\ RunGoto(IF postmortem = "none" THEN "insert" ELSE "select")
  /\ UNCHANGED <<tables, job, reminder, desk, bounds, history>>

\* Mutant: an attempt that finds the postmortem inserted takes the work for done.
AfterDuplicateGivenUp == "child"

\* The INSERT fails, and the activity is run again.
AfterDuplicate == "resolve"

InsertPostmortem ==
  /\ RunAt("insert")
  /\ IF postmortem = "none"
     THEN postmortem' = "draft" /\ RunGoto("select")
     ELSE RunGoto(AfterDuplicate) /\ UNCHANGED postmortem
  /\ UNCHANGED <<status, linked, incident, job, reminder, desk, bounds, history>>

\* Mutant: WHERE major_incident_id is forgotten.
EveryIncident == Incidents

\* A primary incident counts as linked from the start.
LinkedIncidents == linked

SelectLinked ==
  /\ RunAt("select")
  /\ run' = [run EXCEPT !.pc = "close", !.todo = LinkedIncidents]
  /\ UNCHANGED <<tables, job, reminder, desk, bounds, history>>

\* Those that are over already stay as they are; an error is logged and passed
\* over.
CloseOne(i) ==
  /\ RunAt("close")
  /\ i \in run.todo
  /\ run' = [run EXCEPT !.todo = @ \ {i}]
  /\ \/ incident' = [incident EXCEPT ![i] = "over"] /\ UNCHANGED <<faults, spared>>
     \/ Fault /\ spared' = spared \cup {i} /\ UNCHANGED incident
  /\ UNCHANGED <<status, linked, postmortem, job, reminder, desk, requests, rejected, owed>>

Finalized ==
  /\ RunAt("close")
  /\ run.todo = {}
  /\ RunGoto("child")
  /\ UNCHANGED <<tables, job, reminder, desk, bounds, history>>

\* startChild fails when a postmortem workflow of that name is running.
StartChild ==
  /\ RunAt("child")
  /\ IF reminder.pc \in {"check", "wait"}
     THEN RunGoto("failed") /\ UNCHANGED reminder
     ELSE RunGoto("done") /\ reminder' = [pc |-> "check", heard |-> FALSE]
  /\ UNCHANGED <<tables, job, desk, bounds, history>>

\* An attempt to finalize is lost halfway, and the activity run again.
Repeat ==
  /\ run.pc \in Finalizing
  /\ Fault
  /\ RunGoto("resolve")
  /\ UNCHANGED <<tables, job, reminder, desk, requests, history>>

\* The last attempt fails, or the thirty days are over.
Fail ==
  /\ run.pc \notin Ended
  /\ Fault
  /\ RunGoto("failed")
  /\ UNCHANGED <<tables, job, reminder, desk, requests, history>>

RunStep ==
  \/ Declared \/ HearResolution \/ SetMonitoring \/ Watched \/ SetResolved
  \/ LookForPostmortem \/ InsertPostmortem \/ SelectLinked \/ Finalized \/ StartChild
  \/ \E i \in Incidents : CloseOne(i)

-----------------------------------------------------------------------------
(***************************************************************************)
(* postmortemWorkflow.                                                     *)
(***************************************************************************)

\* Mutant: only the signal ends the reminders.
IsSettledBySignal == reminder.heard

IsSettled == reminder.heard \/ postmortem = "published"

\* postmortemGetStatus, after every wait and before the next.
Check ==
  /\ reminder.pc = "check"
  /\ reminder' = [reminder EXCEPT !.pc = IF IsSettled THEN "done" ELSE "wait"]
  /\ UNCHANGED <<tables, job, run, desk, bounds, history>>

\* condition(() => published, '24 hours')
Wake ==
  /\ reminder.pc = "wait"
  /\ reminder' = [reminder EXCEPT !.pc = IF reminder.heard THEN "done" ELSE "check"]
  /\ UNCHANGED <<tables, job, run, desk, bounds, history>>

GiveUp ==
  /\ reminder.pc = "check"
  /\ Fault
  /\ reminder' = [reminder EXCEPT !.pc = "failed"]
  /\ UNCHANGED <<tables, job, run, desk, requests, history>>

Remind == Check \/ Wake

Next ==
  \/ \E h \in Handlers : Request(h) \/ Handle(h) \/ Die(h)
  \/ \E i \in Incidents : WorkOn(i)
  \/ Start \/ RunStep \/ Repeat \/ Fail
  \/ Remind \/ GiveUp

Spec == Init /\ [][Next]_vars

\* Temporal keeps workflows running and their timers going off.
Fairness == WF_vars(RunStep) /\ WF_vars(Remind)

FairSpec == Spec /\ Fairness

-----------------------------------------------------------------------------
(***************************************************************************)
(* What a major incident promises.                                         *)
(***************************************************************************)

\* A promotion that was rejected stays cancelled and never gets a workflow, also
\* when another manager was about to accept it.
RejectedStaysDown ==
  rejected => status = "cancelled" /\ job = "absent" /\ run.pc = "none"

\* "Incident resolved automatically when the linked major incident was closed": once
\* the workflow has finalized the major incident, however many attempts it took and
\* whoever wrote the postmortem in between, it is resolved, has a postmortem, and
\* every incident that was linked by then is over, unless people opened it
\* again or its update failed.
ClosedTogether ==
  run.pc \in {"child", "done"} =>
    /\ status = "resolved"
    /\ postmortem # "none"
    /\ \A i \in owed \ spared : incident[i] = "over"

\* A resolved major incident stays resolved, whoever was about to resolve or to
\* investigate it and if its workflow is started again.
NoRelapse ==
  [][status = "resolved" => status' = "resolved"]_vars

\* postmortem.ts:18: "Reminds until postmortem is published".  When it stays
\* published the reminders end, even if nobody told the workflow.
RemindersEnd ==
  <>[](postmortem = "published") => <>[](reminder.pc \notin {"check", "wait"})
=============================================================================
