-------------------------- MODULE KnowledgeApproval --------------------------
(***************************************************************************)
(* The versions of one knowledge article: who may change their status.     *)
(*                                                                         *)
(* People patch, submit and decide over HTTP; the statements of a handler  *)
(* commit one by one and are steps of their own.  A submission asks the    *)
(* workflow start queue for a review, which a durable workflow carries     *)
(* through: it waits for the decision of each step, in order, and then     *)
(* publishes the version and retires the one it replaces.                  *)
(*                                                                         *)
(* Left out: contents, permissions, categories, and an activity that is    *)
(* still running when the time limit ends its workflow.                    *)
(***************************************************************************)
EXTENDS Integers, FiniteSets

CONSTANTS
  LastVersion,  \* bound: versions of the article
  Steps,        \* the steps of the approval workflow are 1..Steps
  Handlers,     \* requests in progress at the same time
  StepWait,     \* days the workflow waits for the decision of a step
  RunLimit,     \* workflowExecutionTimeout, in days
  MaxRequests,  \* bound: requests sent
  MaxFaults     \* bound: handlers that die, signals and attempts lost

\* Both waits are thirty days, and a step's begins after the workflow's.
ASSUME KnowledgeAssumption ==
  /\ LastVersion \in Nat \ {0}
  /\ Steps \in Nat \ {0}
  /\ RunLimit \in Nat \ {0} /\ StepWait \in Nat
  /\ RunLimit <= StepWait
  /\ MaxRequests \in Nat /\ MaxFaults \in Nat

Versions   == 1..LastVersion
StepOrders == 1..Steps
Verdicts   == {"approved", "rejected"}

\* kb_status; an absent version has not been created.
Statuses == {"absent", "draft", "review", "published", "retired"}

VARIABLES
  status,      \* knowledge_articles.status
  approvals,   \* kb_article_approvals.status, by step_order
  round,       \* how often a version's approvals were deleted: tells rows apart
  job,         \* the version's row in workflow_start_jobs
  run,         \* its review workflow
  age,         \* days since that was started
  desk,        \* what each handler is doing
  requests,    \* requests sent
  faults,      \* handlers that died, signals and attempts lost
  given,       \* history: the decisions reviewers took
  interrupted  \* history: versions whose publication was cut in the middle

tables == <<status, approvals, round>>
reviews == <<job, run, age>>
bounds == <<requests, faults>>
vars   == <<tables, reviews, desk, bounds, given, interrupted>>

Ended == {"none", "published", "rejected", "expired", "failed"}

\* Where the workflow waits for setKnowledgeArticleStatus; "retire" is the
\* middle of a publication, between its two UPDATEs.
Calls == {"review", "draft", "publish", "retire"}

Runs == [pc : Ended \cup Calls \cup {"wait"}, step : StepOrders, since : Nat,
         heard : [StepOrders -> Verdicts \cup {"none"}]]

DeskPCs == {"idle", "patch", "publish", "retire", "withdraw", "review", "ask",
            "enqueue", "decide", "signal", "version"}

TypeOK ==
  /\ status \in [Versions -> Statuses]
  /\ approvals \in [Versions -> [StepOrders -> Verdicts \cup {"none", "pending"}]]
  /\ round \in [Versions -> Nat]
  /\ job \in [Versions -> {"absent", "pending", "completed"}]
  /\ run \in [Versions -> Runs]
  /\ age \in [Versions -> 0..RunLimit]
  /\ desk \in [Handlers -> [pc : DeskPCs, art : Versions, to : Statuses \cup Verdicts,
                            step : StepOrders, round : Nat]]
  /\ requests \in Nat
  /\ faults \in Nat
  /\ given \in [Versions -> SUBSET (StepOrders \X Verdicts)]
  /\ interrupted \subseteq Versions

Exists(a) == status[a] # "absent"

NoDecisions == [s \in StepOrders |-> "none"]
NoRun  == [pc |-> "none", step |-> 1, since |-> 0, heard |-> NoDecisions]
NewRun == [NoRun EXCEPT !.pc = "review"]
Idle   == [pc |-> "idle", art |-> 1, to |-> "draft", step |-> 1, round |-> 0]

\* The first version is a draft, or was published without a review.
Init ==
  /\ status \in {[a \in Versions |-> IF a = 1 THEN s ELSE "absent"] :
                   s \in {"draft", "published"}}
  /\ approvals = [a \in Versions |-> NoDecisions]
  /\ round = [a \in Versions |-> 0]
  /\ job = [a \in Versions |-> "absent"]
  /\ run = [a \in Versions |-> NoRun]
  /\ age = [a \in Versions |-> 0]
  /\ desk = [h \in Handlers |-> Idle]
  /\ requests = 0
  /\ faults = 0
  /\ given = [a \in Versions |-> {}]
  /\ interrupted = {}

Fault == faults < MaxFaults /\ faults' = faults + 1

SetStatus(a, to) == status' = [status EXCEPT ![a] = to]

-----------------------------------------------------------------------------
(***************************************************************************)
(* The requests of people.                                                 *)
(***************************************************************************)

\* A request for version a arrives; what its handler has read is in d.
Begin(h, d) ==
  /\ requests < MaxRequests
  /\ requests' = requests + 1
  /\ desk[h].pc = "idle"
  /\ desk' = [desk EXCEPT ![h] = d]

At(h, pc) == desk[h].pc = pc
Goto(h, pc) == desk' = [desk EXCEPT ![h].pc = pc]
Finish(h) == desk' = [desk EXCEPT ![h] = Idle]

\* PATCH /articles/:id reads the version: a published one can only be retired.
PatchRead(h, a, to) ==
  /\ Exists(a)
  /\ status[a] = "published" => to = "retired"
  /\ Begin(h, [Idle EXCEPT !.pc = "patch", !.art = a, !.to = to])
  /\ UNCHANGED <<tables, reviews, faults, given, interrupted>>

PatchWrite(h) ==
  /\ At(h, "patch")
  /\ SetStatus(desk[h].art, desk[h].to)
  /\ IF desk[h].to = "published" THEN Goto(h, "publish") ELSE Finish(h)
  /\ UNCHANGED <<approvals, round, reviews, bounds, given, interrupted>>

\* publishArticleAndRetirePrevious: two UPDATEs.
Publish(h) ==
  /\ At(h, "publish")
  /\ SetStatus(desk[h].art, "published")
  /\ Goto(h, "retire")
  /\ UNCHANGED <<approvals, round, reviews, bounds, given, interrupted>>

\* Mutant: retires the previous version only.
RetirePrevious(st, a) ==
  [v \in Versions |-> IF v = a - 1 /\ st[v] = "published" THEN "retired" ELSE st[v]]

RetireOthers(st, a) ==
  [v \in Versions |-> IF v # a /\ st[v] = "published" THEN "retired" ELSE st[v]]

Retire(h) ==
  /\ At(h, "retire")
  /\ status' = RetireOthers(status, desk[h].art)
  /\ interrupted' = {}
  /\ Finish(h)
  /\ UNCHANGED <<approvals, round, reviews, bounds, given>>

\* POST /articles/:id/submit; whether steps are configured is for the
\* administrator to say.
SubmitRead(h, a, to) ==
  /\ Exists(a) /\ status[a] # "published"
  /\ Begin(h, [Idle EXCEPT !.pc = "withdraw", !.art = a, !.to = to])
  /\ UNCHANGED <<tables, reviews, faults, given, interrupted>>

\* DELETE FROM kb_article_approvals
Withdraw(h) ==
  /\ At(h, "withdraw")
  /\ approvals' = [approvals EXCEPT ![desk[h].art] = NoDecisions]
  /\ round' = [round EXCEPT ![desk[h].art] = @ + 1]
  /\ Goto(h, IF desk[h].to = "published" THEN "publish" ELSE "review")
  /\ UNCHANGED <<status, reviews, bounds, given, interrupted>>

SetReview(h) ==
  /\ At(h, "review")
  /\ SetStatus(desk[h].art, "review")
  /\ Goto(h, "ask")
  /\ UNCHANGED <<approvals, round, reviews, bounds, given, interrupted>>

\* INSERT INTO kb_article_approvals: a second row for a step is refused, and
\* the submission fails.
Ask(h) ==
  LET a == desk[h].art  s == desk[h].step IN
  /\ At(h, "ask")
  /\ \/ /\ approvals[a][s] = "none"
        /\ approvals' = [approvals EXCEPT ![a][s] = "pending"]
        /\ IF s < Steps THEN desk' = [desk EXCEPT ![h].step = s + 1]
                        ELSE Goto(h, "enqueue")
     \/ /\ approvals[a][s] # "none"
        /\ Finish(h)
        /\ UNCHANGED approvals
  /\ UNCHANGED <<status, round, reviews, bounds, given, interrupted>>

\* A completed job is left as it is.
Enqueue(h) ==
  /\ At(h, "enqueue")
  /\ job' = [job EXCEPT ![desk[h].art] = IF @ = "completed" THEN @ ELSE "pending"]
  /\ Finish(h)
  /\ UNCHANGED <<tables, run, age, bounds, given, interrupted>>

\* POST /articles/:id/approvals/:approvalId/decision
DecideRead(h, a, s, verdict) ==
  /\ approvals[a][s] = "pending"
  /\ Begin(h, [pc |-> "decide", art |-> a, to |-> verdict, step |-> s,
               round |-> round[a]])
  /\ UNCHANGED <<tables, reviews, faults, given, interrupted>>

\* The row that was read may have been deleted since.
DecideWrite(h) ==
  LET d == desk[h] IN
  /\ At(h, "decide")
  /\ approvals' = IF d.round = round[d.art]
                  THEN [approvals EXCEPT ![d.art][d.step] = d.to] ELSE approvals
  /\ given' = [given EXCEPT ![d.art] = @ \cup {<<d.step, d.to>>}]
  /\ Goto(h, "signal")
  /\ UNCHANGED <<status, round, reviews, bounds, interrupted>>

\* Without a running workflow nothing happens, and an error is only logged.
DecideSignal(h) ==
  LET d == desk[h] IN
  /\ At(h, "signal")
  /\ \/ /\ run' = IF run[d.art].pc \in Ended THEN run
                  ELSE [run EXCEPT ![d.art].heard[d.step] = d.to]
        /\ UNCHANGED faults
     \/ Fault /\ UNCHANGED run
  /\ Finish(h)
  /\ UNCHANGED <<tables, job, age, requests, given, interrupted>>

\* POST /articles/:id/new-version reads the version and the highest number.
VersionRead(h, a) ==
  LET next == Cardinality({v \in Versions : Exists(v)}) + 1 IN
  /\ status[a] = "published"
  /\ next \in Versions
  /\ Begin(h, [Idle EXCEPT !.pc = "version", !.art = next])
  /\ UNCHANGED <<tables, reviews, faults, given, interrupted>>

\* knowledge_articles.number is unique.
VersionInsert(h) ==
  /\ At(h, "version")
  /\ status' = [status EXCEPT ![desk[h].art] = IF @ = "absent" THEN "draft" ELSE @]
  /\ Finish(h)
  /\ UNCHANGED <<approvals, round, reviews, bounds, given, interrupted>>

\* The engine goes down, or a statement fails.
Die(h) ==
  /\ desk[h].pc # "idle"
  /\ Fault
  /\ interrupted' = IF At(h, "publish") \/ At(h, "retire")
                    THEN interrupted \cup {desk[h].art} ELSE interrupted
  /\ Finish(h)
  /\ UNCHANGED <<tables, reviews, requests, given>>

Handle(h) ==
  \/ PatchWrite(h) \/ Publish(h) \/ Retire(h)
  \/ Withdraw(h) \/ SetReview(h) \/ Ask(h) \/ Enqueue(h)
  \/ DecideWrite(h) \/ DecideSignal(h) \/ VersionInsert(h)

Request(h, a) ==
  \/ \E to \in Statuses \ {"absent"} : PatchRead(h, a, to)
  \/ \E to \in {"review", "published"} : SubmitRead(h, a, to)
  \/ \E s \in StepOrders, verdict \in Verdicts : DecideRead(h, a, s, verdict)
  \/ VersionRead(h, a)

-----------------------------------------------------------------------------
(***************************************************************************)
(* The review workflow of a version.                                       *)
(***************************************************************************)

RunAt(a, pc) == run[a].pc = pc
RunGoto(a, pc) == run' = [run EXCEPT ![a].pc = pc]

\* A dispatcher starts the workflow, unless it is running; the reply may be
\* lost, and the job is tried again.
Start(a) ==
  /\ job[a] = "pending"
  /\ \/ job' = [job EXCEPT ![a] = "completed"] /\ UNCHANGED faults
     \/ Fault /\ UNCHANGED job
  /\ IF run[a].pc \in Ended
     THEN run' = [run EXCEPT ![a] = NewRun] /\ age' = [age EXCEPT ![a] = 0]
     ELSE UNCHANGED <<run, age>>
  /\ UNCHANGED <<tables, desk, requests, given, interrupted>>

\* setKnowledgeArticleStatus(review)
EnterReview(a) ==
  /\ RunAt(a, "review")
  /\ SetStatus(a, "review")
  /\ run' = [run EXCEPT ![a].pc = "wait", ![a].step = 1, ![a].since = age[a]]
  /\ UNCHANGED <<approvals, round, job, age, desk, bounds, given, interrupted>>

\* Mutant: any decision at all ends the wait of a step.
AnyDecisionCounts(r, t) == \E s \in StepOrders : r.heard[s] # "none"

\* Mutant: a wait ends for approvals only.
OnlyApprovalsCount(r, t) == r.heard[r.step] = "approved" \/ t >= r.since + StepWait

\* condition(() => decisions.has(step), '30 days')
WaitIsOver(r, t) == r.heard[r.step] # "none" \/ t >= r.since + StepWait

\* Mutant: one step too many.
IsPastLastStep(s) == s > Steps

IsLastStep(s) == s = Steps

\* Whatever is not a rejection counts as an approval.
Proceed(a) ==
  LET r == run[a] IN
  /\ RunAt(a, "wait")
  /\ WaitIsOver(r, age[a])
  /\ run' = [run EXCEPT ![a] =
       IF r.heard[r.step] = "rejected" THEN [r EXCEPT !.pc = "draft"]
       ELSE IF IsLastStep(r.step) THEN [r EXCEPT !.pc = "publish"]
       ELSE [r EXCEPT !.step = r.step + 1, !.since = age[a]]]
  /\ UNCHANGED <<tables, job, age, desk, bounds, given, interrupted>>

BackToDraft(a) ==
  /\ RunAt(a, "draft")
  /\ SetStatus(a, "draft")
  /\ RunGoto(a, "rejected")
  /\ UNCHANGED <<approvals, round, job, age, desk, bounds, given, interrupted>>

\* setKnowledgeArticleStatus(published)
PublishReviewed(a) ==
  /\ RunAt(a, "publish")
  /\ SetStatus(a, "published")
  /\ RunGoto(a, "retire")
  /\ UNCHANGED <<approvals, round, job, age, desk, bounds, given, interrupted>>

RetireReplaced(a) ==
  /\ RunAt(a, "retire")
  /\ status' = RetireOthers(status, a)
  /\ interrupted' = {}
  /\ RunGoto(a, "published")
  /\ UNCHANGED <<approvals, round, job, age, desk, bounds, given>>

\* An attempt is lost after its first statement, and the activity run again.
Repeat(a) ==
  /\ Fault
  /\ \/ RunAt(a, "review") /\ SetStatus(a, "review") /\ UNCHANGED run
     \/ RunAt(a, "draft") /\ SetStatus(a, "draft") /\ UNCHANGED run
     \/ RunAt(a, "retire") /\ RunGoto(a, "publish") /\ UNCHANGED status
  /\ UNCHANGED <<approvals, round, job, age, desk, requests, given, interrupted>>

CutAt(a) == IF run[a].pc \in {"publish", "retire"} THEN {a} ELSE {}

\* The last attempt of an activity fails, and the workflow with it.
Fail(a) ==
  /\ run[a].pc \in Calls
  /\ Fault
  /\ interrupted' = interrupted \cup CutAt(a)
  /\ RunGoto(a, "failed")
  /\ UNCHANGED <<tables, job, age, desk, requests, given>>

RunStep(a) ==
  \/ EnterReview(a) \/ Proceed(a) \/ BackToDraft(a)
  \/ PublishReviewed(a) \/ RetireReplaced(a)

\* A day passes, and workflows that reach their time limit are ended.
Day ==
  LET running == {a \in Versions : run[a].pc \notin Ended}
      over == {a \in running : age[a] + 1 >= RunLimit} IN
  /\ running # {}
  /\ age' = [a \in Versions |-> IF a \in running THEN age[a] + 1 ELSE age[a]]
  /\ run' = [a \in Versions |-> IF a \in over THEN [run[a] EXCEPT !.pc = "expired"]
                                ELSE run[a]]
  /\ interrupted' = interrupted \cup UNION {CutAt(a) : a \in over}
  /\ UNCHANGED <<tables, job, desk, bounds, given>>

Next ==
  \/ \E h \in Handlers : Handle(h) \/ Die(h) \/ \E a \in Versions : Request(h, a)
  \/ \E a \in Versions : Start(a) \/ RunStep(a) \/ Repeat(a) \/ Fail(a)
  \/ Day

Spec == Init /\ [][Next]_vars

\* Temporal keeps a workflow running.
Fairness == \A a \in Versions : WF_vars(RunStep(a))

FairSpec == Spec /\ Fairness

-----------------------------------------------------------------------------
(***************************************************************************)
(* What a review promises.                                                 *)
(***************************************************************************)

\* The workflow publishes a version only if a reviewer of every step has
\* approved it, and sends it back only if one has rejected it, in whatever order
\* their decisions arrive, are taken back by another submission or are lost: a
\* step nobody decides outlasts the workflow.
ReviewersDecide ==
  \A a \in Versions :
    /\ run[a].pc \in {"publish", "retire", "published"} =>
         \A s \in StepOrders : <<s, "approved">> \in given[a]
    /\ run[a].pc \in {"draft", "rejected"} =>
         \E s \in StepOrders : <<s, "rejected">> \in given[a]

Publishing ==
  {desk[h].art : h \in {g \in Handlers : At(g, "publish") \/ At(g, "retire")}}
    \cup {a \in Versions : RunAt(a, "publish") \/ RunAt(a, "retire")}

\* routes.ts:49: "Only one published version per version chain."  However many
\* publications overlap, of two published versions one is still being published,
\* or its publication was cut in the middle.
OnePublishedVersion ==
  \A a, b \in Versions :
    a # b /\ status[a] = "published" /\ status[b] = "published" =>
      {a, b} \cap (Publishing \cup interrupted) # {}

\* Once the workflow has heard of every step, in any order, it ends.
HeardReviewsEnd ==
  \A a \in Versions :
    (run[a].pc \notin Ended /\ \A s \in StepOrders : run[a].heard[s] # "none")
      ~> run[a].pc \in Ended
=============================================================================
