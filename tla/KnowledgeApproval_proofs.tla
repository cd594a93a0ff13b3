----------------------- MODULE KnowledgeApproval_proofs -----------------------
(***************************************************************************)
(* For any number of versions, steps, handlers and faults: the variables   *)
(* keep their types, the workflow only does what reviewers decided, and    *)
(* overlapping publications leave one published version.                   *)
(***************************************************************************)
EXTENDS KnowledgeApproval, TLAPS

DeskState == [pc : DeskPCs, art : Versions, to : Statuses \cup Verdicts,
              step : StepOrders, round : Nat]

\* What a handler carries from one statement to the next: a patch a status, a
\* decision a verdict, and a signal a decision that is on record.
DeskInv ==
  \A h \in Handlers :
    LET d == desk[h] IN
    /\ d.pc = "patch" => d.to \in Statuses
    /\ d.pc \in {"decide", "signal"} => d.to \in Verdicts
    /\ d.pc = "signal" => <<d.step, d.to>> \in given[d.art]

\* The workflow hears of decisions that were taken.
HeardInv ==
  \A a \in Versions, s \in StepOrders, v \in Verdicts :
    run[a].heard[s] = v => <<s, v>> \in given[a]

\* A running workflow is younger than its limit, and a waiting one has passed the
\* steps before on approvals.
WaitInv ==
  \A a \in Versions :
    /\ run[a].pc \notin Ended => age[a] < RunLimit
    /\ run[a].pc = "wait" =>
         \A s \in StepOrders : s < run[a].step => <<s, "approved">> \in given[a]

KnowledgeInv == TypeOK /\ DeskInv /\ HeardInv /\ WaitInv /\ ReviewersDecide

-----------------------------------------------------------------------------
(***************************************************************************)
(* The initial states.                                                     *)
(***************************************************************************)

LEMMA FirstVersion == 1 \in Versions /\ 1 \in StepOrders
BY KnowledgeAssumption DEF Versions, StepOrders

LEMMA IdleType == Idle \in DeskState /\ Idle.pc = "idle"
BY FirstVersion DEF Idle, DeskState, DeskPCs, Statuses

LEMMA NewRunType ==
  /\ NoRun \in Runs /\ NewRun \in Runs
  /\ NoRun.pc = "none" /\ NewRun.pc = "review"
  /\ \A s \in StepOrders : NoRun.heard[s] = "none" /\ NewRun.heard[s] = "none"
BY FirstVersion DEF NoRun, NewRun, Runs, NoDecisions, Ended, Calls

LEMMA InitInv == Init => KnowledgeInv
<1> SUFFICES ASSUME Init PROVE KnowledgeInv
  OBVIOUS
<1>1. status \in [Versions -> Statuses]
  BY DEF Init, Statuses
<1>2. approvals \in [Versions -> [StepOrders -> Verdicts \cup {"none", "pending"}]]
  BY DEF Init, NoDecisions
<1>3. 0 \in 0..RunLimit
  BY KnowledgeAssumption
<1>4. desk \in [Handlers -> DeskState] /\ run \in [Versions -> Runs]
  BY IdleType, NewRunType DEF Init
<1>5. TypeOK
  BY <1>1, <1>2, <1>3, <1>4 DEF Init, TypeOK, DeskState
<1>6. DeskInv
  BY IdleType DEF Init, DeskInv
<1>7. HeardInv
  BY NewRunType DEF Init, HeardInv, Verdicts
<1>8. WaitInv /\ ReviewersDecide
  BY NewRunType DEF Init, WaitInv, ReviewersDecide, Ended
<1> QED BY <1>5, <1>6, <1>7, <1>8 DEF KnowledgeInv

-----------------------------------------------------------------------------
(***************************************************************************)
(* Type correctness.                                                       *)
(***************************************************************************)

\* A request that has been read.
LEMMA BeginType ==
  ASSUME TypeOK, NEW h \in Handlers, NEW d \in DeskState, Begin(h, d)
  PROVE  requests' \in Nat /\ desk' \in [Handlers -> DeskState]
BY DEF TypeOK, Begin, DeskState

LEMMA DeskType ==
  ASSUME TypeOK, NEW h \in Handlers
  PROVE  /\ Finish(h) => desk' \in [Handlers -> DeskState]
         /\ \A pc \in DeskPCs : Goto(h, pc) => desk' \in [Handlers -> DeskState]
<1>1. desk \in [Handlers -> DeskState]
  BY DEF TypeOK, DeskState
<1>2. ASSUME Finish(h) PROVE desk' \in [Handlers -> DeskState]
  BY <1>1, <1>2, IdleType DEF Finish
<1>3. ASSUME NEW pc \in DeskPCs, Goto(h, pc) PROVE desk' \in [Handlers -> DeskState]
  <2>1. [desk[h] EXCEPT !.pc = pc] \in DeskState
    BY <1>1 DEF DeskState
  <2> QED BY <1>1, <1>3, <2>1 DEF Goto
<1> QED BY <1>2, <1>3

LEMMA RunUpdate ==
  ASSUME NEW r \in Runs, NEW pc \in Ended \cup Calls \cup {"wait"}, NEW s \in StepOrders,
         NEW t \in Nat
  PROVE  /\ [r EXCEPT !.pc = pc] \in Runs
         /\ [r EXCEPT !.step = s, !.since = t] \in Runs
         /\ [r EXCEPT !.pc = pc, !.step = s, !.since = t] \in Runs
BY DEF Runs

LEMMA RunType ==
  ASSUME TypeOK, NEW a \in Versions, NEW pc \in Ended \cup Calls, RunGoto(a, pc)
  PROVE  run' \in [Versions -> Runs]
<1>1. [run[a] EXCEPT !.pc = pc] \in Runs
  BY RunUpdate, FirstVersion DEF TypeOK
<1> QED BY <1>1 DEF TypeOK, RunGoto

LEMMA StatusType ==
  ASSUME TypeOK, NEW a \in Versions, NEW to \in Statuses, SetStatus(a, to)
  PROVE  status' \in [Versions -> Statuses]
BY DEF TypeOK, SetStatus

LEMMA RetireType ==
  ASSUME TypeOK, NEW a \in Versions
  PROVE  RetireOthers(status, a) \in [Versions -> Statuses]
BY DEF TypeOK, RetireOthers, Statuses

LEMMA FaultType == ASSUME TypeOK, Fault PROVE faults' \in Nat
BY DEF TypeOK, Fault

LEMMA RequestType ==
  ASSUME TypeOK, NEW h \in Handlers, NEW a \in Versions, Request(h, a)
  PROVE  TypeOK'
<1>1. Idle \in [pc : DeskPCs, art : Versions, to : Statuses \cup Verdicts,
                step : StepOrders, round : Nat]
  BY IdleType DEF DeskState
<1>2. desk' \in [Handlers -> DeskState] /\ requests' \in Nat
  <2>1. ASSUME NEW to \in Statuses, PatchRead(h, a, to)
        PROVE  desk' \in [Handlers -> DeskState] /\ requests' \in Nat
    <3>1. [Idle EXCEPT !.pc = "patch", !.art = a, !.to = to] \in DeskState
      BY <1>1 DEF DeskState, DeskPCs
    <3> QED BY <2>1, <3>1, BeginType DEF PatchRead
  <2>2. ASSUME NEW to \in {"review", "published"}, SubmitRead(h, a, to)
        PROVE  desk' \in [Handlers -> DeskState] /\ requests' \in Nat
    <3>1. [Idle EXCEPT !.pc = "withdraw", !.art = a, !.to = to] \in DeskState
      BY <1>1 DEF DeskState, DeskPCs, Statuses
    <3> QED BY <2>2, <3>1, BeginType DEF SubmitRead
  <2>3. ASSUME NEW s \in StepOrders, NEW verdict \in Verdicts, DecideRead(h, a, s, verdict)
        PROVE  desk' \in [Handlers -> DeskState] /\ requests' \in Nat
    <3>1. [pc |-> "decide", art |-> a, to |-> verdict, step |-> s, round |-> round[a]]
            \in DeskState
      BY DEF DeskState, DeskPCs, TypeOK
    <3> QED BY <2>3, <3>1, BeginType DEF DecideRead
  <2>4. CASE VersionRead(h, a)
    <3> DEFINE next == Cardinality({v \in Versions : Exists(v)}) + 1
    <3>1. next \in Versions /\ Begin(h, [Idle EXCEPT !.pc = "version", !.art = next])
      BY <2>4 DEF VersionRead
    <3> HIDE DEF next
    <3>2. [Idle EXCEPT !.pc = "version", !.art = next] \in DeskState
      BY <1>1, <3>1 DEF DeskState, DeskPCs
    <3> QED BY <3>1, <3>2, BeginType
  <2> QED BY <2>1, <2>2, <2>3, <2>4 DEF Request
<1>3. UNCHANGED <<tables, reviews, faults, given, interrupted>>
  BY DEF Request, PatchRead, SubmitRead, DecideRead, VersionRead
<1> QED BY <1>2, <1>3 DEF TypeOK, DeskState, tables, reviews

LEMMA HandleType ==
  ASSUME TypeOK, DeskInv, NEW h \in Handlers, Handle(h) \/ Die(h)
  PROVE  TypeOK'
<1> USE DEF tables, reviews, bounds
<1>0. desk[h] \in DeskState
  BY DEF TypeOK, DeskState
<1> DEFINE a == desk[h].art
<1>1. a \in Versions /\ desk[h].step \in StepOrders /\ desk[h].to \in Statuses \cup Verdicts
  BY <1>0 DEF DeskState
<1>2. {"published", "review", "draft"} \subseteq Statuses
  BY DEF Statuses
<1>3. DeskPCs = {"idle", "patch", "publish", "retire", "withdraw", "review", "ask",
                 "enqueue", "decide", "signal", "version"}
  BY DEF DeskPCs
<1>4. CASE PatchWrite(h)
  <2>1. desk[h].to \in Statuses
    BY <1>4 DEF PatchWrite, At, DeskInv
  <2>2. desk' \in [Handlers -> DeskState]
    BY <1>3, <1>4, DeskType DEF PatchWrite
  <2> QED BY <1>1, <1>4, <2>1, <2>2, StatusType DEF PatchWrite, TypeOK, DeskState
<1>5. CASE Publish(h) \/ SetReview(h)
  <2>1. desk' \in [Handlers -> DeskState]
    BY <1>3, <1>5, DeskType DEF Publish, SetReview
  <2>2. status' \in [Versions -> Statuses]
    BY <1>1, <1>2, <1>5, StatusType DEF Publish, SetReview
  <2> QED BY <1>5, <2>1, <2>2 DEF Publish, SetReview, TypeOK, DeskState
<1>6. CASE Retire(h)
  <2>1. desk' \in [Handlers -> DeskState] /\ status' \in [Versions -> Statuses]
    BY <1>1, <1>6, DeskType, RetireType DEF Retire
  <2> QED BY <1>6, <2>1 DEF Retire, TypeOK, DeskState
<1>7. CASE Withdraw(h)
  <2>1. desk' \in [Handlers -> DeskState]
    BY <1>3, <1>7, DeskType DEF Withdraw
  <2>2. NoDecisions \in [StepOrders -> Verdicts \cup {"none", "pending"}]
    BY DEF NoDecisions
  <2> QED BY <1>1, <1>7, <2>1, <2>2 DEF Withdraw, TypeOK, DeskState
<1>8. CASE Ask(h)
  <2>1. desk' \in [Handlers -> DeskState]
    <3>1. CASE desk' = [desk EXCEPT ![h].step = desk[h].step + 1] /\ desk[h].step < Steps
      <4>1. desk[h].step + 1 \in StepOrders
        BY <1>1, <3>1, KnowledgeAssumption DEF StepOrders
      <4> QED BY <3>1, <4>1 DEF TypeOK, DeskState
    <3> QED BY <1>3, <1>8, <3>1, DeskType DEF Ask
  <2>2. approvals' \in [Versions -> [StepOrders -> Verdicts \cup {"none", "pending"}]]
    <3>1. approvals[a] \in [StepOrders -> Verdicts \cup {"none", "pending"}]
      BY <1>1 DEF TypeOK
    <3>2. [approvals[a] EXCEPT ![desk[h].step] = "pending"]
            \in [StepOrders -> Verdicts \cup {"none", "pending"}]
      BY <3>1
    <3> QED BY <1>1, <1>8, <3>2 DEF Ask, TypeOK
  <2> QED BY <1>8, <2>1, <2>2 DEF Ask, TypeOK, DeskState
<1>9. CASE Enqueue(h)
  <2>1. desk' \in [Handlers -> DeskState]
    BY <1>9, DeskType DEF Enqueue
  <2> QED BY <1>1, <1>9, <2>1 DEF Enqueue, TypeOK, DeskState
<1>10. CASE DecideWrite(h)
  <2>1. desk[h].to \in Verdicts
    BY <1>10 DEF DecideWrite, At, DeskInv
  <2>2. desk' \in [Handlers -> DeskState]
    BY <1>3, <1>10, DeskType DEF DecideWrite
  <2>3. approvals' \in [Versions -> [StepOrders -> Verdicts \cup {"none", "pending"}]]
    BY <1>1, <1>10, <2>1 DEF DecideWrite, TypeOK
  <2>4. given' \in [Versions -> SUBSET (StepOrders \X Verdicts)]
    BY <1>1, <1>10, <2>1 DEF DecideWrite, TypeOK
  <2> QED BY <1>10, <2>2, <2>3, <2>4 DEF DecideWrite, TypeOK, DeskState
<1>11. CASE DecideSignal(h)
  <2>1. desk[h].to \in Verdicts
    BY <1>11 DEF DecideSignal, At, DeskInv
  <2>2. desk' \in [Handlers -> DeskState] /\ faults' \in Nat
    BY <1>11, DeskType, FaultType DEF DecideSignal, TypeOK
  <2>3. run' \in [Versions -> Runs]
    <3>1. [run EXCEPT ![a].heard[desk[h].step] = desk[h].to] \in [Versions -> Runs]
      <4>1. [run[a].heard EXCEPT ![desk[h].step] = desk[h].to]
              \in [StepOrders -> Verdicts \cup {"none"}]
        BY <1>1, <2>1 DEF TypeOK, Runs
      <4>2. [run[a] EXCEPT !.heard[desk[h].step] = desk[h].to] \in Runs
        <5> DEFINE heard == [run[a].heard EXCEPT ![desk[h].step] = desk[h].to]
        <5>1. run[a] \in Runs
          BY <1>1 DEF TypeOK
        <5>2. [run[a] EXCEPT !.heard = heard] \in Runs
          BY <4>1, <5>1 DEF Runs
        <5> QED BY <5>2
      <4> QED BY <1>1, <4>2 DEF TypeOK
    <3> QED BY <1>11, <3>1 DEF DecideSignal, TypeOK
  <2> QED BY <1>11, <2>2, <2>3 DEF DecideSignal, TypeOK, DeskState
<1>12. CASE VersionInsert(h)
  <2>1. desk' \in [Handlers -> DeskState]
    BY <1>12, DeskType DEF VersionInsert
  <2> QED BY <1>1, <1>2, <1>12, <2>1 DEF VersionInsert, TypeOK, DeskState
<1>13. CASE Die(h)
  <2>1. desk' \in [Handlers -> DeskState] /\ faults' \in Nat
    BY <1>13, DeskType, FaultType DEF Die
  <2>2. interrupted' \subseteq Versions
    BY <1>1, <1>13 DEF Die, TypeOK
  <2> QED BY <1>13, <2>1, <2>2 DEF Die, TypeOK, DeskState
<1> QED
  BY <1>4, <1>5, <1>6, <1>7, <1>8, <1>9, <1>10, <1>11, <1>12, <1>13 DEF Handle

LEMMA ReviewType ==
  ASSUME TypeOK, NEW a \in Versions, Start(a) \/ RunStep(a) \/ Repeat(a) \/ Fail(a)
  PROVE  TypeOK'
<1> USE DEF tables, reviews, bounds
<1>1. {"published", "review", "draft"} \subseteq Statuses
  BY DEF Statuses
<1>2. {"rejected", "retire", "published", "publish", "failed", "draft", "wait"}
        \subseteq Ended \cup Calls \cup {"wait"}
  BY DEF Ended, Calls
<1>3. run[a] \in Runs /\ age[a] \in 0..RunLimit
  BY DEF TypeOK
<1> age[a] \in Nat
  BY <1>3, KnowledgeAssumption
<1>4. CASE Start(a)
  <2>1. run' \in [Versions -> Runs] /\ age' \in [Versions -> 0..RunLimit]
    <3>1. 0 \in 0..RunLimit
      BY KnowledgeAssumption
    <3>2. CASE run' = [run EXCEPT ![a] = NewRun] /\ age' = [age EXCEPT ![a] = 0]
      BY <3>1, <3>2, NewRunType DEF TypeOK
    <3>3. CASE UNCHANGED <<run, age>>
      BY <3>3 DEF TypeOK
    <3> QED BY <1>4, <3>2, <3>3 DEF Start
  <2>2. faults' \in Nat /\ job' \in [Versions -> {"absent", "pending", "completed"}]
    BY <1>4, FaultType DEF Start, TypeOK
  <2> QED BY <1>4, <2>1, <2>2 DEF Start, TypeOK
<1>5. CASE EnterReview(a)
  <2>1. run' \in [Versions -> Runs]
    <3>1. [run[a] EXCEPT !.pc = "wait", !.step = 1, !.since = age[a]] \in Runs
      BY <1>2, <1>3, FirstVersion, RunUpdate, KnowledgeAssumption
    <3> QED BY <1>5, <3>1 DEF EnterReview, TypeOK
  <2> QED BY <1>1, <1>5, <2>1, StatusType DEF EnterReview, TypeOK
<1>6. CASE Proceed(a)
  <2>1. ASSUME ~IsLastStep(run[a].step) PROVE run[a].step + 1 \in StepOrders
    BY <1>3, <2>1, KnowledgeAssumption DEF IsLastStep, Runs, StepOrders
  <2>2. run' \in [Versions -> Runs]
    <3>1. /\ [run[a] EXCEPT !.pc = "draft"] \in Runs
          /\ [run[a] EXCEPT !.pc = "publish"] \in Runs
      BY <1>2, <1>3, FirstVersion, RunUpdate
    <3>2. ~IsLastStep(run[a].step) =>
            [run[a] EXCEPT !.step = run[a].step + 1, !.since = age[a]] \in Runs
      BY <1>2, <1>3, <2>1, RunUpdate, KnowledgeAssumption
    <3> QED BY <1>6, <3>1, <3>2 DEF Proceed, TypeOK
  <2> QED BY <1>6, <2>2 DEF Proceed, TypeOK
<1>7. CASE BackToDraft(a) \/ PublishReviewed(a)
  <2>1. run' \in [Versions -> Runs]
    BY <1>7, RunType DEF BackToDraft, PublishReviewed, Ended, Calls
  <2>2. status' \in [Versions -> Statuses]
    BY <1>1, <1>7, StatusType DEF BackToDraft, PublishReviewed
  <2> QED BY <1>7, <2>1, <2>2 DEF BackToDraft, PublishReviewed, TypeOK
<1>8. CASE RetireReplaced(a)
  <2>1. run' \in [Versions -> Runs]
    BY <1>8, RunType DEF RetireReplaced, Ended
  <2> QED BY <1>8, <2>1, RetireType DEF RetireReplaced, TypeOK
<1>9. CASE Repeat(a)
  <2>1. run' \in [Versions -> Runs]
    BY <1>9, RunType DEF Repeat, Calls, TypeOK
  <2>2. status' \in [Versions -> Statuses]
    BY <1>1, <1>9, StatusType DEF Repeat, TypeOK
  <2> QED BY <1>9, <2>1, <2>2, FaultType DEF Repeat, TypeOK
<1>10. CASE Fail(a)
  <2>1. run' \in [Versions -> Runs]
    BY <1>10, RunType DEF Fail, Ended
  <2> QED BY <1>10, <2>1, FaultType DEF Fail, TypeOK, CutAt
<1> QED BY <1>4, <1>5, <1>6, <1>7, <1>8, <1>9, <1>10 DEF RunStep

LEMMA DayType == ASSUME TypeOK, WaitInv, Day PROVE TypeOK'
<1>1. \A a \in Versions : run[a].pc \notin Ended => age[a] + 1 \in 0..RunLimit
  BY KnowledgeAssumption DEF TypeOK, WaitInv
<1>2. age' \in [Versions -> 0..RunLimit]
  BY <1>1 DEF Day, TypeOK
<1>3. \A a \in Versions : [run[a] EXCEPT !.pc = "expired"] \in Runs
  BY RunUpdate, FirstVersion DEF TypeOK, Ended
<1>4. run' \in [Versions -> Runs]
  BY <1>3 DEF Day, TypeOK
<1>5. interrupted' \subseteq Versions
  BY DEF Day, TypeOK, CutAt
<1> QED BY <1>2, <1>4, <1>5 DEF Day, TypeOK, tables, bounds

LEMMA TypeStep == ASSUME KnowledgeInv, [Next]_vars PROVE TypeOK'
<1> USE DEF KnowledgeInv
<1>1. CASE UNCHANGED vars
  BY <1>1 DEF TypeOK, vars, tables, reviews, bounds
<1> QED BY <1>1, RequestType, HandleType, ReviewType, DayType DEF Next

-----------------------------------------------------------------------------
(***************************************************************************)
(* What the workflow has heard.                                            *)
(***************************************************************************)

\* Decisions on record stay on record.
LEMMA GivenGrows ==
  ASSUME TypeOK, [Next]_vars
  PROVE  \A a \in Versions : given[a] \subseteq given'[a]
<1>1. CASE \E h \in Handlers : DecideWrite(h)
  BY <1>1 DEF DecideWrite, TypeOK
<1>2. CASE given' = given
  BY <1>2
<1> QED
  BY <1>1, <1>2 DEF Next, Handle, Request, RunStep, vars, tables, reviews, PatchRead, PatchWrite,
     Publish, Retire, SubmitRead, Withdraw, SetReview, Ask, Enqueue, DecideRead, DecideSignal,
     VersionRead, VersionInsert, Die, Start, EnterReview, Proceed, BackToDraft, PublishReviewed,
     RetireReplaced, Repeat, Fail, Day

LEMMA DeskStep == ASSUME KnowledgeInv, [Next]_vars PROVE DeskInv'
<1> USE DEF tables, reviews, bounds
<1>1. TypeOK /\ DeskInv /\ desk \in [Handlers -> DeskState]
  BY DEF KnowledgeInv, TypeOK, DeskState
<1> DEFINE Good(d, rec) == /\ d.pc = "patch" => d.to \in Statuses
                           /\ d.pc \in {"decide", "signal"} => d.to \in Verdicts
                           /\ d.pc = "signal" => <<d.step, d.to>> \in rec[d.art]
<1>2. \A d \in DeskState : Good(d, given) => Good(d, given')
  BY <1>1, GivenGrows DEF DeskState
<1>3. \A g \in Handlers : Good(desk[g], given')
  BY <1>1, <1>2 DEF DeskInv
<1>4. CASE UNCHANGED desk
  BY <1>3, <1>4 DEF DeskInv
<1>5. ASSUME NEW h \in Handlers, NEW d, desk' = [desk EXCEPT ![h] = d], Good(d, given')
      PROVE  DeskInv'
  BY <1>1, <1>3, <1>5 DEF DeskInv
<1>6. ASSUME NEW h \in Handlers, NEW a \in Versions, Request(h, a)
      PROVE  DeskInv'
  <2>1. ASSUME NEW to \in Statuses, PatchRead(h, a, to) PROVE DeskInv'
    <3> DEFINE d == [Idle EXCEPT !.pc = "patch", !.art = a, !.to = to]
    <3>1. desk' = [desk EXCEPT ![h] = d] /\ Good(d, given')
      BY <2>1 DEF PatchRead, Begin, Idle
    <3> HIDE DEF d
    <3> QED BY <1>5, <3>1
  <2>2. ASSUME NEW to, SubmitRead(h, a, to) PROVE DeskInv'
    <3> DEFINE d == [Idle EXCEPT !.pc = "withdraw", !.art = a, !.to = to]
    <3>1. desk' = [desk EXCEPT ![h] = d] /\ Good(d, given')
      BY <2>2 DEF SubmitRead, Begin, Idle
    <3> HIDE DEF d
    <3> QED BY <1>5, <3>1
  <2>3. ASSUME NEW s, NEW verdict \in Verdicts, DecideRead(h, a, s, verdict) PROVE DeskInv'
    <3> DEFINE d == [pc |-> "decide", art |-> a, to |-> verdict, step |-> s, round |-> round[a]]
    <3>1. desk' = [desk EXCEPT ![h] = d] /\ Good(d, given')
      BY <2>3 DEF DecideRead, Begin
    <3> HIDE DEF d
    <3> QED BY <1>5, <3>1
  <2>4. CASE VersionRead(h, a)
    <3> DEFINE next == Cardinality({v \in Versions : Exists(v)}) + 1
               d == [Idle EXCEPT !.pc = "version", !.art = next]
    <3>1. desk' = [desk EXCEPT ![h] = d] /\ Good(d, given')
      BY <2>4 DEF VersionRead, Begin, Idle
    <3> HIDE DEF d
    <3> QED BY <1>5, <3>1
  <2> QED BY <1>6, <2>1, <2>2, <2>3, <2>4 DEF Request
<1>7. ASSUME NEW h \in Handlers, Handle(h) \/ Die(h)
      PROVE  DeskInv'
  <2>1. CASE Finish(h)
    <3>1. Good(Idle, given')
      BY DEF Idle
    <3> QED BY <1>5, <2>1, <3>1 DEF Finish
  <2>2. ASSUME NEW pc \in {"publish", "retire", "review", "ask", "enqueue"}, Goto(h, pc)
        PROVE  DeskInv'
    <3>1. Good([desk[h] EXCEPT !.pc = pc], given')
      BY <1>1, <2>2 DEF DeskState
    <3> QED BY <1>1, <1>3, <2>2, <3>1 DEF Goto, DeskInv, DeskState
  <2>3. CASE Ask(h)
    <3>1. CASE desk' = [desk EXCEPT ![h].step = desk[h].step + 1]
      BY <1>1, <1>3, <2>3, <3>1 DEF Ask, At, DeskInv, DeskState
    <3> QED BY <2>1, <2>2, <2>3, <3>1 DEF Ask
  <2>4. CASE DecideWrite(h)
    <3>1. desk[h].to \in Verdicts /\ <<desk[h].step, desk[h].to>> \in given'[desk[h].art]
      BY <1>1, <2>4 DEF DecideWrite, At, DeskInv, TypeOK, DeskState
    <3>2. Good([desk[h] EXCEPT !.pc = "signal"], given')
      BY <1>1, <3>1 DEF DeskState
    <3> QED BY <1>1, <1>3, <2>4, <3>2 DEF DecideWrite, Goto, DeskInv, DeskState
  <2> QED
    BY <1>7, <2>1, <2>2, <2>3, <2>4 DEF Handle, PatchWrite, Publish, Retire, Withdraw, SetReview,
       Enqueue, DecideSignal, VersionInsert, Die
<1> QED
  BY <1>4, <1>6, <1>7 DEF Next, RunStep, vars, Start, EnterReview, Proceed, BackToDraft,
     PublishReviewed, RetireReplaced, Repeat, Fail, Day

\* A workflow starts without decisions, and is signalled one that is on record.
LEMMA HeardStep == ASSUME KnowledgeInv, [Next]_vars PROVE HeardInv'
<1> USE DEF tables, reviews, bounds
<1>1. TypeOK /\ DeskInv /\ HeardInv
  BY DEF KnowledgeInv
<1>2. ASSUME \A a \in Versions : run'[a].heard = run[a].heard
      PROVE  HeardInv'
  BY <1>1, <1>2, GivenGrows DEF HeardInv
<1>3. CASE UNCHANGED run
  BY <1>2, <1>3
<1>4. ASSUME NEW h \in Handlers, DecideSignal(h)
      PROVE  HeardInv'
  <2> DEFINE d == desk[h]
  <2>1. CASE run' = [run EXCEPT ![d.art].heard[d.step] = d.to]
    <3>1. /\ d.art \in Versions /\ d.step \in StepOrders
          /\ <<d.step, d.to>> \in given[d.art] /\ given' = given
      BY <1>1, <1>4 DEF DecideSignal, At, DeskInv, TypeOK
    <3> SUFFICES ASSUME NEW a \in Versions, NEW s \in StepOrders, NEW v \in Verdicts,
                        run'[a].heard[s] = v
                 PROVE  <<s, v>> \in given[a]
      BY <3>1 DEF HeardInv
    <3>2. CASE a = d.art /\ s = d.step
      <4>1. run'[a].heard[s] = d.to
        BY <1>1, <2>1, <3>1, <3>2 DEF TypeOK, Runs
      <4> QED BY <3>1, <3>2, <4>1
    <3>3. CASE ~(a = d.art /\ s = d.step)
      <4>1. run'[a].heard[s] = run[a].heard[s]
        BY <1>1, <2>1, <3>1, <3>3 DEF TypeOK, Runs
      <4> QED BY <1>1, <4>1 DEF HeardInv
    <3> QED BY <3>2, <3>3
  <2> QED BY <1>3, <1>4, <2>1 DEF DecideSignal
<1>5. ASSUME NEW a \in Versions, Start(a)
      PROVE  HeardInv'
  <2>1. CASE run' = [run EXCEPT ![a] = NewRun]
    <3>1. given' = given
      BY <1>5 DEF Start
    <3> QED BY <1>1, <2>1, <3>1, NewRunType DEF HeardInv, TypeOK, Verdicts
  <2> QED BY <1>3, <1>5, <2>1 DEF Start
<1>6. ASSUME NEW a \in Versions, RunStep(a) \/ Repeat(a) \/ Fail(a)
      PROVE  HeardInv'
  <2>1. \A b \in Versions : run'[b].heard = run[b].heard
    <3>1. ASSUME NEW r, run' = [run EXCEPT ![a] = r], r.heard = run[a].heard
          PROVE  \A b \in Versions : run'[b].heard = run[b].heard
      BY <1>1, <3>1 DEF TypeOK
    <3>2. run[a] \in Runs
      BY <1>1 DEF TypeOK
    <3>3. ASSUME NEW pc, RunGoto(a, pc)
          PROVE  \A b \in Versions : run'[b].heard = run[b].heard
      BY <3>1, <3>2, <3>3 DEF RunGoto, Runs
    <3>4. CASE EnterReview(a)
      <4>1. run' = [run EXCEPT ![a] = [run[a] EXCEPT !.pc = "wait", !.step = 1,
                                                     !.since = age[a]]]
        BY <1>1, <3>4 DEF EnterReview, TypeOK
      <4>2. [run[a] EXCEPT !.pc = "wait", !.step = 1, !.since = age[a]].heard = run[a].heard
        BY <3>2 DEF Runs
      <4> QED BY <3>1, <4>1, <4>2
    <3>5. CASE Proceed(a)
      BY <3>1, <3>2, <3>5 DEF Proceed, Runs
    <3> QED
      BY <1>6, <3>3, <3>4, <3>5 DEF RunStep, BackToDraft, PublishReviewed, RetireReplaced,
         Repeat, Fail
  <2> QED BY <1>2, <2>1
<1>7. CASE Day
  <2>1. \A b \in Versions : run'[b].heard = run[b].heard
    BY <1>1, <1>7 DEF Day, TypeOK, Runs
  <2> QED BY <1>2, <2>1
<1> QED
  BY <1>3, <1>4, <1>5, <1>6, <1>7 DEF Next, Handle, Request, vars, PatchRead, PatchWrite,
     Publish, Retire, SubmitRead, Withdraw, SetReview, Ask, Enqueue, DecideRead, DecideWrite,
     VersionRead, VersionInsert, Die

-----------------------------------------------------------------------------
(***************************************************************************)
(* What the workflow does about it.                                        *)
(***************************************************************************)

\* What one version's workflow has passed, given the decisions on record.
Passed(r, t, rec) ==
  /\ r.pc \notin Ended => t < RunLimit
  /\ r.pc = "wait" => \A s \in StepOrders : s < r.step => <<s, "approved">> \in rec
  /\ r.pc \in {"publish", "retire", "published"} =>
       \A s \in StepOrders : <<s, "approved">> \in rec
  /\ r.pc \in {"draft", "rejected"} => \E s \in StepOrders : <<s, "rejected">> \in rec

LEMMA PassedInvs ==
  (WaitInv /\ ReviewersDecide) <=> \A a \in Versions : Passed(run[a], age[a], given[a])
BY DEF WaitInv, ReviewersDecide, Passed

\* A step nobody decides does not time out before its workflow does.
LEMMA WaitsOutlastRuns ==
  ASSUME KnowledgeInv, NEW a \in Versions, run[a].pc \notin Ended, WaitIsOver(run[a], age[a])
  PROVE  <<run[a].step, run[a].heard[run[a].step]>> \in given[a]
<1>1. run[a] \in Runs /\ age[a] \in 0..RunLimit /\ age[a] < RunLimit
  BY DEF KnowledgeInv, TypeOK, WaitInv
<1>2. ~(age[a] >= run[a].since + StepWait)
  BY <1>1, KnowledgeAssumption DEF Runs
<1>3. run[a].heard[run[a].step] \in Verdicts
  BY <1>1, <1>2 DEF WaitIsOver, Runs
<1> QED BY <1>1, <1>3 DEF KnowledgeInv, HeardInv, Runs

LEMMA PassedStep ==
  ASSUME KnowledgeInv, [Next]_vars
  PROVE  \A a \in Versions : Passed(run'[a], age'[a], given'[a])
<1> USE DEF tables, reviews, bounds
<1>1. TypeOK /\ \A a \in Versions : Passed(run[a], age[a], given[a])
  BY PassedInvs DEF KnowledgeInv
<1>2. ASSUME NEW a \in Versions, run'[a].pc = run[a].pc, run'[a].step = run[a].step,
             age'[a] = age[a]
      PROVE  Passed(run'[a], age'[a], given'[a])
  BY <1>1, <1>2, GivenGrows DEF Passed
<1>3. CASE UNCHANGED <<run, age>>
  BY <1>2, <1>3
<1>4. ASSUME NEW a \in Versions, NEW r, run' = [run EXCEPT ![a] = r],
             Passed(r, age'[a], given[a]), \A b \in Versions \ {a} : age'[b] = age[b]
      PROVE  \A b \in Versions : Passed(run'[b], age'[b], given'[b])
  <2>1. run'[a] = r /\ \A b \in Versions \ {a} : run'[b] = run[b]
    BY <1>1, <1>4 DEF TypeOK
  <2>2. Passed(run'[a], age'[a], given'[a])
    BY <1>1, <1>4, <2>1, GivenGrows DEF Passed
  <2>3. ASSUME NEW b \in Versions \ {a} PROVE Passed(run'[b], age'[b], given'[b])
    BY <1>2, <1>4, <2>1, <2>3
  <2> QED BY <2>2, <2>3
<1>5. ASSUME NEW h \in Handlers, DecideSignal(h)
      PROVE  \A a \in Versions : Passed(run'[a], age'[a], given'[a])
  <2>1. \A a \in Versions : run'[a].pc = run[a].pc /\ run'[a].step = run[a].step
    <3> DEFINE d == desk[h]
               r == [run[d.art] EXCEPT !.heard[d.step] = d.to]
    <3>1. run' = run \/ run' = [run EXCEPT ![d.art] = r]
      BY <1>5 DEF DecideSignal
    <3>2. run[d.art] \in Runs
      BY <1>1 DEF TypeOK
    <3>3. r.pc = run[d.art].pc /\ r.step = run[d.art].step
      BY <3>2 DEF Runs
    <3> HIDE DEF r
    <3> QED BY <1>1, <3>1, <3>3 DEF TypeOK
  <2> QED BY <1>2, <1>5, <2>1 DEF DecideSignal
<1>6. ASSUME NEW a \in Versions, Start(a)
      PROVE  \A b \in Versions : Passed(run'[b], age'[b], given'[b])
  <2>1. CASE run' = [run EXCEPT ![a] = NewRun] /\ age' = [age EXCEPT ![a] = 0]
    <3>1. Passed(NewRun, 0, given[a])
      BY NewRunType, KnowledgeAssumption DEF Passed
    <3>2. age'[a] = 0 /\ \A b \in Versions \ {a} : age'[b] = age[b]
      BY <1>1, <2>1 DEF TypeOK
    <3> QED BY <1>4, <2>1, <3>1, <3>2
  <2> QED BY <1>3, <1>6, <2>1 DEF Start
<1>7. ASSUME NEW a \in Versions, RunStep(a) \/ Repeat(a) \/ Fail(a)
      PROVE  \A b \in Versions : Passed(run'[b], age'[b], given'[b])
  <2>1. run[a] \in Runs /\ Passed(run[a], age[a], given[a])
    BY <1>1 DEF TypeOK
  <2>2. age' = age
    BY <1>7 DEF RunStep, EnterReview, Proceed, BackToDraft, PublishReviewed, RetireReplaced,
       Repeat, Fail
  <2>3. ASSUME NEW r, run' = [run EXCEPT ![a] = r], Passed(r, age[a], given[a])
        PROVE  \A b \in Versions : Passed(run'[b], age'[b], given'[b])
    BY <1>4, <2>2, <2>3
  <2>4. ASSUME NEW pc, RunGoto(a, pc), Passed([run[a] EXCEPT !.pc = pc], age[a], given[a])
        PROVE  \A b \in Versions : Passed(run'[b], age'[b], given'[b])
    BY <2>3, <2>4 DEF RunGoto
  <2>5. CASE EnterReview(a)
    <3>1. Passed([run[a] EXCEPT !.pc = "wait", !.step = 1, !.since = age[a]], age[a], given[a])
      <4>1. \A s \in StepOrders : ~(s < 1)
        BY KnowledgeAssumption DEF StepOrders
      <4> QED BY <2>1, <2>5, <4>1 DEF EnterReview, RunAt, Passed, Runs, Ended
    <3> QED BY <2>3, <2>5, <3>1 DEF EnterReview
  <2>6. CASE Proceed(a)
    <3> DEFINE s == run[a].step
    <3>1. <<s, run[a].heard[s]>> \in given[a]
      BY <2>6, WaitsOutlastRuns DEF Proceed, RunAt, Ended
    <3>2. s \in StepOrders /\ given[a] \subseteq StepOrders \X Verdicts
      BY <1>1, <2>1 DEF Runs, TypeOK
    <3>3. run[a].heard[s] = "rejected" \/ run[a].heard[s] = "approved"
      BY <3>1, <3>2 DEF Verdicts
    <3>4. ASSUME run[a].heard[s] = "rejected"
          PROVE  Passed([run[a] EXCEPT !.pc = "draft"], age[a], given[a])
      BY <2>1, <2>6, <3>1, <3>2, <3>4 DEF Proceed, RunAt, Passed, Runs, Ended
    <3>5. ASSUME run[a].heard[s] = "approved"
          PROVE  \A q \in StepOrders : q < s + 1 => <<q, "approved">> \in given[a]
      <4>1. \A q \in StepOrders : q < s + 1 => q < s \/ q = s
        BY <3>2, KnowledgeAssumption DEF StepOrders
      <4> QED BY <2>1, <2>6, <3>1, <3>5, <4>1 DEF Proceed, RunAt, Passed
    <3>6. ASSUME run[a].heard[s] = "approved", IsLastStep(s)
          PROVE  Passed([run[a] EXCEPT !.pc = "publish"], age[a], given[a])
      <4>1. \A q \in StepOrders : q < s + 1
        BY <3>2, <3>6, KnowledgeAssumption DEF IsLastStep, StepOrders
      <4> QED BY <2>1, <2>6, <3>5, <3>6, <4>1 DEF Proceed, RunAt, Passed, Runs, Ended
    <3>7. ASSUME run[a].heard[s] = "approved", ~IsLastStep(s)
          PROVE  Passed([run[a] EXCEPT !.step = s + 1, !.since = age[a]], age[a], given[a])
      BY <2>1, <2>6, <3>5, <3>7 DEF Proceed, RunAt, Passed, Runs, Ended
    <3> QED BY <2>3, <2>6, <3>3, <3>4, <3>6, <3>7 DEF Proceed
  <2>7. CASE BackToDraft(a)
    <3>1. Passed([run[a] EXCEPT !.pc = "rejected"], age[a], given[a])
      BY <2>1, <2>7 DEF BackToDraft, RunAt, Passed, Runs, Ended
    <3> QED BY <2>4, <2>7, <3>1 DEF BackToDraft
  <2>8. CASE PublishReviewed(a)
    <3>1. Passed([run[a] EXCEPT !.pc = "retire"], age[a], given[a])
      BY <2>1, <2>8 DEF PublishReviewed, RunAt, Passed, Runs, Ended
    <3> QED BY <2>4, <2>8, <3>1 DEF PublishReviewed
  <2>9. CASE RetireReplaced(a)
    <3>1. Passed([run[a] EXCEPT !.pc = "published"], age[a], given[a])
      BY <2>1, <2>9 DEF RetireReplaced, RunAt, Passed, Runs, Ended
    <3> QED BY <2>4, <2>9, <3>1 DEF RetireReplaced
  <2>10. CASE Repeat(a)
    <3>1. run[a].pc = "retire" => Passed([run[a] EXCEPT !.pc = "publish"], age[a], given[a])
      BY <2>1 DEF Passed, Runs, Ended
    <3> QED BY <1>3, <2>2, <2>4, <2>10, <3>1 DEF Repeat, RunAt
  <2>11. CASE Fail(a)
    <3>1. Passed([run[a] EXCEPT !.pc = "failed"], age[a], given[a])
      BY <2>1 DEF Passed, Runs, Ended
    <3> QED BY <2>4, <2>11, <3>1 DEF Fail
  <2> QED BY <1>7, <2>5, <2>6, <2>7, <2>8, <2>9, <2>10, <2>11 DEF RunStep
<1>8. CASE Day
  <2> SUFFICES ASSUME NEW a \in Versions PROVE Passed(run'[a], age'[a], given'[a])
    OBVIOUS
  <2>1. run[a] \in Runs /\ Passed(run[a], age[a], given[a]) /\ age[a] \in Nat
    BY <1>1, KnowledgeAssumption DEF TypeOK
  <2>2. CASE run[a].pc \in Ended
    <3>1. run'[a] = run[a] /\ age'[a] = age[a]
      BY <1>8, <2>2 DEF Day
    <3> QED BY <1>2, <3>1
  <2>3. CASE run[a].pc \notin Ended /\ age[a] + 1 >= RunLimit
    <3>1. run'[a] = [run[a] EXCEPT !.pc = "expired"]
      BY <1>8, <2>3 DEF Day
    <3> QED BY <2>1, <3>1 DEF Passed, Runs, Ended
  <2>4. CASE run[a].pc \notin Ended /\ ~(age[a] + 1 >= RunLimit)
    <3>1. run'[a] = run[a] /\ age'[a] = age[a] + 1 /\ given'[a] = given[a]
      BY <1>8, <2>4 DEF Day
    <3>2. age[a] + 1 < RunLimit
      BY <2>1, <2>4, KnowledgeAssumption
    <3> QED BY <2>1, <3>1, <3>2 DEF Passed
  <2> QED BY <2>2, <2>3, <2>4
<1> QED
  BY <1>3, <1>5, <1>6, <1>7, <1>8 DEF Next, Handle, Request, vars, PatchRead, PatchWrite,
     Publish, Retire, SubmitRead, Withdraw, SetReview, Ask, Enqueue, DecideRead, DecideWrite,
     VersionRead, VersionInsert, Die

\* The inductive invariant: whatever handlers and workflows hold of a decision is on
\* record, and no step is passed without one.
THEOREM KnowledgeInvariant == Spec => []KnowledgeInv
<1>1. Init => KnowledgeInv
  BY InitInv
<1>2. KnowledgeInv /\ [Next]_vars => KnowledgeInv'
  <2> SUFFICES ASSUME KnowledgeInv, [Next]_vars PROVE KnowledgeInv'
    OBVIOUS
  <2>1. TypeOK' /\ DeskInv' /\ HeardInv'
    BY TypeStep, DeskStep, HeardStep
  <2>2. WaitInv' /\ ReviewersDecide'
    BY PassedStep DEF WaitInv, ReviewersDecide, Passed
  <2> QED BY <2>1, <2>2 DEF KnowledgeInv
<1> QED BY <1>1, <1>2, PTL DEF Spec

\* Every reachable state is well typed: no patch stores a verdict as a status, and no
\* decision a status as a verdict.
THEOREM KnowledgeTypeCorrect == Spec => []TypeOK
<1>1. KnowledgeInv => TypeOK
  BY DEF KnowledgeInv
<1> QED BY <1>1, KnowledgeInvariant, PTL

\* The workflow publishes only what every step's reviewers approved and sends back only
\* what one rejected, for any steps, lost signals and resubmissions, as long as its time
\* limit is not longer than the wait for one step.
THEOREM ReviewsAreDecided == Spec => []ReviewersDecide
<1>1. KnowledgeInv => ReviewersDecide
  BY DEF KnowledgeInv
<1> QED BY <1>1, KnowledgeInvariant, PTL

-----------------------------------------------------------------------------
(***************************************************************************)
(* Publications.                                                           *)
(***************************************************************************)

\* Versions that may be published next to another one.
Excused == Publishing \cup interrupted

\* A handler that publishes goes on to retire the others, or is cut.
LEMMA HandlersStayExcused ==
  ASSUME TypeOK, NEW h \in Handlers, NEW d, desk' = [desk EXCEPT ![h] = d],
         UNCHANGED run, interrupted \subseteq interrupted',
         \/ desk[h].pc \notin {"publish", "retire"}
         \/ d.pc \in {"publish", "retire"} /\ d.art = desk[h].art
         \/ desk[h].art \in interrupted'
  PROVE  Excused \subseteq Excused'
<1> SUFFICES ASSUME NEW a \in Publishing PROVE a \in Excused'
  BY DEF Excused
<1>1. CASE a \in Versions /\ run[a].pc \in {"publish", "retire"}
  BY <1>1 DEF Excused, Publishing, RunAt
<1>2. CASE \E g \in Handlers : desk[g].art = a /\ desk[g].pc \in {"publish", "retire"}
  <2>1. PICK g \in Handlers : desk[g].art = a /\ desk[g].pc \in {"publish", "retire"}
    BY <1>2
  <2>2. CASE g = h
    BY <2>1, <2>2 DEF Excused, Publishing, At, TypeOK
  <2>3. CASE g # h
    <3>1. desk'[g] = desk[g]
      BY <2>3 DEF TypeOK
    <3> QED BY <2>1, <3>1 DEF Excused, Publishing, At
  <2> QED BY <2>2, <2>3
<1> QED BY <1>1, <1>2 DEF Publishing, At, RunAt

LEMMA RunsStayExcused ==
  ASSUME TypeOK, UNCHANGED desk, interrupted \subseteq interrupted',
         \A a \in Versions :
           run[a].pc \in {"publish", "retire"} =>
             run'[a].pc \in {"publish", "retire"} \/ a \in interrupted'
  PROVE  Excused \subseteq Excused'
BY DEF Excused, Publishing, At, RunAt

\* Whoever is published newly is being published, and nobody else loses an excuse.
LEMMA StillOne ==
  ASSUME TypeOK, OnePublishedVersion, Excused \subseteq Excused',
         \A a \in Versions : status'[a] = "published" => status[a] = "published" \/ a \in Excused'
  PROVE  OnePublishedVersion'
BY DEF OnePublishedVersion, Excused

\* After the second UPDATE of a publication no other version is published.
LEMMA OnlyOne ==
  ASSUME TypeOK, NEW a \in Versions, status' = RetireOthers(status, a)
  PROVE  OnePublishedVersion'
<1>1. \A b \in Versions : b # a => status'[b] # "published"
  BY DEF RetireOthers
<1> QED BY <1>1 DEF OnePublishedVersion

LEMMA PublishedHandle ==
  ASSUME TypeOK, OnePublishedVersion, NEW h \in Handlers, Handle(h) \/ Die(h)
  PROVE  OnePublishedVersion'
<1> USE DEF tables, reviews, bounds
<1> DEFINE a == desk[h].art
<1>1. a \in Versions /\ desk \in [Handlers -> DeskState]
  BY DEF TypeOK, DeskState
<1>2. ASSUME NEW pc, Goto(h, pc), UNCHANGED <<run, interrupted>>,
             \/ desk[h].pc \notin {"publish", "retire"}
             \/ pc \in {"publish", "retire"}
      PROVE  Excused \subseteq Excused'
  <2> DEFINE d == [desk[h] EXCEPT !.pc = pc]
  <2>1. desk' = [desk EXCEPT ![h] = d] /\ d.pc = pc /\ d.art = a
    BY <1>1, <1>2 DEF Goto, DeskState
  <2> HIDE DEF d
  <2> QED BY <1>2, <2>1, HandlersStayExcused
<1>3. ASSUME Finish(h), UNCHANGED run, interrupted \subseteq interrupted',
             desk[h].pc \notin {"publish", "retire"} \/ a \in interrupted'
      PROVE  Excused \subseteq Excused'
  BY <1>3, HandlersStayExcused DEF Finish
<1>4. CASE PatchWrite(h)
  <2>1. Excused \subseteq Excused'
    BY <1>2, <1>3, <1>4 DEF PatchWrite, At
  <2>2. desk[h].to = "published" => a \in Excused'
    BY <1>1, <1>4 DEF PatchWrite, Goto, Excused, Publishing, At, DeskState
  <2> QED BY <1>4, <2>1, <2>2, StillOne DEF PatchWrite, SetStatus, TypeOK
<1>5. CASE Publish(h)
  <2>1. Excused \subseteq Excused'
    BY <1>2, <1>5 DEF Publish
  <2>2. a \in Excused'
    BY <2>1, <1>5 DEF Publish, Excused, Publishing
  <2> QED BY <1>5, <2>1, <2>2, StillOne DEF Publish, SetStatus, TypeOK
<1>6. CASE Retire(h)
  BY <1>1, <1>6, OnlyOne DEF Retire
<1>7. CASE Withdraw(h)
  <2>1. Excused \subseteq Excused'
    BY <1>2, <1>7 DEF Withdraw, At
  <2> QED BY <1>7, <2>1, StillOne DEF Withdraw
<1>8. CASE SetReview(h)
  <2>1. Excused \subseteq Excused'
    BY <1>2, <1>8 DEF SetReview, At
  <2> QED BY <1>8, <2>1, StillOne DEF SetReview, SetStatus, TypeOK
<1>9. CASE Ask(h)
  <2>1. Excused \subseteq Excused'
    <3>1. CASE desk' = [desk EXCEPT ![h].step = desk[h].step + 1]
      <4>1. desk' = [desk EXCEPT ![h] = [desk[h] EXCEPT !.step = desk[h].step + 1]]
        BY <3>1
      <4> QED BY <1>9, <4>1, HandlersStayExcused DEF Ask, At
    <3> QED BY <1>2, <1>3, <1>9, <3>1 DEF Ask, At
  <2> QED BY <1>9, <2>1, StillOne DEF Ask
<1>10. CASE Enqueue(h)
  <2>1. Excused \subseteq Excused'
    BY <1>3, <1>10 DEF Enqueue, At
  <2> QED BY <1>10, <2>1, StillOne DEF Enqueue
<1>11. CASE DecideWrite(h)
  <2>1. Excused \subseteq Excused'
    BY <1>2, <1>11 DEF DecideWrite, At
  <2> QED BY <1>11, <2>1, StillOne DEF DecideWrite
<1>12. CASE DecideSignal(h)
  <2>1. \A b \in Versions : run'[b].pc = run[b].pc
    <3> DEFINE r == [run[a] EXCEPT !.heard[desk[h].step] = desk[h].to]
    <3>1. run' = run \/ run' = [run EXCEPT ![a] = r]
      BY <1>12 DEF DecideSignal
    <3>2. r.pc = run[a].pc
      BY <1>1 DEF TypeOK, Runs
    <3> HIDE DEF r
    <3> QED BY <1>1, <3>1, <3>2 DEF TypeOK
  <2>2. desk' = [desk EXCEPT ![h] = Idle] /\ desk[h].pc = "signal" /\ UNCHANGED interrupted
    BY <1>12 DEF DecideSignal, Finish, At
  <2>3. Excused \subseteq Excused'
    BY <1>1, <2>1, <2>2 DEF Excused, Publishing, At, RunAt
  <2> QED BY <1>12, <2>3, StillOne DEF DecideSignal
<1>13. CASE VersionInsert(h)
  <2>1. Excused \subseteq Excused'
    BY <1>3, <1>13 DEF VersionInsert, At
  <2> QED BY <1>13, <2>1, StillOne DEF VersionInsert, TypeOK
<1>14. CASE Die(h)
  <2>1. Excused \subseteq Excused'
    BY <1>3, <1>14 DEF Die, At
  <2> QED BY <1>14, <2>1, StillOne DEF Die
<1> QED
  BY <1>4, <1>5, <1>6, <1>7, <1>8, <1>9, <1>10, <1>11, <1>12, <1>13, <1>14 DEF Handle

LEMMA PublishedReview ==
  ASSUME TypeOK, OnePublishedVersion,
         NEW a \in Versions, Start(a) \/ RunStep(a) \/ Repeat(a) \/ Fail(a)
  PROVE  OnePublishedVersion'
<1> USE DEF tables, reviews, bounds
<1>1. run[a] \in Runs
  BY DEF TypeOK
<1>2. ASSUME NEW r, run' = [run EXCEPT ![a] = r], UNCHANGED desk,
             interrupted \subseteq interrupted',
             \/ run[a].pc \notin {"publish", "retire"}
             \/ r.pc \in {"publish", "retire"}
             \/ a \in interrupted'
      PROVE  Excused \subseteq Excused'
  BY <1>2, RunsStayExcused DEF TypeOK
<1>3. ASSUME NEW pc, RunGoto(a, pc), UNCHANGED desk, interrupted \subseteq interrupted',
             \/ run[a].pc \notin {"publish", "retire"}
             \/ pc \in {"publish", "retire"}
             \/ a \in interrupted'
      PROVE  Excused \subseteq Excused'
  <2> DEFINE r == [run[a] EXCEPT !.pc = pc]
  <2>1. run' = [run EXCEPT ![a] = r] /\ r.pc = pc
    BY <1>1, <1>3 DEF RunGoto, Runs
  <2> HIDE DEF r
  <2> QED BY <1>2, <1>3, <2>1
<1>4. CASE Start(a)
  <2>1. Excused \subseteq Excused'
    <3>1. CASE run' = [run EXCEPT ![a] = NewRun] /\ run[a].pc \in Ended
      BY <1>2, <1>4, <3>1 DEF Start, Ended
    <3> QED BY <1>4, <3>1, RunsStayExcused DEF Start
  <2> QED BY <1>4, <2>1, StillOne DEF Start
<1>5. CASE EnterReview(a)
  <2>1. run' = [run EXCEPT ![a] = [run[a] EXCEPT !.pc = "wait", !.step = 1, !.since = age[a]]]
    BY <1>5 DEF EnterReview, TypeOK
  <2>2. Excused \subseteq Excused'
    BY <1>2, <1>5, <2>1 DEF EnterReview, RunAt
  <2> QED BY <1>5, <2>2, StillOne DEF EnterReview, SetStatus, TypeOK
<1>6. CASE Proceed(a)
  <2>1. Excused \subseteq Excused'
    BY <1>2, <1>6 DEF Proceed, RunAt
  <2> QED BY <1>6, <2>1, StillOne DEF Proceed
<1>7. CASE BackToDraft(a)
  <2>1. Excused \subseteq Excused'
    BY <1>3, <1>7 DEF BackToDraft, RunAt
  <2> QED BY <1>7, <2>1, StillOne DEF BackToDraft, SetStatus, TypeOK
<1>8. CASE PublishReviewed(a)
  <2>1. Excused \subseteq Excused'
    BY <1>3, <1>8 DEF PublishReviewed
  <2>2. a \in Excused'
    BY <1>1, <1>8 DEF PublishReviewed, RunGoto, Excused, Publishing, RunAt, TypeOK, Runs
  <2> QED BY <1>8, <2>1, <2>2, StillOne DEF PublishReviewed, SetStatus, TypeOK
<1>9. CASE RetireReplaced(a)
  BY <1>9, OnlyOne DEF RetireReplaced
<1>10. CASE Repeat(a)
  <2>1. Excused \subseteq Excused'
    BY <1>3, <1>10, RunsStayExcused DEF Repeat
  <2> QED BY <1>10, <2>1, StillOne DEF Repeat, SetStatus, TypeOK
<1>11. CASE Fail(a)
  <2>1. Excused \subseteq Excused'
    BY <1>3, <1>11 DEF Fail, CutAt
  <2> QED BY <1>11, <2>1, StillOne DEF Fail
<1> QED BY <1>4, <1>5, <1>6, <1>7, <1>8, <1>9, <1>10, <1>11 DEF RunStep

\* However many patches, submissions and reviews publish at once, two versions are
\* published together only while one of them is being published or after its
\* publication was cut in the middle.
THEOREM OneVersionIsPublished == Spec => []OnePublishedVersion
<1> USE DEF tables, reviews, bounds
<1>1. Init => OnePublishedVersion
  BY DEF Init, OnePublishedVersion
<1>2. TypeOK /\ OnePublishedVersion /\ [Next]_vars => OnePublishedVersion'
  <2> SUFFICES ASSUME TypeOK, OnePublishedVersion, [Next]_vars PROVE OnePublishedVersion'
    OBVIOUS
  <2>1. CASE UNCHANGED vars
    BY <2>1 DEF vars, OnePublishedVersion, Publishing, At, RunAt
  <2>2. ASSUME NEW h \in Handlers, NEW a \in Versions, Request(h, a)
        PROVE  OnePublishedVersion'
    <3>1. PICK d : desk' = [desk EXCEPT ![h] = d]
      BY <2>2, Zenon DEF Request, PatchRead, SubmitRead, DecideRead, VersionRead, Begin
    <3>2. desk[h].pc = "idle" /\ UNCHANGED <<status, run, interrupted>>
      BY <2>2 DEF Request, PatchRead, SubmitRead, DecideRead, VersionRead, Begin
    <3> QED BY <3>1, <3>2, HandlersStayExcused, StillOne
  <2>3. CASE Day
    <3>1. \A a \in Versions : run[a].pc \in {"publish", "retire"} =>
            run'[a].pc \in {"publish", "retire"} \/ a \in interrupted'
      BY <2>3 DEF Day, CutAt
    <3>2. Excused \subseteq Excused'
      BY <2>3, <3>1, RunsStayExcused DEF Day
    <3> QED BY <2>3, <3>2, StillOne DEF Day
  <2> QED BY <2>1, <2>2, <2>3, PublishedHandle, PublishedReview DEF Next
<1> QED BY <1>1, <1>2, KnowledgeTypeCorrect, PTL DEF Spec
=============================================================================
