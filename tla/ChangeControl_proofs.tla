------------------------- MODULE ChangeControl_proofs -------------------------
(***************************************************************************)
(* For any changes, handlers, windows and numbers of approvals: the        *)
(* variables keep their types, nobody whose approval is pending is passed  *)
(* over, and changes of high risk are not scheduled into one window.       *)
(***************************************************************************)
EXTENDS ChangeControl, TLAPS

Moving  == {"weigh", "count", "withdraw", "existing", "ask", "write"}
Touched == patched \cup late \cup hasty

\* A handler on its way to a status past the approvals.
Passing(d) ==
  \/ d.pc = "admit"
  \/ d.pc \in {"weigh", "count", "write"} /\ d.act \in Actions /\ Target[d.act] \in Past

\* A handler knows where it is going.
OnItsWay(d) ==
  /\ d.pc \in Moving => d.act \in Actions
  /\ d.pc \in {"weigh", "count"} => d.act \in {"schedule", "request_approval"}
  /\ d.pc \in {"existing", "ask"} => d.act = "request_approval"
  /\ d.pc = "withdraw" => d.act = "submit_assessment"
  /\ d.act = "schedule" => d.win \in Windows
  /\ d.pc = "ask" => d.left > 0

\* What a handler has seen of its change is still true, unless the change was touched.
StillTrue(d) ==
  /\ d.act = "submit_assessment" => d.ch \in patched
  /\ d.pc = "decide" => approvals[d.ch][d.row] # "none"
  /\ d.ch \notin Touched =>
       /\ Passing(d) => status[d.ch] # "assessment" /\ PendingRows(d.ch) = {}
       /\ d.pc \in {"refuse", "tally"} => status[d.ch] # "assessment"
       /\ d.pc = "write" /\ d.act = "request_approval" /\ status[d.ch] = "assessment" =>
            Rows(d.ch) # {}

DeskInv == \A h \in Handlers : OnItsWay(desk[h]) /\ StillTrue(desk[h])

\* Nobody decides about a change that is being assessed.
Undecided ==
  \A c \in Changes \ Touched :
    status[c] = "assessment" => \A r \in Approvals : approvals[c][r] \in {"none", "pending"}

\* Nothing but a patch makes a change a draft.
Drafts == \A c \in Changes : status[c] = "draft" => c \in patched

ChangeInv == TypeOK /\ DeskInv /\ Undecided /\ Drafts /\ ApprovalsDecide

-----------------------------------------------------------------------------
(***************************************************************************)
(* The initial states.                                                     *)
(***************************************************************************)

LEMMA ActionsAre ==
  /\ Actions = {"submit_assessment", "request_approval", "approve", "reject", "start_planning",
                "schedule", "start_implementation", "mark_implemented", "start_review", "close",
                "cancel"}
  /\ Target["submit_assessment"] = "assessment"
  /\ Target["request_approval"] = "pending_approval"
  /\ Target["approve"] = "approved"
  /\ Target["reject"] = "rejected"
  /\ Target["start_planning"] = "planning"
  /\ Target["schedule"] = "scheduled"
  /\ Target["start_implementation"] = "implementing"
  /\ Target["mark_implemented"] = "implemented"
  /\ Target["start_review"] = "reviewing"
  /\ Target["close"] = "closed"
  /\ Target["cancel"] = "cancelled"
BY DEF Actions, Target

LEMMA StatusesAre ==
  /\ Statuses = {"draft", "assessment", "pending_approval", "approved", "rejected", "planning",
                 "scheduled", "implementing", "implemented", "reviewing", "closed", "cancelled"}
  /\ \A a \in Actions : Target[a] \in Statuses
<1>1. Statuses = {"draft", "assessment", "pending_approval", "approved", "rejected", "planning",
                  "scheduled", "implementing", "implemented", "reviewing", "closed", "cancelled"}
  BY ActionsAre DEF Statuses
<1> QED BY <1>1 DEF Statuses

\* An idle handler stands at some change.
LEMMA IdleType ==
  /\ Idle \in DeskType
  /\ Idle.pc = "idle" /\ Idle.act = "other" /\ Idle.fresh = FALSE /\ Idle.win = "none"
<1>1. 1 \in Approvals /\ 0 \in 0..Required
  BY ChangeAssumption DEF Approvals
<1>2. (CHOOSE c \in Changes : TRUE) \in Changes
  BY ChangeAssumption
<1> QED BY <1>1, <1>2 DEF Idle, DeskType, DeskPCs

LEMMA IdleGood == OnItsWay(Idle) /\ StillTrue(Idle)
BY IdleType, ActionsAre DEF OnItsWay, StillTrue, Passing, Moving

LEMMA InitInv == Init => ChangeInv
<1> SUFFICES ASSUME Init PROVE ChangeInv
  OBVIOUS
<1> DEFINE Given == {NoApprovals, Asked("pending"), Asked("approved")}
<1>1. \A c \in Changes :
        \/ status[c] = "assessment" /\ approvals[c] = NoApprovals
        \/ status[c] = "pending_approval" /\ approvals[c] = Asked("pending")
        \/ status[c] = "planning" /\ approvals[c] = Asked("approved")
  BY DEF Init
<1>2. Given \subseteq [Approvals -> RowStates]
  BY DEF NoApprovals, Asked, RowStates
<1>3. \A g \in Given, r \in Approvals : g[r] # "none" => \A q \in 1..r : g[q] # "none"
  BY ChangeAssumption DEF NoApprovals, Asked, Approvals
<1>4. approvals \in [Changes -> [Approvals -> RowStates]]
  BY <1>1, <1>2 DEF Init
<1>5. \A c \in Changes, r \in Approvals :
        approvals[c][r] # "none" => \A q \in 1..r : approvals[c][q] # "none"
  BY <1>1, <1>3
<1>6. TypeOK
  <2>1. status \in [Changes -> Statuses]
    BY StatusesAre DEF Init
  <2>2. desk \in [Handlers -> DeskType] /\ \A h \in Handlers : desk[h].pc # "ask"
    BY IdleType DEF Init
  <2> QED BY <1>4, <1>5, <2>1, <2>2 DEF Init, TypeOK
<1>7. DeskInv
  BY IdleGood DEF Init, DeskInv
<1>8. Undecided
  BY <1>1 DEF Undecided, NoApprovals
<1>9. ApprovalsDecide
  <2>1. 1 \in Approvals /\ 1 <= Required
    BY ChangeAssumption DEF Approvals
  <2>2. ASSUME NEW c \in Changes, status[c] = "pending_approval" PROVE 1 \in PendingRows(c)
    BY <1>1, <2>1, <2>2 DEF PendingRows, Asked
  <2>3. ASSUME NEW c \in Changes, status[c] \in Past PROVE PendingRows(c) = {}
    <3>1. approvals[c] = Asked("approved")
      BY <1>1, <2>3 DEF Past, Live
    <3> QED BY <3>1 DEF PendingRows, Asked
  <2> QED BY <2>2, <2>3 DEF ApprovalsDecide
<1>10. Drafts
  BY <1>1 DEF Drafts
<1> QED BY <1>6, <1>7, <1>8, <1>9, <1>10 DEF ChangeInv

-----------------------------------------------------------------------------
(***************************************************************************)
(* Type correctness.                                                       *)
(***************************************************************************)

\* Handlers keep their type when one of them moves on and others lose what they had
\* looked up.
LEMMA DeskMoves ==
  ASSUME TypeOK, NEW h \in Handlers, NEW d \in DeskType, d.pc = "ask" => d.left > 0
  PROVE  /\ desk' = [desk EXCEPT ![h] = d] =>
              /\ desk' \in [Handlers -> DeskType]
              /\ \A g \in Handlers : desk'[g].pc = "ask" => desk'[g].left > 0
         /\ desk' = Outdated(h, d) =>
              /\ desk' \in [Handlers -> DeskType]
              /\ \A g \in Handlers : desk'[g].pc = "ask" => desk'[g].left > 0
         /\ \A w : RefreshConflicts(h, w, d) =>
              /\ desk' \in [Handlers -> DeskType]
              /\ \A g \in Handlers : desk'[g].pc = "ask" => desk'[g].left > 0
<1>1. desk \in [Handlers -> DeskType] /\ \A g \in Handlers : desk[g].pc = "ask" => desk[g].left > 0
  BY DEF TypeOK
<1>2. CASE desk' = [desk EXCEPT ![h] = d]
  BY <1>1, <1>2
<1>3. ASSUME NEW g \in Handlers, NEW b \in BOOLEAN
      PROVE  /\ [desk[g] EXCEPT !.fresh = b] \in DeskType
             /\ [desk[g] EXCEPT !.fresh = b].pc = desk[g].pc
             /\ [desk[g] EXCEPT !.fresh = b].left = desk[g].left
  BY <1>1, <1>3 DEF DeskType
<1>4. CASE desk' = Outdated(h, d)
  BY <1>1, <1>3, <1>4 DEF Outdated
<1>5. ASSUME NEW w, RefreshConflicts(h, w, d)
      PROVE  /\ desk' \in [Handlers -> DeskType]
             /\ \A g \in Handlers : desk'[g].pc = "ask" => desk'[g].left > 0
  <2>1. \A g \in Handlers : (desk[g].fresh /\ desk[g].ch # desk[h].ch) \in BOOLEAN
    BY Zenon
  <2>2. \A g \in Handlers :
          desk'[g] = IF g = h THEN d
                     ELSE [desk[g] EXCEPT !.fresh = desk[g].fresh /\ desk[g].ch # desk[h].ch]
    BY <1>5 DEF RefreshConflicts
  <2>3. DOMAIN desk' = Handlers /\ desk' = [g \in Handlers |-> desk'[g]]
    BY <1>5 DEF RefreshConflicts
  <2>4. \A g \in Handlers :
          desk'[g] \in DeskType /\ (desk'[g].pc = "ask" => desk'[g].left > 0)
    <3> TAKE g \in Handlers
    <3>1. PICK b \in BOOLEAN : desk'[g] = IF g = h THEN d ELSE [desk[g] EXCEPT !.fresh = b]
      BY <2>1, <2>2, Zenon
    <3> QED BY <1>1, <1>3, <3>1
  <2> QED BY <2>3, <2>4
<1> QED BY <1>2, <1>4, <1>5

\* The statements that write the tables.
LEMMA RowType ==
  ASSUME TypeOK, NEW c \in Changes, NEW r \in Approvals, NEW x \in RowStates \ {"none"},
         approvals' = [approvals EXCEPT ![c][r] = x],
         NextRow(c, r) \/ approvals[c][r] # "none"
  PROVE  /\ approvals' \in [Changes -> [Approvals -> RowStates]]
         /\ \A d \in Changes, q \in Approvals :
              approvals'[d][q] # "none" => \A p \in 1..q : approvals'[d][p] # "none"
<1>1. /\ approvals \in [Changes -> [Approvals -> RowStates]]
      /\ \A d \in Changes, q \in Approvals :
           approvals[d][q] # "none" => \A p \in 1..q : approvals[d][p] # "none"
  BY DEF TypeOK
<1>2. [approvals[c] EXCEPT ![r] = x] \in [Approvals -> RowStates]
  BY <1>1
<1>3. approvals' \in [Changes -> [Approvals -> RowStates]]
  BY <1>1, <1>2
<1>4. \A p \in 1..r : p \in Approvals /\ (p # r => approvals[c][p] # "none")
  <2>1. \A p \in 1..r : p \in Approvals /\ (p # r => ~(r <= p))
    BY ChangeAssumption DEF Approvals
  <2>2. CASE NextRow(c, r)
    BY <2>1, <2>2 DEF NextRow
  <2>3. CASE approvals[c][r] # "none"
    BY <1>1, <2>1, <2>3
  <2> QED BY <2>2, <2>3
<1>5. \A q \in Approvals : \A p \in 1..q : p \in Approvals
  BY ChangeAssumption DEF Approvals
<1> SUFFICES ASSUME NEW d \in Changes, NEW q \in Approvals, approvals'[d][q] # "none",
                    NEW p \in 1..q
             PROVE  approvals'[d][p] # "none"
  BY <1>3
<1>6. CASE d = c /\ q = r
  BY <1>1, <1>4, <1>6
<1>7. CASE d = c /\ q # r
  <2>1. approvals[d][q] # "none"
    BY <1>1, <1>7
  <2>2. approvals[d][p] # "none"
    BY <1>1, <2>1
  <2> QED BY <1>1, <1>5, <1>7, <2>2
<1>8. CASE d # c
  BY <1>1, <1>8
<1> QED BY <1>6, <1>7, <1>8

LEMMA RequestType ==
  ASSUME TypeOK, NEW h \in Handlers, NEW c \in Changes, Request(h, c)
  PROVE  TypeOK'
<1> USE DEF tables, history
<1>1. Idle \in DeskType /\ Idle.pc = "idle"
  BY IdleType
<1>2. ASSUME NEW d \in DeskType, d.pc # "ask", Begin(h, d)
      PROVE  /\ desk' \in [Handlers -> DeskType] /\ events' \in Nat
             /\ \A g \in Handlers : desk'[g].pc = "ask" => desk'[g].left > 0
  BY <1>2, DeskMoves DEF Begin, Event, TypeOK
<1>3. ASSUME NEW act \in Actions, NEW w \in Windows \cup {"none"}, NEW override \in BOOLEAN,
             Transition(h, c, act, w, override)
      PROVE  TypeOK'
  <2>1. FirstStep(act) \in DeskPCs \ {"ask"}
    BY DEF FirstStep, DeskPCs
  <2> DEFINE d == [Idle EXCEPT !.pc = FirstStep(act), !.ch = c, !.act = act, !.win = w,
                               !.override = override]
  <2>2. d \in DeskType /\ d.pc # "ask"
    BY <1>1, <2>1 DEF DeskType
  <2>3. Begin(h, d)
    BY <1>3 DEF Transition
  <2> HIDE DEF d
  <2> QED BY <1>2, <1>3, <2>2, <2>3 DEF Transition, TypeOK
<1>4. ASSUME NEW r \in Approvals, NEW verdict \in {"approved", "rejected"},
             DecideRead(h, c, r, verdict)
      PROVE  TypeOK'
  <2> DEFINE d == [Idle EXCEPT !.pc = "decide", !.ch = c, !.row = r, !.verdict = verdict]
  <2>1. d \in DeskType /\ d.pc # "ask"
    BY <1>1 DEF DeskType, DeskPCs
  <2>2. Begin(h, d)
    BY <1>4 DEF DecideRead
  <2> HIDE DEF d
  <2> QED BY <1>2, <1>4, <2>1, <2>2 DEF DecideRead, TypeOK
<1>5. ASSUME NEW to \in Statuses, NEW w \in Windows, Patch(h, c, to, w)
      PROVE  TypeOK'
  <2> DEFINE d == [Idle EXCEPT !.pc = "refresh", !.ch = c]
  <2>1. d \in DeskType /\ d.pc # "ask"
    BY <1>1 DEF DeskType, DeskPCs
  <2>2. desk' = Outdated(h, d)
    BY <1>5 DEF Patch
  <2> HIDE DEF d
  <2>3. /\ desk' \in [Handlers -> DeskType]
        /\ \A g \in Handlers : desk'[g].pc = "ask" => desk'[g].left > 0
    BY <2>1, <2>2, DeskMoves
  <2>4. status' \in [Changes -> Statuses] /\ window' \in [Changes -> Windows] /\ events' \in Nat
    BY <1>5 DEF Patch, Event, TypeOK
  <2> QED BY <1>5, <2>3, <2>4 DEF Patch, TypeOK
<1> QED BY <1>3, <1>4, <1>5 DEF Request

LEMMA HandleType ==
  ASSUME TypeOK, DeskInv, NEW h \in Handlers, Handle(h) \/ Die(h)
  PROVE  TypeOK'
<1> USE DEF tables, history
<1> DEFINE d == desk[h]
           c == d.ch
<1>1. /\ d \in DeskType /\ c \in Changes /\ d.row \in Approvals
      /\ d.win \in Windows \cup {"none"} /\ d.verdict \in {"approved", "rejected"}
  BY DEF TypeOK, DeskType
<1>2. OnItsWay(d) /\ StillTrue(d)
  BY DEF DeskInv
<1>3. Idle \in DeskType /\ Idle.pc = "idle"
  BY IdleType
<1> DEFINE Desks == /\ desk' \in [Handlers -> DeskType]
                    /\ \A g \in Handlers : desk'[g].pc = "ask" => desk'[g].left > 0
<1>4. ASSUME Finish(h) PROVE Desks
  BY <1>3, <1>4, DeskMoves DEF Finish
<1>5. ASSUME NEW pc \in DeskPCs \ {"ask"}, Goto(h, pc) PROVE Desks
  <2>1. [d EXCEPT !.pc = pc] \in DeskType /\ [d EXCEPT !.pc = pc].pc # "ask"
    BY <1>1 DEF DeskType
  <2> QED BY <1>5, <2>1, DeskMoves DEF Goto
<1>6. ASSUME NEW w, NEW e \in DeskType, e.pc # "ask", RefreshConflicts(h, w, e)
      PROVE  Desks /\ blocked' \subseteq Changes
  <2>1. Desks
    BY <1>6, DeskMoves
  <2> QED BY <1>1, <1>6, <2>1 DEF RefreshConflicts, TypeOK
<1>7. ASSUME NEW e \in DeskType, e.pc # "ask", desk' = Outdated(h, e) PROVE Desks
  BY <1>7, DeskMoves
<1>8. ASSUME NEW e \in DeskType, e.pc # "ask", desk' = [desk EXCEPT ![h] = e] PROVE Desks
  BY <1>8, DeskMoves
<1>9. CASE Weigh(h)
  <2> DEFINE e == [d EXCEPT !.pc = "count", !.fresh = TRUE]
  <2>1. e \in DeskType /\ e.pc # "ask"
    BY <1>1 DEF DeskType, DeskPCs
  <2>2. RefreshConflicts(h, IF d.act = "schedule" THEN d.win ELSE window[c], e)
    BY <1>9 DEF Weigh
  <2> HIDE DEF e
  <2>3. Desks /\ blocked' \subseteq Changes
    BY <1>6, <2>1, <2>2
  <2> QED BY <1>9, <2>3 DEF Weigh, TypeOK
<1>10. CASE Count(h)
  <2>1. Desks
    BY <1>4, <1>5, <1>10 DEF Count, DeskPCs
  <2> QED BY <1>10, <2>1 DEF Count, TypeOK
<1>11. CASE Withdraw(h)
  <2>1. Desks
    BY <1>5, <1>11 DEF Withdraw, DeskPCs
  <2> DEFINE f == [r \in Approvals |-> IF r \in Rows(c) THEN "deleted" ELSE approvals[c][r]]
  <2>2. f \in [Approvals -> RowStates] /\ \A r \in Approvals : f[r] = "none" <=> approvals[c][r] = "none"
    BY <1>1 DEF Rows, RowStates, TypeOK
  <2>3. approvals' = [approvals EXCEPT ![c] = f]
    BY <1>11 DEF Withdraw
  <2> HIDE DEF f
  <2>4. approvals' \in [Changes -> [Approvals -> RowStates]]
    BY <2>2, <2>3 DEF TypeOK
  <2>5. \A x \in Changes, r \in Approvals : approvals'[x][r] = "none" <=> approvals[x][r] = "none"
    BY <1>1, <2>2, <2>3 DEF TypeOK
  <2>6. \A x \in Changes, r \in Approvals :
          approvals'[x][r] # "none" => \A q \in 1..r : approvals'[x][q] # "none"
    <3>1. \A r \in Approvals : \A q \in 1..r : q \in Approvals
      BY ChangeAssumption DEF Approvals
    <3> QED BY <2>5, <3>1 DEF TypeOK
  <2> QED BY <1>11, <2>1, <2>4, <2>6 DEF Withdraw, TypeOK
<1>12. CASE Existing(h)
  <2> DEFINE pc == IF Rows(c) = {} THEN "ask" ELSE "write"
             n  == IF Rows(c) = {} THEN Required ELSE 0
             e  == [d EXCEPT !.pc = pc, !.left = n]
  <2>0. pc \in DeskPCs /\ n \in 0..Required /\ (pc = "ask" => n > 0)
    BY ChangeAssumption DEF DeskPCs
  <2>1. e \in DeskType /\ (e.pc = "ask" => e.left > 0)
    <3> HIDE DEF pc, n
    <3> QED BY <1>1, <2>0 DEF DeskType
  <2>2. desk' = [desk EXCEPT ![h] = e]
    BY <1>12 DEF Existing, TypeOK
  <2> HIDE DEF e
  <2>3. Desks
    BY <2>1, <2>2, DeskMoves
  <2> QED BY <1>12, <2>3 DEF Existing, TypeOK
<1>13. CASE Ask(h)
  <2> DEFINE pc == IF d.left = 1 THEN "write" ELSE "ask"
             e  == [d EXCEPT !.pc = pc, !.left = d.left - 1]
  <2>1. d.left \in 1..Required
    BY <1>1, <1>2, <1>13, ChangeAssumption DEF Ask, At, OnItsWay, DeskType
  <2>0. /\ pc \in DeskPCs /\ d.left - 1 \in 0..Required
        /\ (pc = "ask" => d.left - 1 > 0)
    BY <2>1, ChangeAssumption DEF DeskPCs
  <2>2. e \in DeskType /\ (e.pc = "ask" => e.left > 0)
    <3> HIDE DEF pc
    <3> QED BY <1>1, <2>0 DEF DeskType
  <2>3. desk' = [desk EXCEPT ![h] = e]
    BY <1>13 DEF Ask, At, TypeOK
  <2> HIDE DEF e
  <2>4. Desks
    BY <2>2, <2>3, DeskMoves
  <2>5. /\ approvals' \in [Changes -> [Approvals -> RowStates]]
        /\ \A x \in Changes, q \in Approvals :
             approvals'[x][q] # "none" => \A p \in 1..q : approvals'[x][p] # "none"
    <3>1. PICK r \in Approvals : NextRow(c, r) /\ approvals' = [approvals EXCEPT ![c][r] = "pending"]
      BY <1>13 DEF Ask
    <3>2. "pending" \in RowStates \ {"none"}
      BY DEF RowStates
    <3> QED BY <1>1, <3>1, <3>2, RowType
  <2>6. late' \subseteq Changes
    BY <1>1, <1>13 DEF Ask, TypeOK
  <2> QED BY <1>13, <2>4, <2>5, <2>6 DEF Ask, TypeOK
<1>14. CASE WriteStatus(h)
  <2> DEFINE e == [Idle EXCEPT !.pc = "refresh", !.ch = c]
  <2>1. e \in DeskType /\ e.pc # "ask"
    BY <1>1, <1>3 DEF DeskType, DeskPCs
  <2>2. desk' = Outdated(h, e)
    BY <1>14 DEF WriteStatus
  <2> HIDE DEF e
  <2>3. Desks
    BY <1>7, <2>1, <2>2
  <2>4. Target[d.act] \in Statuses
    BY <1>2, <1>14, StatusesAre DEF WriteStatus, At, OnItsWay, Moving
  <2>5. status' \in [Changes -> Statuses] /\ window' \in [Changes -> Windows]
    BY <1>1, <1>14, <2>4 DEF WriteStatus, TypeOK
  <2>6. c \in Changes
    BY <1>1
  <2>7. late' \subseteq Changes
    BY <1>14, <2>6 DEF WriteStatus, TypeOK
  <2>8. raced' \subseteq Changes
    BY <1>14, <2>6 DEF WriteStatus, TypeOK
  <2>9. UNCHANGED <<approvals, blocked, patched, hasty, cut, events>>
    BY <1>14 DEF WriteStatus
  <2> QED BY <2>3, <2>5, <2>7, <2>8, <2>9 DEF TypeOK
<1>15. CASE Refresh(h)
  <2>1. Desks /\ blocked' \subseteq Changes
    BY <1>3, <1>6, <1>15 DEF Refresh
  <2> QED BY <1>15, <2>1 DEF Refresh, TypeOK
<1>16. CASE Decide(h)
  <2> DEFINE e == [Idle EXCEPT !.ch = c, !.pc = IF d.verdict = "rejected" THEN "refuse" ELSE "tally"]
             x == IF approvals[c][d.row] = "deleted" THEN "deleted" ELSE d.verdict
  <2>1. e \in DeskType /\ e.pc # "ask"
    BY <1>1, <1>3 DEF DeskType, DeskPCs
  <2>2. desk' = [desk EXCEPT ![h] = e]
    BY <1>16 DEF Decide
  <2> HIDE DEF e
  <2>3. Desks
    BY <1>8, <2>1, <2>2
  <2>4. x \in RowStates \ {"none"}
    BY <1>1 DEF RowStates
  <2>5. approvals' = [approvals EXCEPT ![c][d.row] = x]
    BY <1>1, <1>16 DEF Decide, TypeOK
  <2>6. approvals[c][d.row] # "none"
    BY <1>2, <1>16 DEF Decide, At, StillTrue
  <2> HIDE DEF x
  <2>7. /\ approvals' \in [Changes -> [Approvals -> RowStates]]
        /\ \A y \in Changes, q \in Approvals :
             approvals'[y][q] # "none" => \A p \in 1..q : approvals'[y][p] # "none"
    BY <1>1, <2>4, <2>5, <2>6, RowType
  <2>8. hasty' \subseteq Changes
    BY <1>1, <1>16 DEF Decide, TypeOK
  <2> QED BY <1>16, <2>3, <2>7, <2>8 DEF Decide, TypeOK
<1>17. ASSUME NEW to \in Statuses, Move(h, to) PROVE TypeOK'
  <2>1. Desks
    BY <1>3, <1>7, <1>17 DEF Move
  <2>2. status' \in [Changes -> Statuses]
    BY <1>1, <1>17 DEF Move, TypeOK
  <2> QED BY <1>17, <2>1, <2>2 DEF Move, TypeOK
<1>18. CASE Refuse(h) \/ Admit(h)
  BY <1>17, <1>18, StatusesAre DEF Refuse, Admit
<1>19. CASE Tally(h)
  <2>1. Desks
    BY <1>4, <1>5, <1>19 DEF Tally, DeskPCs
  <2> QED BY <1>19, <2>1 DEF Tally, TypeOK
<1>20. CASE Die(h)
  <2>1. Desks /\ cut' \subseteq Changes /\ events' \in Nat
    BY <1>1, <1>4, <1>20 DEF Die, Event, TypeOK
  <2> QED BY <1>20, <2>1 DEF Die, TypeOK
<1> QED
  BY <1>9, <1>10, <1>11, <1>12, <1>13, <1>14, <1>15, <1>16, <1>18, <1>19, <1>20 DEF Handle

LEMMA TypeStep == ASSUME ChangeInv, [Next]_vars PROVE TypeOK'
<1>1. CASE UNCHANGED vars
  BY <1>1 DEF ChangeInv, TypeOK, vars, tables, history
<1> QED BY <1>1, RequestType, HandleType DEF ChangeInv, Next

-----------------------------------------------------------------------------
(***************************************************************************)
(* What a step leaves true.                                                *)
(***************************************************************************)

\* Most steps of a handler leave status, windows, approvals and history alone.
LEMMA WhoWrites ==
  ASSUME [Next]_vars
  PROVE  \/ \E h \in Handlers : \/ Withdraw(h) \/ Ask(h) \/ WriteStatus(h) \/ Decide(h)
                              \/ Refuse(h) \/ Admit(h) \/ Die(h)
         \/ \E h \in Handlers, c \in Changes, to \in Statuses, w \in Windows : Patch(h, c, to, w)
         \/ UNCHANGED <<status, window, approvals, history>>
<1> USE DEF tables
<1>1. ASSUME NEW h \in Handlers, NEW c \in Changes, Request(h, c)
      PROVE  \/ \E to \in Statuses, w \in Windows : Patch(h, c, to, w)
             \/ UNCHANGED <<status, window, approvals, history>>
  <2>1. CASE \E act \in Actions, w \in Windows \cup {"none"}, override \in BOOLEAN :
               Transition(h, c, act, w, override)
    BY <2>1 DEF Transition
  <2>2. CASE \E r \in Approvals, verdict \in {"approved", "rejected"} : DecideRead(h, c, r, verdict)
    BY <2>2 DEF DecideRead
  <2> QED BY <1>1, <2>1, <2>2 DEF Request
<1>2. ASSUME NEW h \in Handlers, Weigh(h) \/ Count(h) \/ Existing(h) \/ Refresh(h) \/ Tally(h)
      PROVE  UNCHANGED <<status, window, approvals, history>>
  BY <1>2 DEF Weigh, Count, Existing, Refresh, Tally
<1>3. ASSUME NEW h \in Handlers, Handle(h)
      PROVE  \/ Withdraw(h) \/ Ask(h) \/ WriteStatus(h) \/ Decide(h) \/ Refuse(h) \/ Admit(h)
             \/ UNCHANGED <<status, window, approvals, history>>
  BY <1>2, <1>3 DEF Handle
<1>4. CASE UNCHANGED vars
  BY <1>4 DEF vars
<1> QED BY <1>1, <1>3, <1>4 DEF Next

LEMMA HistoryGrows ==
  ASSUME [Next]_vars
  PROVE  /\ patched \subseteq patched' /\ late \subseteq late' /\ hasty \subseteq hasty'
         /\ cut \subseteq cut'
<1> USE DEF tables, history
<1>1. CASE \E h \in Handlers : Ask(h) \/ WriteStatus(h) \/ Decide(h)
  BY <1>1 DEF Ask, WriteStatus, Decide
<1>2. CASE \E h \in Handlers, c \in Changes, to \in Statuses, w \in Windows : Patch(h, c, to, w)
  BY <1>2 DEF Patch
<1>3. CASE \E h \in Handlers : Die(h)
  BY <1>3 DEF Die
<1>4. CASE \E h \in Handlers : Withdraw(h) \/ Refuse(h) \/ Admit(h)
  BY <1>4 DEF Withdraw, Refuse, Admit, Move
<1>5. CASE UNCHANGED history
  BY <1>5
<1> QED BY <1>1, <1>2, <1>3, <1>4, <1>5, WhoWrites

\* How approvals may change.
LEMMA ApprovalMoves ==
  ASSUME TypeOK, DeskInv, [Next]_vars, NEW c \in Changes
  PROVE  \/ approvals'[c] = approvals[c]
         \/ c \in patched' /\ \A r \in Approvals : approvals[c][r] # "none" => approvals'[c][r] # "none"
         \/ /\ status[c] # "assessment" => c \in late'
            /\ \E r \in Approvals : NextRow(c, r) /\ approvals'[c] = [approvals[c] EXCEPT ![r] = "pending"]
         \/ /\ status[c] # "pending_approval" => c \in hasty'
            /\ \E r \in Approvals : \E x \in {"deleted", "approved", "rejected"} :
                 approvals[c][r] # "none" /\ approvals'[c] = [approvals[c] EXCEPT ![r] = x]
            /\ \E h \in Handlers : desk'[h].ch = c /\ desk'[h].pc \in {"refuse", "tally"}
<1> USE DEF tables, history
<1>1. ASSUME NEW h \in Handlers, Withdraw(h), desk[h].ch = c
      PROVE  c \in patched' /\ \A r \in Approvals : approvals[c][r] # "none" => approvals'[c][r] # "none"
  <2>1. c \in patched'
    BY <1>1 DEF Withdraw, At, DeskInv, OnItsWay, StillTrue
  <2>2. approvals'[c] = [r \in Approvals |-> IF r \in Rows(c) THEN "deleted" ELSE approvals[c][r]]
    BY <1>1 DEF Withdraw, TypeOK
  <2> QED BY <2>1, <2>2
<1>2. ASSUME NEW h \in Handlers, Ask(h), desk[h].ch = c
      PROVE  /\ status[c] # "assessment" => c \in late'
             /\ \E r \in Approvals : NextRow(c, r) /\ approvals'[c] = [approvals[c] EXCEPT ![r] = "pending"]
  <2>1. PICK r \in Approvals : NextRow(c, r) /\ approvals' = [approvals EXCEPT ![c][r] = "pending"]
    BY <1>2 DEF Ask
  <2>2. approvals'[c] = [approvals[c] EXCEPT ![r] = "pending"]
    BY <2>1 DEF TypeOK
  <2> QED BY <1>2, <2>1, <2>2 DEF Ask
<1>3. ASSUME NEW h \in Handlers, Decide(h), desk[h].ch = c
      PROVE  /\ status[c] # "pending_approval" => c \in hasty'
             /\ \E r \in Approvals : \E x \in {"deleted", "approved", "rejected"} :
                  approvals[c][r] # "none" /\ approvals'[c] = [approvals[c] EXCEPT ![r] = x]
             /\ desk'[h].ch = c /\ desk'[h].pc \in {"refuse", "tally"}
  <2> DEFINE r == desk[h].row
             x == IF approvals[c][r] = "deleted" THEN "deleted" ELSE desk[h].verdict
  <2>1. r \in Approvals /\ approvals[c][r] # "none" /\ desk[h].verdict \in {"approved", "rejected"}
    BY <1>3 DEF Decide, At, DeskInv, StillTrue, TypeOK, DeskType
  <2>2. approvals'[c] = [approvals[c] EXCEPT ![r] = x]
    BY <1>3 DEF Decide, TypeOK
  <2>3. desk'[h].ch = c /\ desk'[h].pc \in {"refuse", "tally"}
    BY <1>3 DEF Decide, TypeOK, Idle
  <2>4. x \in {"deleted", "approved", "rejected"}
    BY <2>1
  <2>5. status[c] # "pending_approval" => c \in hasty'
    BY <1>3 DEF Decide
  <2> QED BY <2>1, <2>2, <2>3, <2>4, <2>5
<1>4. ASSUME NEW h \in Handlers, Withdraw(h) \/ Ask(h) \/ Decide(h), desk[h].ch # c
      PROVE  approvals'[c] = approvals[c]
  BY <1>4 DEF Withdraw, Ask, Decide, TypeOK
<1>5. (\E h \in Handlers : Withdraw(h) \/ Ask(h) \/ Decide(h)) \/ UNCHANGED approvals
  <2>1. ASSUME NEW h \in Handlers, WriteStatus(h) \/ Refuse(h) \/ Admit(h) \/ Die(h)
        PROVE  UNCHANGED approvals
    BY <2>1 DEF WriteStatus, Refuse, Admit, Move, Die
  <2>2. ASSUME NEW h \in Handlers, NEW d \in Changes, NEW to \in Statuses, NEW w \in Windows,
               Patch(h, d, to, w)
        PROVE  UNCHANGED approvals
    BY <2>2 DEF Patch
  <2> QED BY <2>1, <2>2, WhoWrites
<1>6. CASE UNCHANGED approvals
  BY <1>6
<1> QED BY <1>1, <1>2, <1>3, <1>4, <1>5, <1>6

\* How a status may change.
LEMMA StatusMovesTo ==
  ASSUME TypeOK, DeskInv, [Next]_vars, NEW c \in Changes
  PROVE  \/ status'[c] = status[c]
         \/ c \in patched'
         \/ \E h \in Handlers : At(h, "refuse") /\ desk[h].ch = c /\ status'[c] = "rejected"
         \/ \E h \in Handlers : At(h, "admit") /\ desk[h].ch = c /\ status'[c] = "approved"
         \/ \E h \in Handlers :
              /\ At(h, "write") /\ desk[h].ch = c
              /\ status'[c] = Target[desk[h].act] /\ desk[h].act # "submit_assessment"
              /\ desk[h].act = "request_approval" /\ status[c] # "assessment" => c \in late'
<1> USE DEF tables, history
<1>1. ASSUME NEW h \in Handlers, WriteStatus(h), desk[h].ch = c
      PROVE  \/ c \in patched'
             \/ /\ At(h, "write") /\ status'[c] = Target[desk[h].act]
                /\ desk[h].act # "submit_assessment"
                /\ desk[h].act = "request_approval" /\ status[c] # "assessment" => c \in late'
  BY <1>1 DEF WriteStatus, DeskInv, StillTrue, TypeOK
<1>2. ASSUME NEW h \in Handlers, Refuse(h), desk[h].ch = c
      PROVE  At(h, "refuse") /\ status'[c] = "rejected"
  BY <1>2 DEF Refuse, Move, TypeOK
<1>3. ASSUME NEW h \in Handlers, Admit(h), desk[h].ch = c
      PROVE  At(h, "admit") /\ status'[c] = "approved"
  BY <1>3 DEF Admit, Move, TypeOK
<1>4. ASSUME NEW h \in Handlers, WriteStatus(h) \/ Refuse(h) \/ Admit(h), desk[h].ch # c
      PROVE  status'[c] = status[c]
  BY <1>4 DEF WriteStatus, Refuse, Admit, Move, TypeOK
<1>5. ASSUME NEW h \in Handlers, NEW d \in Changes, NEW to \in Statuses, NEW w \in Windows,
             Patch(h, d, to, w)
      PROVE  status'[c] = status[c] \/ c \in patched'
  BY <1>5 DEF Patch, TypeOK
<1>6. CASE UNCHANGED status
  BY <1>6
<1>7. ASSUME NEW h \in Handlers, Withdraw(h) \/ Ask(h) \/ Decide(h) \/ Die(h)
      PROVE  UNCHANGED status
  BY <1>7 DEF Withdraw, Ask, Decide, Die
<1> QED BY <1>1, <1>2, <1>3, <1>4, <1>5, <1>6, <1>7, WhoWrites

\* Only a submission, which follows a patch, sends a change back to its assessment.
LEMMA NotAssessedAgain ==
  ASSUME TypeOK, DeskInv, [Next]_vars, NEW c \in Changes \ patched', status[c] # "assessment"
  PROVE  status'[c] # "assessment"
<1>1. ASSUME NEW h \in Handlers, At(h, "write"), desk[h].act # "submit_assessment"
      PROVE  Target[desk[h].act] # "assessment"
  BY <1>1, ActionsAre DEF At, DeskInv, OnItsWay, Moving
<1> QED BY <1>1, StatusMovesTo

\* No approval becomes pending behind a change that is past its assessment, and no row
\* goes away, unless the change is touched.
LEMMA RowsStay ==
  ASSUME TypeOK, DeskInv, [Next]_vars, NEW c \in Changes
  PROVE  /\ \A r \in Approvals : approvals[c][r] # "none" => approvals'[c][r] # "none"
         /\ c \notin Touched' /\ status[c] # "assessment" /\ PendingRows(c) = {} =>
              PendingRows(c)' = {}
         /\ c \notin Touched' /\ status[c] = "assessment" /\ Rows(c) # {} => Rows(c)' # {}
<1>0. approvals[c] \in [Approvals -> RowStates]
  BY DEF TypeOK
<1>1. CASE approvals'[c] = approvals[c]
  BY <1>1 DEF PendingRows, Rows
<1>2. CASE c \in patched' /\ \A r \in Approvals : approvals[c][r] # "none" => approvals'[c][r] # "none"
  BY <1>2 DEF Touched
<1>3. ASSUME status[c] # "assessment" => c \in late', NEW r \in Approvals, NextRow(c, r),
             approvals'[c] = [approvals[c] EXCEPT ![r] = "pending"]
      PROVE  /\ \A q \in Approvals : approvals[c][q] # "none" => approvals'[c][q] # "none"
             /\ c \notin Touched' /\ status[c] # "assessment" /\ PendingRows(c) = {} =>
                  PendingRows(c)' = {}
             /\ c \notin Touched' /\ status[c] = "assessment" /\ Rows(c) # {} => Rows(c)' # {}
  BY <1>0, <1>3 DEF PendingRows, Rows, Touched
<1>4. ASSUME status[c] # "pending_approval" => c \in hasty',
             NEW r \in Approvals, NEW x \in {"deleted", "approved", "rejected"},
             approvals[c][r] # "none", approvals'[c] = [approvals[c] EXCEPT ![r] = x]
      PROVE  /\ \A q \in Approvals : approvals[c][q] # "none" => approvals'[c][q] # "none"
             /\ c \notin Touched' /\ status[c] # "assessment" /\ PendingRows(c) = {} =>
                  PendingRows(c)' = {}
             /\ c \notin Touched' /\ status[c] = "assessment" /\ Rows(c) # {} => Rows(c)' # {}
  BY <1>0, <1>4 DEF PendingRows, Rows, Touched
<1>5. CASE /\ status[c] # "assessment" => c \in late'
           /\ \E r \in Approvals : NextRow(c, r) /\ approvals'[c] = [approvals[c] EXCEPT ![r] = "pending"]
  <2>1. PICK r \in Approvals : NextRow(c, r) /\ approvals'[c] = [approvals[c] EXCEPT ![r] = "pending"]
    BY <1>5
  <2> QED BY <1>3, <1>5, <2>1
<1>6. CASE /\ status[c] # "pending_approval" => c \in hasty'
           /\ \E r \in Approvals : \E x \in {"deleted", "approved", "rejected"} :
                approvals[c][r] # "none" /\ approvals'[c] = [approvals[c] EXCEPT ![r] = x]
  <2>1. PICK r \in Approvals, x \in {"deleted", "approved", "rejected"} :
          approvals[c][r] # "none" /\ approvals'[c] = [approvals[c] EXCEPT ![r] = x]
    BY <1>6
  <2> QED BY <1>4, <1>6, <2>1
<1> QED BY <1>1, <1>2, <1>5, <1>6, ApprovalMoves

-----------------------------------------------------------------------------
(***************************************************************************)
(* What handlers have seen.                                                *)
(***************************************************************************)

\* Whatever others do, what a handler has seen stays true or its change is touched.
LEMMA StaysTrue ==
  ASSUME ChangeInv, [Next]_vars, NEW d \in DeskType, StillTrue(d)
  PROVE  StillTrue(d)'
<1>1. TypeOK /\ DeskInv
  BY DEF ChangeInv
<1> DEFINE c == d.ch
<1>2. c \in Changes /\ d.row \in Approvals
  BY DEF DeskType
<1>3. patched \subseteq patched' /\ Touched \subseteq Touched'
  BY HistoryGrows DEF Touched
<1>4. d.act = "submit_assessment" => c \in patched'
  BY <1>3 DEF StillTrue
<1>5. d.pc = "decide" => approvals'[c][d.row] # "none"
  BY <1>1, <1>2, RowsStay DEF StillTrue
<1>6. ASSUME c \notin Touched'
      PROVE  /\ Passing(d) => status'[c] # "assessment" /\ PendingRows(c)' = {}
             /\ d.pc \in {"refuse", "tally"} => status'[c] # "assessment"
             /\ d.pc = "write" /\ d.act = "request_approval" /\ status'[c] = "assessment" =>
                  Rows(c)' # {}
  <2>1. c \notin Touched /\ c \notin patched'
    BY <1>3, <1>6 DEF Touched
  <2>2. status[c] # "assessment" => status'[c] # "assessment"
    BY <1>1, <1>2, <2>1, NotAssessedAgain
  <2> QED BY <1>1, <1>2, <1>6, <2>1, <2>2, RowsStay DEF StillTrue
<1> QED BY <1>4, <1>5, <1>6 DEF StillTrue, Passing, PendingRows, Rows

\* What the others have looked up of conflicts does not matter here.
LEMMA FreshIsFree ==
  ASSUME NEW d \in DeskType, NEW b \in BOOLEAN, OnItsWay(d), StillTrue(d)'
  PROVE  OnItsWay([d EXCEPT !.fresh = b]) /\ StillTrue([d EXCEPT !.fresh = b])'
<1> DEFINE e == [d EXCEPT !.fresh = b]
<1>1. /\ e.pc = d.pc /\ e.ch = d.ch /\ e.act = d.act /\ e.win = d.win /\ e.row = d.row
      /\ e.left = d.left
  BY DEF DeskType
<1> HIDE DEF e
<1>2. OnItsWay(e)
  BY <1>1 DEF OnItsWay
<1>3. StillTrue(e)'
  BY <1>1 DEF StillTrue, Passing
<1> QED BY <1>2, <1>3 DEF e

LEMMA NextDesk ==
  ASSUME NEW g \in Handlers, NEW f, desk'[g] = f, OnItsWay(f), StillTrue(f)'
  PROVE  (OnItsWay(desk[g]) /\ StillTrue(desk[g]))'
BY DEF OnItsWay, StillTrue, Passing, PendingRows, Rows

LEMMA OthersStay ==
  ASSUME ChangeInv, [Next]_vars, NEW h \in Handlers, NEW e \in DeskType,
         OnItsWay(e), StillTrue(e)',
         \/ desk' = [desk EXCEPT ![h] = e]
         \/ desk' = Outdated(h, e)
         \/ \E w : RefreshConflicts(h, w, e)
  PROVE  DeskInv'
<1> SUFFICES ASSUME NEW g \in Handlers PROVE (OnItsWay(desk[g]) /\ StillTrue(desk[g]))'
  BY DEF DeskInv
<1>1. PICK d : d = desk[g]
  OBVIOUS
<1>2. d \in DeskType /\ OnItsWay(d) /\ StillTrue(d) /\ desk \in [Handlers -> DeskType]
  BY <1>1 DEF ChangeInv, TypeOK, DeskInv
<1>3. StillTrue(d)'
  BY <1>2, StaysTrue
<1>4. d.fresh \in BOOLEAN
  BY <1>2 DEF DeskType
<1>5. d = [d EXCEPT !.fresh = d.fresh]
  BY <1>2 DEF DeskType
<1>6. (g = h /\ desk'[g] = e) \/ \E b \in BOOLEAN : desk'[g] = [d EXCEPT !.fresh = b]
  <2>1. CASE desk' = [desk EXCEPT ![h] = e]
    BY <1>1, <1>2, <1>4, <1>5, <2>1
  <2>2. CASE desk' = Outdated(h, e)
    BY <1>1, <2>2 DEF Outdated
  <2>3. ASSUME NEW w, RefreshConflicts(h, w, e)
        PROVE  (g = h /\ desk'[g] = e) \/ \E b \in BOOLEAN : desk'[g] = [d EXCEPT !.fresh = b]
    <3>1. desk'[g] = IF g = h THEN e ELSE [d EXCEPT !.fresh = d.fresh /\ d.ch # desk[h].ch]
      BY <1>1, <2>3 DEF RefreshConflicts
    <3>2. (d.fresh /\ d.ch # desk[h].ch) \in BOOLEAN
      BY Zenon
    <3> QED BY <3>1, <3>2, Zenon
  <2> QED BY <2>1, <2>2, <2>3
<1>7. CASE g = h /\ desk'[g] = e
  BY <1>7, NextDesk
<1>8. ASSUME NEW b \in BOOLEAN, desk'[g] = [d EXCEPT !.fresh = b]
      PROVE  (OnItsWay(desk[g]) /\ StillTrue(desk[g]))'
  BY <1>2, <1>3, <1>8, FreshIsFree, NextDesk
<1> QED BY <1>6, <1>7, <1>8

\* A request moves on to its next statement, and what it had seen serves it there.
LEMMA Onward ==
  ASSUME NEW d \in DeskType, StillTrue(d)', NEW e \in DeskType,
         e.ch = d.ch, e.act = d.act, e.pc \notin {"decide", "refuse", "tally", "admit"},
         Passing(e) => Passing(d),
         e.pc = "write" /\ e.act = "request_approval" => Rows(e.ch)' # {}
  PROVE  StillTrue(e)'
BY DEF StillTrue, Passing

LEMMA DeskStep ==
  ASSUME ChangeInv, [Next]_vars
  PROVE  DeskInv'
<1> USE DEF tables, history
<1>1. TypeOK /\ DeskInv
  BY DEF ChangeInv
<1>2. Idle \in DeskType /\ Idle.pc = "idle" /\ Idle.act = "other" /\ Idle.win = "none"
  BY IdleType
<1> DEFINE Next1(h) == \E e \in DeskType :
             /\ OnItsWay(e) /\ StillTrue(e)'
             /\ \/ desk' = [desk EXCEPT ![h] = e]
                \/ desk' = Outdated(h, e)
                \/ \E w : RefreshConflicts(h, w, e)
<1>3. CASE UNCHANGED desk
  <2> SUFFICES ASSUME NEW g \in Handlers PROVE (OnItsWay(desk[g]) /\ StillTrue(desk[g]))'
    BY DEF DeskInv
  <2>1. PICK d : d = desk[g]
    OBVIOUS
  <2>2. d \in DeskType /\ OnItsWay(d) /\ StillTrue(d) /\ desk'[g] = d
    BY <1>1, <1>3, <2>1 DEF TypeOK, DeskInv
  <2> QED BY <2>2, StaysTrue, NextDesk
\* A handler that has done nothing yet, or nothing any more.
<1>4. ASSUME NEW c \in Changes, NEW pc \in {"idle", "refresh"}
      PROVE  LET e == [Idle EXCEPT !.pc = pc, !.ch = c] IN
             e \in DeskType /\ OnItsWay(e) /\ StillTrue(e)'
  <2> DEFINE e == [Idle EXCEPT !.pc = pc, !.ch = c]
  <2>1. e \in DeskType /\ e.pc = pc /\ e.act = "other"
    BY <1>2 DEF DeskType, DeskPCs
  <2> HIDE DEF e
  <2>2. OnItsWay(e) /\ StillTrue(e)'
    BY <2>1, ActionsAre DEF OnItsWay, StillTrue, Passing, Moving
  <2> QED BY <2>1, <2>2 DEF e
<1>5. OnItsWay(Idle) /\ StillTrue(Idle)'
  BY <1>2, ActionsAre DEF OnItsWay, StillTrue, Passing, Moving
<1>6. ASSUME NEW h \in Handlers, Finish(h) PROVE Next1(h)
  BY <1>2, <1>5, <1>6 DEF Finish
<1>7. ASSUME NEW h \in Handlers, NEW c \in Changes, NEW act \in Actions,
             NEW w \in Windows \cup {"none"}, NEW override \in BOOLEAN,
             Transition(h, c, act, w, override)
      PROVE  Next1(h)
  <2>1. FirstStep(act) \in {"weigh", "withdraw", "write"}
    BY DEF FirstStep
  <2>2. PICK e \in DeskType :
          /\ e.pc = FirstStep(act) /\ e.ch = c /\ e.act = act /\ e.win = w
          /\ desk' = [desk EXCEPT ![h] = e]
    <3> DEFINE e == [Idle EXCEPT !.pc = FirstStep(act), !.ch = c, !.act = act, !.win = w,
                                 !.override = override]
    <3>1. /\ e \in DeskType /\ e.pc = FirstStep(act) /\ e.ch = c /\ e.act = act /\ e.win = w
          /\ desk' = [desk EXCEPT ![h] = e]
      BY <1>2, <1>7, <2>1 DEF DeskType, DeskPCs, Transition, Begin
    <3> HIDE DEF e
    <3> QED BY <3>1
  <2>3. Allowed(c, act) /\ (act = "schedule" => w # "none") /\ UNCHANGED <<tables, history>>
    BY <1>7 DEF Transition
  <2>4. OnItsWay(e)
    BY <2>1, <2>2, <2>3 DEF OnItsWay, FirstStep, Moving
  <2>5. act = "submit_assessment" => c \in patched'
    BY <2>3 DEF Allowed, ChangeInv, Drafts
  <2>6. ASSUME c \notin Touched', Passing(e)
        PROVE  status'[c] # "assessment" /\ PendingRows(c)' = {}
    <3>1. c \notin Touched /\ UNCHANGED <<status, approvals>>
      BY <2>3, <2>6 DEF Touched
    <3>2. Target[act] \in Past
      BY <2>1, <2>2, <2>6 DEF Passing
    <3>3. act \in {"approve", "start_planning", "schedule", "start_implementation",
                   "mark_implemented", "start_review", "close"}
      BY <3>2, ActionsAre DEF Past, Live
    <3>4. MayApprove(c) \/ status[c] \in Past
      BY <2>3, <3>3 DEF Allowed, Past, Live
    <3>5. status[c] # "assessment" /\ PendingRows(c) = {}
      BY <3>1, <3>4 DEF MayApprove, Past, Live, ChangeInv, ApprovalsDecide, Touched
    <3> QED BY <3>1, <3>5 DEF PendingRows
  <2>7. ~(e.pc = "write" /\ e.act = "request_approval")
    BY <2>2 DEF FirstStep
  <2>8. StillTrue(e)'
    BY <2>1, <2>2, <2>5, <2>6, <2>7 DEF StillTrue
  <2> QED BY <2>2, <2>4, <2>8
<1>8. ASSUME NEW h \in Handlers, NEW c \in Changes, NEW r \in Approvals,
             NEW verdict \in {"approved", "rejected"}, DecideRead(h, c, r, verdict)
      PROVE  Next1(h)
  <2>1. PICK e \in DeskType :
          /\ e.pc = "decide" /\ e.ch = c /\ e.act = "other" /\ e.row = r
          /\ desk' = [desk EXCEPT ![h] = e]
    <3> DEFINE e == [Idle EXCEPT !.pc = "decide", !.ch = c, !.row = r, !.verdict = verdict]
    <3>1. /\ e \in DeskType /\ e.pc = "decide" /\ e.ch = c /\ e.act = "other" /\ e.row = r
          /\ desk' = [desk EXCEPT ![h] = e]
      BY <1>2, <1>8 DEF DeskType, DeskPCs, DecideRead, Begin
    <3> HIDE DEF e
    <3> QED BY <3>1
  <2>2. approvals'[c][r] # "none"
    BY <1>8 DEF DecideRead, Rows
  <2> QED BY <2>1, <2>2 DEF OnItsWay, StillTrue, Passing, Moving
<1>9. ASSUME NEW h \in Handlers, NEW c \in Changes, NEW to \in Statuses, NEW w \in Windows,
             Patch(h, c, to, w)
      PROVE  Next1(h)
  <2>1. desk' = Outdated(h, [Idle EXCEPT !.pc = "refresh", !.ch = c])
    BY <1>9 DEF Patch
  <2> QED BY <1>4, <2>1
<1>10. ASSUME NEW h \in Handlers, Handle(h)
       PROVE  Next1(h)
  <2>1. PICK d : d = desk[h]
    OBVIOUS
  <2>2. /\ d \in DeskType /\ OnItsWay(d) /\ StillTrue(d) /\ d.ch \in Changes
        /\ d.win \in Windows \cup {"none"} /\ d.left \in 0..Required
    BY <1>1, <2>1 DEF TypeOK, DeskInv, DeskType
  <2>3. StillTrue(d)'
    BY <2>2, StaysTrue
  <2>4. CASE Weigh(h)
    <3>1. PICK e \in DeskType :
            /\ e.pc = "count" /\ e.ch = d.ch /\ e.act = d.act /\ e.win = d.win /\ e.left = d.left
            /\ RefreshConflicts(h, IF d.act = "schedule" THEN d.win ELSE window[d.ch], e)
      <4> DEFINE e == [d EXCEPT !.pc = "count", !.fresh = TRUE]
      <4>1. /\ e \in DeskType /\ e.pc = "count" /\ e.ch = d.ch /\ e.act = d.act /\ e.win = d.win
            /\ e.left = d.left
        BY <2>2 DEF DeskType, DeskPCs
      <4>2. RefreshConflicts(h, IF d.act = "schedule" THEN d.win ELSE window[d.ch], e)
        BY <2>1, <2>4 DEF Weigh
      <4> HIDE DEF e
      <4> QED BY <4>1, <4>2
    <3>2. d.pc = "weigh"
      BY <2>1, <2>4 DEF Weigh, At
    <3>3. OnItsWay(e)
      BY <2>2, <3>1, <3>2 DEF OnItsWay, Moving
    <3>4. StillTrue(e)'
      BY <2>2, <2>3, <3>1, <3>2, Onward DEF Passing
    <3> QED BY <3>1, <3>3, <3>4
  <2>5. ASSUME NEW pc \in DeskPCs \ {"decide", "refuse", "tally", "admit"}, NEW n \in 0..Required,
               desk' = [desk EXCEPT ![h] = [d EXCEPT !.pc = pc, !.left = n]],
               d.pc \in Moving, pc \in Moving, pc = "ask" => n > 0,
               pc = "count" => d.act \in {"schedule", "request_approval"},
               pc \in {"existing", "ask"} => d.act = "request_approval",
               pc \notin {"weigh", "withdraw"},
               Target[d.act] \in Past => d.pc \in {"weigh", "count", "write"},
               pc = "write" /\ d.act = "request_approval" => Rows(d.ch)' # {}
        PROVE  Next1(h)
    <3>1. PICK e \in DeskType :
            /\ e.pc = pc /\ e.ch = d.ch /\ e.act = d.act /\ e.win = d.win /\ e.left = n
            /\ desk' = [desk EXCEPT ![h] = e]
      <4> DEFINE e == [d EXCEPT !.pc = pc, !.left = n]
      <4>1. /\ e \in DeskType /\ e.pc = pc /\ e.ch = d.ch /\ e.act = d.act /\ e.win = d.win
            /\ e.left = n
        BY <2>2 DEF DeskType
      <4> HIDE DEF e
      <4> QED BY <2>5, <4>1 DEF e
    <3>2. OnItsWay(e)
      BY <2>2, <2>5, <3>1 DEF OnItsWay
    <3>3. Passing(e) => Passing(d)
      BY <2>5, <3>1 DEF Passing
    <3>4. e.pc \notin {"decide", "refuse", "tally", "admit"}
      BY <2>5, <3>1
    <3>5. StillTrue(e)'
      BY <2>2, <2>3, <2>5, <3>1, <3>3, <3>4, Onward
    <3> QED BY <3>1, <3>2, <3>5
  <2>6. ASSUME NEW pc, Goto(h, pc)
        PROVE  desk' = [desk EXCEPT ![h] = [d EXCEPT !.pc = pc, !.left = d.left]]
    <3>1. d.left = d.left /\ [d EXCEPT !.pc = pc] = [d EXCEPT !.pc = pc, !.left = d.left]
      BY <2>2 DEF DeskType
    <3> QED BY <2>1, <2>6, <3>1 DEF Goto
  <2>7. CASE Count(h)
    <3>1. d.pc = "count" /\ d.act \in {"schedule", "request_approval"}
      BY <2>1, <2>2, <2>7 DEF Count, At, OnItsWay
    <3>2. CASE Finish(h)
      BY <1>6, <3>2
    <3>3. CASE d.act = "schedule" /\ Goto(h, "write")
      <4>1. desk' = [desk EXCEPT ![h] = [d EXCEPT !.pc = "write", !.left = d.left]]
        BY <2>6, <3>3
      <4>2. "write" \in DeskPCs \ {"decide", "refuse", "tally", "admit"} /\ "write" \in Moving
        BY DEF DeskPCs, Moving
      <4>3. d.pc \in Moving
        BY <3>1 DEF Moving
      <4> HIDE DEF Next1
      <4> QED BY <2>2, <2>5, <3>1, <3>3, <4>1, <4>2, <4>3
    <3>4. CASE d.act = "request_approval" /\ Goto(h, "existing")
      <4>1. desk' = [desk EXCEPT ![h] = [d EXCEPT !.pc = "existing", !.left = d.left]]
        BY <2>6, <3>4
      <4>2. "existing" \in DeskPCs \ {"decide", "refuse", "tally", "admit"} /\ "existing" \in Moving
        BY DEF DeskPCs, Moving
      <4>3. d.pc \in Moving
        BY <3>1 DEF Moving
      <4> HIDE DEF Next1
      <4> QED BY <2>2, <2>5, <3>1, <3>4, <4>1, <4>2, <4>3
    <3> QED BY <2>1, <2>7, <3>1, <3>2, <3>3, <3>4 DEF Count
  <2>8. CASE Withdraw(h)
    <3>1. d.pc = "withdraw" /\ d.act = "submit_assessment" /\ Goto(h, "write")
      BY <2>1, <2>2, <2>8 DEF Withdraw, At, OnItsWay
    <3>2. Target[d.act] \notin Past
      BY <3>1, ActionsAre DEF Past, Live
    <3>3. desk' = [desk EXCEPT ![h] = [d EXCEPT !.pc = "write", !.left = d.left]]
      BY <2>6, <3>1
    <3>4. "write" \in DeskPCs \ {"decide", "refuse", "tally", "admit"} /\ "write" \in Moving
      BY DEF DeskPCs, Moving
    <3>5. d.pc \in Moving
      BY <3>1 DEF Moving
    <3> HIDE DEF Next1
    <3> QED BY <2>2, <2>5, <3>1, <3>2, <3>3, <3>4, <3>5
  <2>9. CASE Existing(h)
    <3> DEFINE pc == IF Rows(d.ch) = {} THEN "ask" ELSE "write"
               n  == IF Rows(d.ch) = {} THEN Required ELSE 0
    <3>1. d.pc = "existing" /\ d.act = "request_approval" /\ UNCHANGED approvals
      BY <2>1, <2>2, <2>9 DEF Existing, At, OnItsWay
    <3>2. Target[d.act] \notin Past
      BY <3>1, ActionsAre DEF Past, Live
    <3>3. desk' = [desk EXCEPT ![h] = [d EXCEPT !.pc = pc, !.left = n]]
      BY <1>1, <2>1, <2>9 DEF Existing, TypeOK
    <3>4. /\ pc \in {"ask", "write"} /\ n \in 0..Required /\ (pc = "ask" => n > 0)
          /\ pc = "write" => Rows(d.ch)' # {}
      BY <3>1, ChangeAssumption DEF Rows
    <3> HIDE DEF pc, n
    <3> QED BY <2>5, <3>1, <3>2, <3>3, <3>4 DEF DeskPCs, Moving
  <2>10. CASE Ask(h)
    <3> DEFINE pc == IF d.left = 1 THEN "write" ELSE "ask"
               n  == d.left - 1
    <3>1. d.pc = "ask" /\ d.act = "request_approval" /\ d.left > 0
      BY <2>1, <2>2, <2>10 DEF Ask, At, OnItsWay
    <3>2. Target[d.act] \notin Past
      BY <3>1, ActionsAre DEF Past, Live
    <3>3. desk' = [desk EXCEPT ![h] = [d EXCEPT !.pc = pc, !.left = n]]
      <4>1. desk' = [desk EXCEPT ![h].left = d.left - 1, ![h].pc = pc]
        BY <2>1, <2>10, <3>1 DEF Ask
      <4> HIDE DEF pc, n
      <4>2. [[d EXCEPT !.left = d.left - 1] EXCEPT !.pc = pc] = [d EXCEPT !.pc = pc, !.left = d.left - 1]
        BY <2>2 DEF DeskType
      <4> QED BY <1>1, <2>1, <4>1, <4>2 DEF TypeOK, n
    <3>4. pc \in {"ask", "write"} /\ n \in 0..Required /\ (pc = "ask" => n > 0)
      BY <2>2, <3>1, ChangeAssumption
    <3>5. Rows(d.ch)' # {}
      <4>1. PICK r \in Approvals : approvals' = [approvals EXCEPT ![d.ch][r] = "pending"]
        BY <2>1, <2>10 DEF Ask
      <4>2. approvals'[d.ch][r] = "pending"
        BY <1>1, <2>2, <4>1 DEF TypeOK
      <4> QED BY <4>2 DEF Rows
    <3> HIDE DEF pc, n
    <3> QED BY <2>5, <3>1, <3>2, <3>3, <3>4, <3>5 DEF DeskPCs, Moving
  <2>11. CASE WriteStatus(h)
    <3>1. desk' = Outdated(h, [Idle EXCEPT !.pc = "refresh", !.ch = d.ch])
      BY <2>1, <2>11 DEF WriteStatus
    <3> QED BY <1>4, <2>2, <3>1
  <2>12. CASE Refresh(h)
    BY <1>2, <1>5, <2>12 DEF Refresh
  <2>13. CASE Decide(h)
    <3> DEFINE pc == IF d.verdict = "rejected" THEN "refuse" ELSE "tally"
    <3>1. PICK e \in DeskType :
            /\ e.pc \in {"refuse", "tally"} /\ e.ch = d.ch /\ e.act = "other"
            /\ desk' = [desk EXCEPT ![h] = e]
      <4> DEFINE e == [Idle EXCEPT !.ch = d.ch, !.pc = pc]
      <4>1. pc \in {"refuse", "tally"} /\ pc \in DeskPCs
        BY DEF DeskPCs
      <4>2. e \in DeskType
        <5> HIDE DEF pc
        <5> QED BY <1>2, <2>2, <4>1 DEF DeskType
      <4>3. e.pc \in {"refuse", "tally"} /\ e.ch = d.ch /\ e.act = "other"
        BY <4>1 DEF Idle
      <4>4. desk' = [desk EXCEPT ![h] = e]
        BY <2>1, <2>13 DEF Decide
      <4> HIDE DEF e
      <4> QED BY <4>2, <4>3, <4>4
    <3>2. d.ch \notin Touched' => status'[d.ch] # "assessment"
      BY <2>1, <2>13 DEF Decide, Touched
    <3> QED BY <3>1, <3>2 DEF OnItsWay, StillTrue, Passing, Moving
  <2>14. ASSUME NEW to, Move(h, to) PROVE Next1(h)
    BY <1>2, <1>5, <2>14 DEF Move
  <2>15. CASE Tally(h)
    <3>1. CASE Finish(h)
      BY <1>6, <3>1
    <3>2. CASE IsLast(d.ch) /\ Goto(h, "admit")
      <4>1. d.pc = "tally" /\ UNCHANGED approvals
        BY <2>1, <2>15 DEF Tally, At
      <4>2. PICK e \in DeskType :
              /\ e.pc = "admit" /\ e.ch = d.ch /\ e.act = d.act /\ e.win = d.win
              /\ desk' = [desk EXCEPT ![h] = e]
        <5> DEFINE e == [d EXCEPT !.pc = "admit"]
        <5>1. /\ e \in DeskType /\ e.pc = "admit" /\ e.ch = d.ch /\ e.act = d.act /\ e.win = d.win
              /\ desk' = [desk EXCEPT ![h] = e]
          BY <2>1, <2>2, <3>2 DEF Goto, DeskType, DeskPCs
        <5> HIDE DEF e
        <5> QED BY <5>1
      <4>3. PendingRows(d.ch)' = {}
        BY <3>2, <4>1 DEF IsLast, PendingRows
      <4>4. d.ch \notin Touched' => status'[d.ch] # "assessment"
        BY <2>3, <4>1 DEF StillTrue
      <4>5. StillTrue(e)'
        BY <2>3, <4>2, <4>3, <4>4 DEF StillTrue
      <4> QED BY <2>2, <4>2, <4>5 DEF OnItsWay, Moving
    <3> QED BY <2>1, <2>15, <3>1, <3>2 DEF Tally
  <2> QED
    BY <1>10, <2>4, <2>7, <2>8, <2>9, <2>10, <2>11, <2>12, <2>13, <2>14, <2>15 DEF Handle, Refuse, Admit
<1>11. CASE \E h \in Handlers : Next1(h)
  BY <1>11, OthersStay
<1>12. ASSUME NEW h \in Handlers, Die(h) PROVE Next1(h)
  BY <1>6, <1>12 DEF Die
<1> HIDE DEF Next1
<1>13. CASE Next
  BY <1>7, <1>8, <1>9, <1>10, <1>11, <1>12, <1>13 DEF Next, Request
<1>14. CASE UNCHANGED vars
  BY <1>3, <1>14 DEF vars
<1> QED BY <1>13, <1>14

-----------------------------------------------------------------------------
(***************************************************************************)
(* Nobody whose approval is pending is passed over.                        *)
(***************************************************************************)

LEMMA UndecidedStep == ASSUME ChangeInv, [Next]_vars PROVE Undecided'
<1> SUFFICES ASSUME NEW c \in Changes, c \notin Touched', status'[c] = "assessment",
                    NEW r \in Approvals
             PROVE  approvals'[c][r] \in {"none", "pending"}
  BY DEF Undecided
<1>1. TypeOK /\ DeskInv /\ Undecided
  BY DEF ChangeInv
<1>2. c \notin patched' /\ c \notin late' /\ c \notin hasty' /\ c \notin Touched
  BY HistoryGrows DEF Touched
<1>3. status[c] = "assessment"
  BY <1>1, <1>2, NotAssessedAgain
<1>4. approvals[c] \in [Approvals -> RowStates] /\ approvals[c][r] \in {"none", "pending"}
  BY <1>1, <1>2, <1>3 DEF TypeOK, Undecided
<1>5. ASSUME NEW q \in Approvals, approvals'[c] = [approvals[c] EXCEPT ![q] = "pending"]
      PROVE  approvals'[c][r] \in {"none", "pending"}
  BY <1>4, <1>5
<1> QED BY <1>1, <1>2, <1>3, <1>4, <1>5, ApprovalMoves

LEMMA DraftsStep == ASSUME ChangeInv, [Next]_vars PROVE Drafts'
<1> SUFFICES ASSUME NEW c \in Changes, status'[c] = "draft" PROVE c \in patched'
  BY DEF Drafts
<1>1. TypeOK /\ DeskInv /\ Drafts
  BY DEF ChangeInv
<1>2. ASSUME status[c] = "draft" PROVE c \in patched'
  BY <1>1, <1>2, HistoryGrows DEF Drafts
<1>3. \A h \in Handlers : At(h, "write") => Target[desk[h].act] # "draft"
  BY <1>1, ActionsAre DEF At, DeskInv, OnItsWay, Moving
<1> QED BY <1>1, <1>2, <1>3, StatusMovesTo

\* A handler that is to move a change on does so, unless it dies or finds that it is not
\* the last.
LEMMA HandlerMoves ==
  ASSUME TypeOK, [Next]_vars, NEW g \in Handlers, desk[g].pc \in {"refuse", "tally", "admit"}
  PROVE  \/ desk'[g].pc = desk[g].pc /\ desk'[g].ch = desk[g].ch
         \/ Refuse(g) \/ Admit(g) \/ Tally(g)
         \/ desk[g].ch \in cut'
<1> USE DEF tables, history
<1> DEFINE Keeps == desk'[g].pc = desk[g].pc /\ desk'[g].ch = desk[g].ch
<1>1. desk \in [Handlers -> DeskType] /\ desk[g] \in DeskType
  BY DEF TypeOK
<1>2. ASSUME NEW b PROVE [desk[g] EXCEPT !.fresh = b].pc = desk[g].pc /\ [desk[g] EXCEPT !.fresh = b].ch = desk[g].ch
  BY <1>1 DEF DeskType
<1>3. ASSUME NEW h \in Handlers \ {g}, NEW d,
             \/ desk' = [desk EXCEPT ![h] = d]
             \/ desk' = Outdated(h, d)
             \/ \E w : RefreshConflicts(h, w, d)
      PROVE  Keeps
  <2>1. CASE desk' = [desk EXCEPT ![h] = d]
    BY <1>1, <1>3, <2>1
  <2>2. CASE desk' = Outdated(h, d)
    BY <1>1, <1>2, <1>3, <2>2 DEF Outdated
  <2>3. ASSUME NEW w, RefreshConflicts(h, w, d) PROVE Keeps
    <3>1. desk'[g] = [desk[g] EXCEPT !.fresh = desk[g].fresh /\ desk[g].ch # desk[h].ch]
      BY <1>1, <1>3, <2>3 DEF RefreshConflicts
    <3> QED BY <1>2, <3>1
  <2> QED BY <1>3, <2>1, <2>2, <2>3
<1>4. ASSUME NEW h \in Handlers \ {g}, Finish(h) PROVE Keeps
  BY <1>3, <1>4 DEF Finish
<1>5. ASSUME NEW h \in Handlers \ {g}, NEW d, Begin(h, d) PROVE Keeps
  BY <1>3, <1>5 DEF Begin
<1>6. ASSUME NEW h \in Handlers \ {g}, NEW pc, Goto(h, pc) PROVE Keeps
  BY <1>1, <1>6 DEF Goto
<1>7. ASSUME NEW h \in Handlers \ {g}, Existing(h) \/ Ask(h) PROVE Keeps
  <2>1. CASE Existing(h)
    BY <1>1, <2>1 DEF Existing
  <2>2. CASE Ask(h)
    BY <1>1, <2>2 DEF Ask
  <2> QED BY <1>7, <2>1, <2>2
<1>8. ASSUME NEW h \in Handlers \ {g}, Weigh(h) \/ Refresh(h) PROVE Keeps
  BY <1>3, <1>8 DEF Weigh, Refresh
<1>9. ASSUME NEW h \in Handlers \ {g}, WriteStatus(h) \/ Refuse(h) \/ Admit(h) PROVE Keeps
  BY <1>3, <1>9 DEF WriteStatus, Refuse, Admit, Move
<1>10. ASSUME NEW h \in Handlers \ {g}, Decide(h) PROVE Keeps
  BY <1>3, <1>10 DEF Decide
<1>11. ASSUME NEW h \in Handlers \ {g}, Count(h) \/ Withdraw(h) \/ Tally(h) PROVE Keeps
  BY <1>4, <1>6, <1>11 DEF Count, Withdraw, Tally
<1>12. ASSUME NEW h \in Handlers \ {g}, NEW c \in Changes, Request(h, c) PROVE Keeps
  BY <1>3, <1>5, <1>12 DEF Request, Transition, DecideRead, Patch
<1>13. ASSUME Handle(g) PROVE Refuse(g) \/ Admit(g) \/ Tally(g)
  BY <1>13 DEF Handle, At, Weigh, Count, Withdraw, Existing, Ask, WriteStatus, Refresh, Decide
<1>14. ASSUME Die(g) PROVE desk[g].ch \in cut'
  BY <1>14 DEF Die
<1>15. ASSUME NEW c \in Changes PROVE ~Request(g, c)
  BY DEF Request, Transition, DecideRead, Patch, Begin, At
<1>16. ASSUME UNCHANGED vars PROVE Keeps
  BY <1>16 DEF vars
<1>17. ASSUME NEW h \in Handlers \ {g}, Handle(h) PROVE Keeps
  BY <1>7, <1>8, <1>9, <1>10, <1>11, <1>17 DEF Handle
<1>18. ASSUME NEW h \in Handlers \ {g}, Die(h) PROVE Keeps
  BY <1>4, <1>18 DEF Die
<1> HIDE DEF Keeps
<1>19. Keeps \/ Refuse(g) \/ Admit(g) \/ Tally(g) \/ desk[g].ch \in cut'
  BY <1>12, <1>13, <1>14, <1>15, <1>16, <1>17, <1>18 DEF Next
<1> QED BY <1>19 DEF Keeps

\* Whoever decides the last approval has the change to move on.
LEMMA LastDecides ==
  ASSUME ChangeInv, [Next]_vars, NEW c \in Changes, c \notin Touched',
         PendingRows(c) # {}, PendingRows(c)' = {}
  PROVE  Busy(c, {"refuse", "tally", "admit"})'
<1>1. TypeOK /\ DeskInv
  BY DEF ChangeInv
<1>2. approvals[c] \in [Approvals -> RowStates] /\ c \notin patched'
  BY <1>1 DEF TypeOK, Touched
<1>3. approvals'[c] # approvals[c]
  BY DEF PendingRows
<1>4. ASSUME NEW r \in Approvals, approvals'[c] = [approvals[c] EXCEPT ![r] = "pending"]
      PROVE  FALSE
  BY <1>2, <1>4 DEF PendingRows
<1>5. \E h \in Handlers : desk'[h].ch = c /\ desk'[h].pc \in {"refuse", "tally"}
  <2>1. ~ \E r \in Approvals :
            NextRow(c, r) /\ approvals'[c] = [approvals[c] EXCEPT ![r] = "pending"]
    BY <1>4
  <2> QED BY <1>1, <1>2, <1>3, <2>1, ApprovalMoves
<1> QED BY <1>5 DEF Busy

LEMMA ApprovalsStep == ASSUME ChangeInv, [Next]_vars PROVE ApprovalsDecide'
<1> DEFINE Moved == {"refuse", "tally", "admit"}
<1>1. TypeOK /\ DeskInv /\ Undecided /\ ApprovalsDecide
  BY DEF ChangeInv
<1> SUFFICES ASSUME NEW c \in Changes, c \notin Touched'
             PROVE  /\ status'[c] \in Past => PendingRows(c)' = {}
                    /\ status'[c] = "pending_approval" /\ PendingRows(c)' = {} =>
                         c \in cut' \/ Busy(c, Moved)'
  BY DEF ApprovalsDecide, Touched
<1>2. c \notin patched' /\ c \notin late' /\ c \notin hasty' /\ c \notin Touched
  BY HistoryGrows DEF Touched
<1>3. /\ status[c] # "assessment" /\ PendingRows(c) = {} => PendingRows(c)' = {}
      /\ status[c] \in Past => status[c] # "assessment" /\ PendingRows(c) = {}
  BY <1>1, <1>2, RowsStay DEF Past, Live, ApprovalsDecide, Touched
\* Whoever writes such a status has seen that nobody is left to decide.
<1>4. ASSUME status'[c] \in Past PROVE PendingRows(c)' = {}
  <2>1. CASE status'[c] = status[c]
    BY <1>3, <1>4, <2>1
  <2>2. ASSUME NEW h \in Handlers, At(h, "refuse"), status'[c] = "rejected" PROVE FALSE
    BY <1>4, <2>2 DEF Past, Live
  <2>3. ASSUME NEW h \in Handlers, desk[h].ch = c, Passing(desk[h]) PROVE PendingRows(c)' = {}
    BY <1>1, <1>2, <1>3, <2>3 DEF DeskInv, StillTrue
  <2>4. ASSUME NEW h \in Handlers, At(h, "admit") PROVE Passing(desk[h])
    BY <2>4 DEF At, Passing
  <2>5. ASSUME NEW h \in Handlers, At(h, "write"), status'[c] = Target[desk[h].act]
        PROVE  Passing(desk[h])
    BY <1>1, <1>4, <2>5 DEF At, Passing, DeskInv, OnItsWay, Moving
  <2> QED BY <1>1, <1>2, <2>1, <2>2, <2>3, <2>4, <2>5, StatusMovesTo
<1>5. ASSUME status'[c] = "pending_approval", PendingRows(c)' = {}
      PROVE  c \in cut' \/ Busy(c, Moved)'
  <2>1. CASE PendingRows(c) # {}
    BY <1>2, <1>5, <2>1, LastDecides DEF Touched
  <2>2. CASE PendingRows(c) = {} /\ status[c] = "pending_approval"
    <3>1. CASE c \in cut
      <4>1. cut \subseteq cut'
        BY HistoryGrows
      <4> QED BY <3>1, <4>1
    <3>2. ASSUME NEW g \in Handlers, desk[g].ch = c, desk[g].pc \in Moved
          PROVE  c \in cut' \/ Busy(c, Moved)'
      <4>1. CASE desk'[g].pc = desk[g].pc /\ desk'[g].ch = desk[g].ch
        BY <3>2, <4>1 DEF Busy
      <4>2. CASE Refuse(g) \/ Admit(g)
        <5>1. status'[c] \in {"rejected", "approved"}
          BY <1>1, <3>2, <4>2 DEF Refuse, Admit, Move, TypeOK
        <5> QED BY <1>5, <5>1
      <4>3. CASE Tally(g)
        <5>1. desk'[g].pc = "admit" /\ desk'[g].ch = c
          BY <1>1, <2>2, <3>2, <4>3 DEF Tally, IsLast, Goto, TypeOK, DeskType
        <5> QED BY <5>1 DEF Busy
      <4> QED BY <1>1, <3>2, <4>1, <4>2, <4>3, HandlerMoves
    <3> QED BY <1>1, <1>2, <2>2, <3>1, <3>2 DEF ApprovalsDecide, Touched, Busy
  <2>3. CASE PendingRows(c) = {} /\ status[c] # "pending_approval"
    <3>1. PICK h \in Handlers :
            /\ At(h, "write") /\ desk[h].ch = c
            /\ status'[c] = Target[desk[h].act]
            /\ desk[h].act = "request_approval" /\ status[c] # "assessment" => c \in late'
      BY <1>1, <1>2, <1>5, <2>3, StatusMovesTo
    <3>2. desk[h].act = "request_approval" /\ status[c] = "assessment"
      BY <1>1, <1>2, <1>5, <3>1, ActionsAre DEF At, DeskInv, OnItsWay, Moving
    <3>3. Rows(c) # {}
      BY <1>1, <1>2, <3>1, <3>2 DEF At, DeskInv, StillTrue
    <3>4. PendingRows(c) # {}
      BY <1>1, <1>2, <3>2, <3>3 DEF Undecided, Rows, PendingRows
    <3> QED BY <2>3, <3>4
  <2> QED BY <2>1, <2>2, <2>3
<1> QED BY <1>4, <1>5

-----------------------------------------------------------------------------
(***************************************************************************)
(* Changes of high risk are not scheduled into one window.                 *)
(***************************************************************************)

\* Unless changes have moved since, what a handler that schedules a change of high risk
\* has found out about its window holds.
FoundOut(d) ==
  d.fresh /\ d.act = "schedule" /\ d.ch \in High =>
    /\ d.pc = "count" => (d.ch \in blocked <=> Overlaps(d.ch, d.win))
    /\ d.pc = "write" /\ ~d.override => ~Overlaps(d.ch, d.win)

FreshInv == \A h \in Handlers : FoundOut(desk[h])

ApartInv == ChangeInv /\ FreshInv /\ NoBlockedSchedule

LEMMA StillFound ==
  ASSUME NEW g \in Handlers, NEW d, FoundOut(d), UNCHANGED <<status, window>>,
         desk'[g].pc = d.pc, desk'[g].ch = d.ch, desk'[g].act = d.act, desk'[g].win = d.win,
         desk'[g].override = d.override,
         desk'[g].fresh => d.fresh /\ (d.ch \in blocked <=> d.ch \in blocked')
  PROVE  FoundOut(desk[g])'
BY DEF FoundOut, Overlaps

LEMMA FreshStep ==
  ASSUME TypeOK, DeskInv, FreshInv, [Next]_vars
  PROVE  FreshInv'
<1> USE DEF tables, history
<1> SUFFICES ASSUME NEW g \in Handlers PROVE FoundOut(desk[g])'
  BY DEF FreshInv
<1>1. PICK d : d = desk[g]
  OBVIOUS
<1>2. /\ d \in DeskType /\ OnItsWay(d) /\ FoundOut(d)
      /\ desk \in [Handlers -> DeskType]
  BY <1>1 DEF TypeOK, DeskInv, FreshInv
<1>3. ASSUME ~desk'[g].fresh PROVE FoundOut(desk[g])'
  BY <1>3 DEF FoundOut
<1>4. Idle \in DeskType /\ Idle.fresh = FALSE /\ Idle.act = "other"
  BY IdleType
<1>5. ASSUME UNCHANGED <<status, window, blocked>>, desk'[g] = d PROVE FoundOut(desk[g])'
  BY <1>2, <1>5, StillFound
<1>6. ASSUME NEW h \in Handlers \ {g}, NEW w, NEW e, RefreshConflicts(h, w, e),
             UNCHANGED <<status, window>>
      PROVE  FoundOut(desk[g])'
  <2> DEFINE b == d.fresh /\ d.ch # desk[h].ch
  <2>1. desk'[g] = [d EXCEPT !.fresh = b]
    BY <1>1, <1>2, <1>6 DEF RefreshConflicts
  <2>2. d.ch # desk[h].ch => (d.ch \in blocked <=> d.ch \in blocked')
    BY <1>6 DEF RefreshConflicts
  <2>3. /\ desk'[g].pc = d.pc /\ desk'[g].ch = d.ch /\ desk'[g].act = d.act
        /\ desk'[g].win = d.win /\ desk'[g].override = d.override /\ desk'[g].fresh = b
    BY <1>2, <2>1 DEF DeskType
  <2> QED BY <1>2, <1>6, <2>2, <2>3, StillFound
<1>7. ASSUME Weigh(g) PROVE FoundOut(desk[g])'
  <2> DEFINE w == IF d.act = "schedule" THEN d.win ELSE window[d.ch]
             e == [d EXCEPT !.pc = "count", !.fresh = TRUE]
  <2>1. RefreshConflicts(g, w, e) /\ UNCHANGED <<status, window>>
    BY <1>1, <1>7 DEF Weigh
  <2>2. desk'[g] = e
    BY <1>2, <2>1 DEF RefreshConflicts
  <2>3. /\ e.pc = "count" /\ e.ch = d.ch /\ e.act = d.act /\ e.win = d.win
    BY <1>2 DEF DeskType
  <2>4. d.act = "schedule" /\ d.ch \in High => (d.ch \in blocked' <=> Overlaps(d.ch, d.win))
    BY <1>1, <2>1 DEF RefreshConflicts
  <2> HIDE DEF e
  <2>5. Overlaps(d.ch, d.win)' <=> Overlaps(d.ch, d.win)
    BY <2>1 DEF Overlaps
  <2>6. /\ desk'[g].pc = "count" /\ desk'[g].ch = d.ch /\ desk'[g].act = d.act
        /\ desk'[g].win = d.win
    BY <2>2, <2>3
  <2> QED BY <2>4, <2>5, <2>6 DEF FoundOut, Overlaps
<1>8. ASSUME Count(g) PROVE FoundOut(desk[g])'
  <2>1. CASE Finish(g)
    BY <1>2, <1>3, <1>4, <2>1 DEF Finish
  <2>2. CASE /\ ~(d.ch \in blocked /\ ~d.override)
             /\ Goto(g, IF d.act = "schedule" THEN "write" ELSE "existing")
    <3>1. d.pc = "count" /\ UNCHANGED <<status, window, blocked>>
      BY <1>1, <1>8 DEF Count, At
    <3>2. /\ desk'[g].pc # "count"
          /\ desk'[g].ch = d.ch /\ desk'[g].act = d.act /\ desk'[g].win = d.win
          /\ desk'[g].override = d.override /\ desk'[g].fresh = d.fresh
      BY <1>1, <1>2, <2>2 DEF Goto, DeskType
    <3>3. d.fresh /\ d.act = "schedule" /\ d.ch \in High /\ ~d.override => ~Overlaps(d.ch, d.win)
      BY <1>2, <2>2, <3>1 DEF FoundOut
    <3> QED BY <3>1, <3>2, <3>3 DEF FoundOut, Overlaps
  <2> QED BY <1>1, <1>8, <2>1, <2>2 DEF Count
<1>9. ASSUME Withdraw(g) \/ Existing(g) \/ Ask(g) PROVE FoundOut(desk[g])'
  <2>1. d.act # "schedule"
    BY <1>1, <1>2, <1>9 DEF Withdraw, Existing, Ask, At, OnItsWay
  <2>2. desk'[g].act = d.act
    BY <1>1, <1>2, <1>9 DEF Withdraw, Existing, Ask, Goto, DeskType
  <2> QED BY <2>1, <2>2 DEF FoundOut
<1>10. ASSUME Tally(g) PROVE FoundOut(desk[g])'
  <2>1. CASE Finish(g)
    BY <1>2, <1>3, <1>4, <2>1 DEF Finish
  <2>2. CASE Goto(g, "admit")
    <3>1. desk'[g].pc = "admit"
      BY <1>2, <2>2 DEF Goto, DeskType
    <3> QED BY <3>1 DEF FoundOut
  <2> QED BY <1>10, <2>1, <2>2 DEF Tally
<1>11. ASSUME Decide(g) \/ Die(g) \/ Refresh(g) PROVE FoundOut(desk[g])'
  <2>1. CASE Decide(g)
    <3> DEFINE pc == IF desk[g].verdict = "rejected" THEN "refuse" ELSE "tally"
    <3>1. desk'[g] = [Idle EXCEPT !.ch = desk[g].ch, !.pc = pc]
      BY <1>2, <2>1 DEF Decide
    <3> HIDE DEF pc
    <3>2. ~desk'[g].fresh
      BY <1>4, <3>1 DEF DeskType
    <3> QED BY <1>3, <3>2
  <2>2. CASE Die(g)
    BY <1>2, <1>3, <1>4, <2>2 DEF Die, Finish
  <2>3. CASE Refresh(g)
    BY <1>2, <1>3, <1>4, <2>3 DEF Refresh, RefreshConflicts
  <2> QED BY <1>11, <2>1, <2>2, <2>3
<1>12. ASSUME NEW c \in Changes, NEW act \in Actions, NEW w \in Windows \cup {"none"},
              NEW override \in BOOLEAN, Transition(g, c, act, w, override)
       PROVE  FoundOut(desk[g])'
  <2>1. ~desk'[g].fresh
    BY <1>2, <1>4, <1>12 DEF Transition, Begin, DeskType
  <2> QED BY <1>3, <2>1
<1>13. ASSUME NEW c \in Changes, NEW r \in Approvals, NEW verdict \in {"approved", "rejected"},
              DecideRead(g, c, r, verdict)
       PROVE  FoundOut(desk[g])'
  <2>1. ~desk'[g].fresh
    BY <1>2, <1>4, <1>13 DEF DecideRead, Begin, DeskType
  <2> QED BY <1>3, <2>1
<1>14. ASSUME NEW h \in Handlers, NEW e, ~e.fresh, desk' = Outdated(h, e)
       PROVE  FoundOut(desk[g])'
  <2>1. ~desk'[g].fresh
    BY <1>2, <1>14 DEF Outdated, DeskType
  <2> QED BY <1>3, <2>1
<1>15. ASSUME NEW c \in Changes PROVE ~[Idle EXCEPT !.pc = "refresh", !.ch = c].fresh
  BY <1>4 DEF DeskType
<1>16. ASSUME NEW h \in Handlers, WriteStatus(h) PROVE FoundOut(desk[g])'
  <2>1. desk[h].ch \in Changes
    BY <1>2 DEF DeskType
  <2> QED BY <1>14, <1>15, <1>16, <2>1 DEF WriteStatus
<1>17. ASSUME NEW h \in Handlers, Refuse(h) \/ Admit(h) PROVE FoundOut(desk[g])'
  BY <1>4, <1>14, <1>17 DEF Refuse, Admit, Move
<1>18. ASSUME NEW h \in Handlers, NEW c \in Changes, NEW to \in Statuses, NEW w \in Windows,
              Patch(h, c, to, w)
       PROVE  FoundOut(desk[g])'
  BY <1>14, <1>15, <1>18 DEF Patch
<1>19. ASSUME NEW h \in Handlers \ {g}, Weigh(h) \/ Refresh(h) PROVE FoundOut(desk[g])'
  BY <1>6, <1>19 DEF Weigh, Refresh
<1>20. ASSUME NEW h \in Handlers \ {g},
              Count(h) \/ Withdraw(h) \/ Existing(h) \/ Ask(h) \/ Decide(h) \/ Tally(h) \/ Die(h)
       PROVE  FoundOut(desk[g])'
  <2>1. desk'[g] = d
    BY <1>1, <1>2, <1>20 DEF Count, Withdraw, Existing, Ask, Decide, Tally, Die, Finish, Goto
  <2>2. UNCHANGED <<status, window, blocked>>
    BY <1>20 DEF Count, Withdraw, Existing, Ask, Decide, Tally, Die
  <2> QED BY <1>5, <2>1, <2>2
<1>21. ASSUME NEW h \in Handlers \ {g}, NEW c \in Changes, NEW act \in Actions,
              NEW w \in Windows \cup {"none"}, NEW override \in BOOLEAN,
              Transition(h, c, act, w, override)
       PROVE  FoundOut(desk[g])'
  BY <1>1, <1>2, <1>5, <1>21 DEF Transition, Begin
<1>22. ASSUME NEW h \in Handlers \ {g}, NEW c \in Changes, NEW r \in Approvals,
              NEW verdict \in {"approved", "rejected"}, DecideRead(h, c, r, verdict)
       PROVE  FoundOut(desk[g])'
  BY <1>1, <1>2, <1>5, <1>22 DEF DecideRead, Begin
<1>23. CASE UNCHANGED vars
  BY <1>1, <1>5, <1>23 DEF vars
<1>24. ASSUME NEW h \in Handlers, Handle(h) \/ Die(h) PROVE FoundOut(desk[g])'
  BY <1>7, <1>8, <1>9, <1>10, <1>11, <1>16, <1>17, <1>19, <1>20, <1>24 DEF Handle
<1>25. ASSUME NEW h \in Handlers, NEW c \in Changes, Request(h, c) PROVE FoundOut(desk[g])'
  BY <1>12, <1>13, <1>18, <1>21, <1>22, <1>25 DEF Request
<1> QED BY <1>23, <1>24, <1>25 DEF Next

\* How a change comes to be scheduled.
LEMMA ScheduledHow ==
  ASSUME TypeOK, DeskInv, [Next]_vars, NEW c \in Changes, status'[c] = "scheduled"
  PROVE  \/ status[c] = "scheduled" /\ window'[c] = window[c]
         \/ c \in patched' \cup raced'
         \/ \E h \in Handlers :
              /\ desk[h].pc = "write" /\ desk[h].ch = c /\ desk[h].act = "schedule"
              /\ desk[h].fresh /\ ~desk[h].override
              /\ window'[c] = desk[h].win
              /\ \A x \in Changes \ {c} : status'[x] = status[x] /\ window'[x] = window[x]
<1> USE DEF tables, history
<1>1. ASSUME NEW h \in Handlers, WriteStatus(h), desk[h].ch = c
      PROVE  \/ c \in raced'
             \/ /\ desk[h].pc = "write" /\ desk[h].act = "schedule"
                /\ desk[h].fresh /\ ~desk[h].override
                /\ window'[c] = desk[h].win
                /\ \A x \in Changes \ {c} : status'[x] = status[x] /\ window'[x] = window[x]
  <2>1. desk[h].pc = "write" /\ desk[h].act \in Actions
    BY <1>1 DEF WriteStatus, At, DeskInv, OnItsWay, Moving
  <2>2. desk[h].act = "schedule"
    <3>1. Target[desk[h].act] = "scheduled"
      BY <1>1 DEF WriteStatus, TypeOK
    <3> QED BY <2>1, <3>1, ActionsAre
  <2>3. desk[h].win \in Windows
    BY <1>1, <2>2 DEF DeskInv, OnItsWay
  <2>4. desk[h].override \in BOOLEAN /\ desk[h].fresh \in BOOLEAN
    BY DEF TypeOK, DeskType
  <2>5. window'[c] = desk[h].win \/ desk[h].win = "none"
    BY <1>1 DEF WriteStatus, TypeOK
  <2>6. \A x \in Changes \ {c} : status'[x] = status[x] /\ window'[x] = window[x]
    BY <1>1 DEF WriteStatus, TypeOK
  <2>7. desk[h].override \/ ~desk[h].fresh => c \in raced'
    BY <1>1, <2>2 DEF WriteStatus
  <2>8. desk[h].win # "none"
    BY <2>3, ChangeAssumption
  <2> QED BY <2>1, <2>2, <2>4, <2>5, <2>6, <2>7, <2>8
<1>2. ASSUME NEW h \in Handlers, WriteStatus(h), desk[h].ch # c
      PROVE  status'[c] = status[c] /\ window'[c] = window[c]
  BY <1>2 DEF WriteStatus, TypeOK
<1>3. ASSUME NEW h \in Handlers, Refuse(h) \/ Admit(h)
      PROVE  status'[c] = status[c] /\ window'[c] = window[c]
  BY <1>3 DEF Refuse, Admit, Move, TypeOK
<1>4. ASSUME NEW h \in Handlers, NEW x \in Changes, NEW to \in Statuses, NEW w \in Windows,
             Patch(h, x, to, w)
      PROVE  \/ c \in patched'
             \/ status'[c] = status[c] /\ window'[c] = window[c]
  <2>1. CASE x = c
    <3>1. patched' = patched \cup {x}
      BY <1>4 DEF Patch
    <3>2. x \in patched'
      BY <3>1
    <3> QED BY <2>1, <3>2
  <2>2. CASE x # c
    BY <1>4, <2>2 DEF Patch, TypeOK
  <2> QED BY <2>1, <2>2
<1>5. CASE UNCHANGED <<status, window>>
  BY <1>5
<1>6. ASSUME NEW h \in Handlers, Weigh(h) \/ Count(h) \/ Withdraw(h) \/ Existing(h) \/ Ask(h)
      PROVE  UNCHANGED <<status, window>>
  BY <1>6 DEF Weigh, Count, Withdraw, Existing, Ask
<1>7. ASSUME NEW h \in Handlers, Refresh(h) \/ Decide(h) \/ Tally(h) \/ Die(h)
      PROVE  UNCHANGED <<status, window>>
  BY <1>7 DEF Refresh, Decide, Tally, Die
<1>8. CASE \E h \in Handlers : Handle(h) \/ Die(h)
  <2>1. PICK h \in Handlers : Handle(h) \/ Die(h)
    BY <1>8
  <2>2. CASE WriteStatus(h)
    BY <1>1, <1>2, <2>2
  <2>3. CASE ~WriteStatus(h)
    BY <1>3, <1>5, <1>6, <1>7, <2>1, <2>3 DEF Handle
  <2> QED BY <2>2, <2>3
<1>9. CASE \E h \in Handlers, x \in Changes : Request(h, x)
  <2>1. PICK h \in Handlers, x \in Changes : Request(h, x)
    BY <1>9
  <2>2. CASE \E to \in Statuses, w \in Windows : Patch(h, x, to, w)
    BY <1>4, <2>2
  <2>3. CASE ~ \E to \in Statuses, w \in Windows : Patch(h, x, to, w)
    BY <1>5, <2>1, <2>3 DEF Request, Transition, DecideRead
  <2> QED BY <2>2, <2>3
<1>10. CASE UNCHANGED vars
  BY <1>5, <1>10 DEF vars
<1> QED BY <1>8, <1>9, <1>10 DEF Next

LEMMA ApartStep ==
  ASSUME ChangeInv, FreshInv, NoBlockedSchedule, [Next]_vars
  PROVE  NoBlockedSchedule'
<1>1. TypeOK /\ DeskInv
  BY DEF ChangeInv
<1> SUFFICES ASSUME NEW c \in High, NEW d \in High, c # d,
                    status'[c] = "scheduled", status'[d] = "scheduled", window'[c] = window'[d],
                    {c, d} \cap (patched' \cup raced') = {}
             PROVE  FALSE
  BY DEF NoBlockedSchedule
<1>2. c \in Changes /\ d \in Changes
  BY ChangeAssumption
<1> DEFINE Stood(x) == status[x] = "scheduled" /\ window'[x] = window[x]
           Put(x) == \E h \in Handlers :
             /\ desk[h].pc = "write" /\ desk[h].ch = x /\ desk[h].act = "schedule"
             /\ desk[h].fresh /\ ~desk[h].override
             /\ window'[x] = desk[h].win
             /\ \A y \in Changes \ {x} : status'[y] = status[y] /\ window'[y] = window[y]
<1>3. (Stood(c) \/ Put(c)) /\ (Stood(d) \/ Put(d))
  BY <1>1, <1>2, ScheduledHow
<1>4. ASSUME NEW x \in High, NEW y \in High \cap Changes, x # y, Put(x),
             status'[y] = "scheduled", window'[x] = window'[y]
      PROVE  FALSE
  <2>1. PICK h \in Handlers :
          /\ desk[h].pc = "write" /\ desk[h].ch = x /\ desk[h].act = "schedule"
          /\ desk[h].fresh /\ ~desk[h].override
          /\ window'[x] = desk[h].win
          /\ \A z \in Changes \ {x} : status'[z] = status[z] /\ window'[z] = window[z]
    BY <1>4
  <2>2. ~Overlaps(x, desk[h].win)
    BY <2>1 DEF FreshInv, FoundOut
  <2>3. status[y] = "scheduled" /\ window[y] = desk[h].win
    BY <1>4, <2>1
  <2> QED BY <1>4, <2>2, <2>3 DEF Overlaps, Live
<1>5. ~Put(c) /\ ~Put(d)
  BY <1>2, <1>4
<1>6. patched \subseteq patched' /\ raced \subseteq raced'
  <2>1. raced \subseteq raced'
    <3>1. ASSUME NEW h \in Handlers, NEW x \in Changes, Request(h, x) PROVE UNCHANGED raced
      BY <3>1 DEF Request, Transition, DecideRead, Patch, history
    <3>2. ASSUME NEW h \in Handlers, Handle(h) \/ Die(h) PROVE raced \subseteq raced'
      BY <3>2 DEF Handle, Weigh, Count, Withdraw, Existing, Ask, WriteStatus, Refresh, Decide,
         Refuse, Tally, Admit, Move, Die, history
    <3>3. UNCHANGED vars => UNCHANGED raced
      BY DEF vars, history
    <3> QED BY <3>1, <3>2, <3>3 DEF Next
  <2> QED BY <2>1, HistoryGrows
<1> QED BY <1>3, <1>5, <1>6 DEF NoBlockedSchedule

-----------------------------------------------------------------------------
(***************************************************************************)
(* The theorems.                                                           *)
(***************************************************************************)

\* In every reachable state of ChangeControl's handlers the inductive invariant holds.
THEOREM ChangeInvariant == Spec => []ChangeInv
<1>1. ChangeInv /\ [Next]_vars => ChangeInv'
  BY TypeStep, DeskStep, UndecidedStep, DraftsStep, ApprovalsStep DEF ChangeInv
<1> QED BY InitInv, <1>1, PTL DEF Spec

\* The variables keep their types; in particular the rows of a change are numbered without
\* a gap, and a handler that asks for approvals has some left to ask for.
THEOREM ChangeTypeCorrect == Spec => []TypeOK
<1>1. ChangeInv => TypeOK
  BY DEF ChangeInv
<1> QED BY ChangeInvariant, <1>1, PTL

\* However many handlers decide and transition at once, a change past its approval has no
\* approval pending, and the last approver moves it on (routes.ts:1575).
THEOREM NobodyIsPassedOver == Spec => []ApprovalsDecide
<1>1. ChangeInv => ApprovalsDecide
  BY DEF ChangeInv
<1> QED BY ChangeInvariant, <1>1, PTL

\* Of two changes of high risk in one window at most one is scheduled, unless a manager
\* overrode or changes moved between the look and the UPDATE (routes.ts:1593).
THEOREM ScheduledApart == Spec => []NoBlockedSchedule
<1>1. Init => FreshInv /\ NoBlockedSchedule
  BY IdleType, ChangeAssumption DEF Init, FreshInv, FoundOut, NoBlockedSchedule
<1>2. ApartInv /\ [Next]_vars => ApartInv'
  <2> SUFFICES ASSUME ApartInv, [Next]_vars PROVE ApartInv'
    OBVIOUS
  <2>1. ChangeInv'
    BY TypeStep, DeskStep, UndecidedStep, DraftsStep, ApprovalsStep DEF ApartInv, ChangeInv
  <2>2. FreshInv' /\ NoBlockedSchedule'
    BY FreshStep, ApartStep DEF ApartInv, ChangeInv
  <2> QED BY <2>1, <2>2 DEF ApartInv
<1>3. Init => ApartInv
  BY InitInv, <1>1 DEF ApartInv
<1>4. ApartInv => NoBlockedSchedule
  BY DEF ApartInv
<1> QED BY <1>2, <1>3, <1>4, PTL DEF Spec
=============================================================================
