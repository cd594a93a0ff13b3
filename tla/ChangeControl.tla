---------------------------- MODULE ChangeControl ----------------------------
(***************************************************************************)
(* Changes on their way through assessment, approval and scheduling.       *)
(*                                                                         *)
(* A handler reads a change once, decides on what it read, and writes in   *)
(* statements that commit one by one and look at no status; they are steps *)
(* of their own.  So two handlers may pass each other anywhere.            *)
(*                                                                         *)
(* Left out: permissions, the fields a change needs to move on (each has   *)
(* them all), stages, dates of execution, due dates, the review of a       *)
(* closure and what it does to incidents, problems and standard changes,   *)
(* and conflicts other than overlapping windows.  A waived approval counts *)
(* as approved.  A transition reads a change and its approvals in one      *)
(* step, and conflicts are deleted and inserted in one step.               *)
(***************************************************************************)
EXTENDS Integers, FiniteSets

CONSTANTS
  Changes,
  Windows,      \* windows that do not overlap
  High,         \* changes of high or very high risk
  Emergency,    \* changes whose conflicts a manager may override
  Patchable,    \* bound: changes that somebody may patch
  Required,     \* approvals a change needs
  Handlers,     \* requests in progress at the same time
  LastApproval, \* bound: rows of change_approvals, by change
  MaxEvents     \* bound: requests sent, and handlers that die

ASSUME ChangeAssumption ==
  /\ Changes # {} /\ "none" \notin Windows
  /\ High \subseteq Changes /\ Emergency \subseteq Changes /\ Patchable \subseteq Changes
  /\ Required \in Nat \ {0}
  /\ LastApproval \in Nat /\ LastApproval >= Required
  /\ MaxEvents \in Nat

Approvals == 1..LastApproval

\* normalizeStatusAndStage
Target == [
  submit_assessment |-> "assessment", request_approval |-> "pending_approval",
  approve |-> "approved", reject |-> "rejected", start_planning |-> "planning",
  schedule |-> "scheduled", start_implementation |-> "implementing",
  mark_implemented |-> "implemented", start_review |-> "reviewing",
  close |-> "closed", cancel |-> "cancelled"]

Actions  == DOMAIN Target
Statuses == {"draft"} \cup {Target[a] : a \in Actions}

\* Whom a new window must not overlap, and who is past the approvals.
Live == {"approved", "scheduled", "implementing", "implemented", "reviewing"}
Past == Live \cup {"planning", "closed"}

VARIABLES
  status,     \* changes.status
  window,     \* changes.scheduled_start and scheduled_end
  approvals,  \* the rows of change_approvals
  blocked,    \* changes with a blocking row in change_conflicts
  desk,       \* what each handler is doing
  events,     \* requests sent, and handlers that died
  patched,    \* history: changes somebody has patched
  late,       \* history: changes for which approval was asked once more
  hasty,      \* history: changes decided before they awaited approval
  cut,        \* history: changes one of whose handlers died
  raced       \* history: changes scheduled by override, or on an old look

tables  == <<status, window, approvals, blocked>>
history == <<patched, late, hasty, cut, raced>>
vars    == <<tables, desk, events, history>>

DeskPCs == {"idle", "weigh", "count", "withdraw", "existing", "ask", "write", "refresh",
            "decide", "refuse", "tally", "admit"}

\* Only a decision brings a row and a verdict; a handler that asks for approvals has
\* some left to ask for.
DeskType == [pc : DeskPCs, ch : Changes, act : Actions \cup {"other"},
             win : Windows \cup {"none"}, override : BOOLEAN, fresh : BOOLEAN,
             row : Approvals, verdict : {"approved", "rejected"}, left : 0..Required]

RowStates == {"none", "pending", "approved", "rejected", "deleted"}

TypeOK ==
  /\ status \in [Changes -> Statuses]
  /\ window \in [Changes -> Windows]
  /\ approvals \in [Changes -> [Approvals -> RowStates]]
  /\ \A c \in Changes, r \in Approvals :
       approvals[c][r] # "none" => \A q \in 1..r : approvals[c][q] # "none"
  /\ blocked \subseteq Changes
  /\ desk \in [Handlers -> DeskType]
  /\ \A h \in Handlers : desk[h].pc = "ask" => desk[h].left > 0
  /\ events \in Nat
  /\ patched \subseteq Changes /\ late \subseteq Changes /\ hasty \subseteq Changes
  /\ cut \subseteq Changes /\ raced \subseteq Changes

Idle == [pc |-> "idle", ch |-> CHOOSE c \in Changes : TRUE, act |-> "other",
         win |-> "none", override |-> FALSE, fresh |-> FALSE, row |-> 1,
         verdict |-> "approved", left |-> 0]

NoApprovals == [r \in Approvals |-> "none"]
Asked(verdict) == [r \in Approvals |-> IF r <= Required THEN verdict ELSE "none"]

\* Changes somebody assesses, changes that await their approvals, and changes
\* that have them and are planned.
Init ==
  /\ status \in [Changes -> {"assessment", "pending_approval", "planning"}]
  /\ window \in [Changes -> Windows]
  /\ approvals = [c \in Changes |->
       CASE status[c] = "assessment"       -> NoApprovals
         [] status[c] = "pending_approval" -> Asked("pending")
         [] status[c] = "planning"         -> Asked("approved")]
  /\ blocked = {}
  /\ desk = [h \in Handlers |-> Idle]
  /\ events = 0
  /\ patched = {} /\ late = {} /\ hasty = {} /\ cut = {} /\ raced = {}

-----------------------------------------------------------------------------
(***************************************************************************)
(* Handlers.                                                               *)
(***************************************************************************)

At(h, pc) == desk[h].pc = pc
Finish(h) == desk' = [desk EXCEPT ![h] = Idle]
Goto(h, pc) == desk' = [desk EXCEPT ![h].pc = pc]

Event ==
  /\ events < MaxEvents
  /\ events' = events + 1

Begin(h, d) ==
  /\ Event
  /\ At(h, "idle")
  /\ desk' = [desk EXCEPT ![h] = d]

\* What handlers found about conflicts is out of date once a change moves.
Outdated(h, d) == [x \in Handlers |-> IF x = h THEN d ELSE [desk[x] EXCEPT !.fresh = FALSE]]

PendingRows(c) == {r \in Approvals : approvals[c][r] = "pending"}
Rows(c)        == {r \in Approvals : approvals[c][r] \notin {"none", "deleted"}}

-----------------------------------------------------------------------------
(***************************************************************************)
(* POST /:id/transition.                                                   *)
(***************************************************************************)

MayApprove(c) == status[c] = "pending_approval" /\ PendingRows(c) = {}

\* computeAllowedChangeActions
Allowed(c, act) ==
  CASE act = "submit_assessment"    -> status[c] = "draft"
    [] act = "request_approval"     -> status[c] = "assessment"
    [] act = "approve"              -> MayApprove(c)
    [] act = "reject"               -> status[c] = "pending_approval"
    [] act = "start_planning"       -> status[c] = "approved"
    [] act = "schedule"             -> status[c] = "planning"
    [] act = "start_implementation" -> status[c] = "scheduled"
    [] act = "mark_implemented"     -> status[c] = "implementing"
    [] act = "start_review"         -> status[c] = "implemented"
    [] act = "close"                -> status[c] = "reviewing"
    [] act = "cancel"               -> status[c] \notin {"closed", "cancelled"}

\* Where a transition goes once it is allowed.
FirstStep(act) ==
  CASE act \in {"schedule", "request_approval"} -> "weigh"
    [] act = "submit_assessment"                -> "withdraw"
    [] OTHER                                    -> "write"

\* Any transition may bring a window, and only a schedule must.
Transition(h, c, act, w, override) ==
  /\ Allowed(c, act)
  /\ act = "schedule" => w # "none"
  /\ override => act \in {"schedule", "request_approval"} /\ c \in Emergency
  /\ Begin(h, [Idle EXCEPT !.pc = FirstStep(act), !.ch = c, !.act = act, !.win = w,
                           !.override = override])
  /\ UNCHANGED <<tables, history>>

\* Mutant: only changes at work are in the way.
OverlapsAtWork(c, w) == \E d \in Changes \ {c} : status[d] = "implementing" /\ window[d] = w

\* The changes whose windows a new window must not overlap.
Overlaps(c, w) == \E d \in Changes \ {c} : status[d] \in Live /\ window[d] = w

\* refreshChangeConflicts; other handlers that counted on the change's conflicts
\* count on old ones now.
RefreshConflicts(h, w, d) ==
  LET c == desk[h].ch IN
  /\ blocked' = IF c \in High /\ Overlaps(c, w) THEN blocked \cup {c} ELSE blocked \ {c}
  /\ desk' = [x \in Handlers |-> IF x = h THEN d
                                 ELSE [desk[x] EXCEPT !.fresh = @ /\ desk[x].ch # c]]

Weigh(h) ==
  LET d == desk[h] IN
  /\ At(h, "weigh")
  /\ RefreshConflicts(h, IF d.act = "schedule" THEN d.win ELSE window[d.ch],
                      [d EXCEPT !.pc = "count", !.fresh = TRUE])
  /\ UNCHANGED <<status, window, approvals, events, history>>

\* writeChangeConflictSummary counts the blocking conflicts.
Count(h) ==
  LET d == desk[h] IN
  /\ At(h, "count")
  /\ IF d.ch \in blocked /\ ~d.override THEN Finish(h)
     ELSE Goto(h, IF d.act = "schedule" THEN "write" ELSE "existing")
  /\ UNCHANGED <<tables, events, history>>

\* DELETE FROM change_approvals
Withdraw(h) ==
  LET c == desk[h].ch IN
  /\ At(h, "withdraw")
  /\ approvals' = [approvals EXCEPT ![c] =
       [r \in Approvals |-> IF r \in Rows(c) THEN "deleted" ELSE approvals[c][r]]]
  /\ Goto(h, "write")
  /\ UNCHANGED <<status, window, blocked, events, history>>

\* A change that has approvals is asked for no more.
Existing(h) ==
  /\ At(h, "existing")
  /\ desk' = [desk EXCEPT ![h].pc = IF Rows(desk[h].ch) = {} THEN "ask" ELSE "write",
                          ![h].left = IF Rows(desk[h].ch) = {} THEN Required ELSE 0]
  /\ UNCHANGED <<tables, events, history>>

\* Mutant: the row of an approval may be written before the one ahead of it.
AnyRow(c, r) == approvals[c][r] = "none"

NextRow(c, r) ==
  approvals[c][r] = "none" /\ \A q \in Approvals : approvals[c][q] = "none" => r <= q

\* INSERT INTO change_approvals, one row at a time.
Ask(h) ==
  LET d == desk[h]  c == d.ch IN
  /\ At(h, "ask")
  /\ \E r \in Approvals : NextRow(c, r) /\ approvals' = [approvals EXCEPT ![c][r] = "pending"]
  /\ late' = IF status[c] # "assessment" THEN late \cup {c} ELSE late
  /\ desk' = [desk EXCEPT ![h].left = @ - 1, ![h].pc = IF d.left = 1 THEN "write" ELSE @]
  /\ UNCHANGED <<status, window, blocked, events, patched, hasty, cut, raced>>

\* UPDATE changes SET status, whatever it has become since.
WriteStatus(h) ==
  LET d == desk[h]  c == d.ch IN
  /\ At(h, "write")
  /\ status' = [status EXCEPT ![c] = Target[d.act]]
  /\ window' = [window EXCEPT ![c] = IF d.win = "none" THEN @ ELSE d.win]
  /\ desk' = Outdated(h, [Idle EXCEPT !.pc = "refresh", !.ch = c])
  /\ late' = IF d.act = "request_approval" /\ status[c] # "assessment"
             THEN late \cup {c} ELSE late
  /\ raced' = IF d.act = "schedule" /\ (d.override \/ ~d.fresh) THEN raced \cup {c} ELSE raced
  /\ UNCHANGED <<approvals, blocked, events, patched, hasty, cut>>

\* The conflicts are looked up again, and nobody is refused.
Refresh(h) ==
  /\ At(h, "refresh")
  /\ RefreshConflicts(h, window[desk[h].ch], Idle)
  /\ UNCHANGED <<status, window, approvals, events, history>>

-----------------------------------------------------------------------------
(***************************************************************************)
(* POST /:id/approvals/:approvalId/decision.                               *)
(***************************************************************************)

\* Any row, decided before or not.
DecideRead(h, c, r, verdict) ==
  /\ r \in Rows(c)
  /\ Begin(h, [Idle EXCEPT !.pc = "decide", !.ch = c, !.row = r,
                           !.verdict = verdict])
  /\ UNCHANGED <<tables, history>>

\* UPDATE change_approvals
Decide(h) ==
  LET d == desk[h]  c == d.ch IN
  /\ At(h, "decide")
  /\ approvals' = [approvals EXCEPT ![c][d.row] = IF @ = "deleted" THEN @ ELSE d.verdict]
  /\ hasty' = IF status[c] # "pending_approval" THEN hasty \cup {c} ELSE hasty
  /\ desk' = [desk EXCEPT ![h] = [Idle EXCEPT !.ch = c,
                !.pc = IF d.verdict = "rejected" THEN "refuse" ELSE "tally"]]
  /\ UNCHANGED <<status, window, blocked, events, patched, late, cut, raced>>

Move(h, to) ==
  /\ status' = [status EXCEPT ![desk[h].ch] = to]
  /\ desk' = Outdated(h, Idle)
  /\ UNCHANGED <<window, approvals, blocked, events, history>>

Refuse(h) == At(h, "refuse") /\ Move(h, "rejected")

\* Mutant: the majority of the approvals is enough.
IsMajority(c) == 2 * Cardinality(PendingRows(c)) <= Cardinality(Rows(c))

IsLast(c) == PendingRows(c) = {}

Tally(h) ==
  /\ At(h, "tally")
  /\ IF IsLast(desk[h].ch) THEN Goto(h, "admit") ELSE Finish(h)
  /\ UNCHANGED <<tables, events, history>>

Admit(h) == At(h, "admit") /\ Move(h, "approved")

-----------------------------------------------------------------------------
(***************************************************************************)
(* PATCH /:id, and handlers that die.                                      *)
(***************************************************************************)

\* Any status and window, whatever they were.
Patch(h, c, to, w) ==
  /\ c \in Patchable
  /\ At(h, "idle")
  /\ Event
  /\ status' = [status EXCEPT ![c] = to]
  /\ window' = [window EXCEPT ![c] = w]
  /\ patched' = patched \cup {c}
  /\ desk' = Outdated(h, [Idle EXCEPT !.pc = "refresh", !.ch = c])
  /\ UNCHANGED <<approvals, blocked, late, hasty, cut, raced>>

\* The engine goes down, or a statement fails.
Die(h) ==
  /\ ~At(h, "idle")
  /\ Event
  /\ cut' = cut \cup {desk[h].ch}
  /\ Finish(h)
  /\ UNCHANGED <<tables, patched, late, hasty, raced>>

Request(h, c) ==
  \/ \E act \in Actions, w \in Windows \cup {"none"}, override \in BOOLEAN :
       Transition(h, c, act, w, override)
  \/ \E r \in Approvals, verdict \in {"approved", "rejected"} : DecideRead(h, c, r, verdict)
  \/ \E to \in Statuses, w \in Windows : Patch(h, c, to, w)

Handle(h) ==
  \/ Weigh(h) \/ Count(h) \/ Withdraw(h) \/ Existing(h) \/ Ask(h)
  \/ WriteStatus(h) \/ Refresh(h)
  \/ Decide(h) \/ Refuse(h) \/ Tally(h) \/ Admit(h)

Next == \E h \in Handlers : Handle(h) \/ Die(h) \/ \E c \in Changes : Request(h, c)

Spec == Init /\ [][Next]_vars

-----------------------------------------------------------------------------
(***************************************************************************)
(* What the handlers promise, as long as nobody patches the change.        *)
(***************************************************************************)

Busy(c, pcs) == \E h \in Handlers : desk[h].ch = c /\ desk[h].pc \in pcs

\* routes.ts:1575: "All required approvals must be completed before approving the
\* change".  However decisions and transitions interleave, a change past its approval
\* has no approval pending; and the last approver moves the change on, also when the
\* last two decide at once.  Not so once approval was asked for again or decided before
\* the change waited for it, and a handler that dies moves nothing on.
ApprovalsDecide ==
  \A c \in Changes \ (patched \cup late \cup hasty) :
    /\ status[c] \in Past => PendingRows(c) = {}
    /\ status[c] = "pending_approval" /\ PendingRows(c) = {} =>
         c \in cut \/ Busy(c, {"refuse", "tally", "admit"})

\* routes.ts:1593: "Blocking schedule conflicts must be resolved before this
\* transition".  Of two changes of high risk in one window, at most one is scheduled,
\* unless a manager overrode, or changes moved between the look and the UPDATE.
NoBlockedSchedule ==
  \A c, d \in High :
    /\ c # d
    /\ status[c] = "scheduled" /\ status[d] = "scheduled"
    /\ window[c] = window[d]
    => {c, d} \cap (patched \cup raced) # {}
=============================================================================
