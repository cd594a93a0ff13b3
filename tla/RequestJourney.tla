---------------------------- MODULE RequestJourney ----------------------------
(***************************************************************************)
(* What requesters and approvers rely on, with no workflow, activity, row  *)
(* or retry in sight: a request passes its stages one after the other,     *)
(* each once its approvals were given; nobody is asked before it is their  *)
(* stage's turn; and it is decided once, for a reason.                     *)
(***************************************************************************)
EXTENDS Naturals

CONSTANTS
  Approvals, \* the approvals of the service item
  Order,     \* the stage of each
  LastOrder, \* the stages are 1..LastOrder
  Automated  \* the stages at which an automation runs

VARIABLES
  status,    \* "submitted", "open" or decided
  stage,     \* the stage that is worked on
  answers,   \* what was said of each approval; two people may differ
  withdrawn  \* has somebody cancelled a task?

vars == <<status, stage, answers, withdrawn>>

Decided == {"fulfilled", "rejected", "cancelled"}

Init ==
  /\ status = "submitted"
  /\ stage = 1
  /\ answers = [t \in Approvals |-> {}]
  /\ withdrawn = FALSE

Open ==
  /\ status = "submitted"
  /\ status' = "open"
  /\ UNCHANGED <<stage, answers, withdrawn>>

\* Approvals of a later stage can only be skipped.
Respond ==
  /\ status \notin Decided
  /\ \E given \in [Approvals -> SUBSET {"approved", "rejected", "skipped"}] :
       /\ \A t \in Approvals : Order[t] > stage => given[t] \subseteq {"skipped"}
       /\ answers' = [t \in Approvals |-> answers[t] \cup given[t]]
  /\ withdrawn' \in {withdrawn, TRUE}
  /\ UNCHANGED <<status, stage>>

Granted ==
  \A t \in Approvals : Order[t] = stage => answers[t] \cap {"approved", "skipped"} # {}

Refused ==
  \/ \E t \in Approvals : Order[t] = stage /\ "rejected" \in answers[t]
  \/ stage \in Automated

Advance ==
  /\ status = "open" /\ Granted /\ stage < LastOrder
  /\ stage' = stage + 1
  /\ UNCHANGED <<status, answers, withdrawn>>

Decide(outcome, reason) ==
  /\ status = "open" /\ reason
  /\ status' = outcome
  /\ UNCHANGED <<stage, answers, withdrawn>>

Fulfill == Decide("fulfilled", Granted /\ stage = LastOrder)
Reject  == Decide("rejected", Refused)
Cancel  == Decide("cancelled", withdrawn)

Next == Open \/ Respond \/ Advance \/ Fulfill \/ Reject \/ Cancel

Spec == Init /\ [][Next]_vars
=============================================================================
