---------------------------- MODULE WorkflowOutbox ----------------------------
(***************************************************************************)
(* What the users of the workflow start queue rely on, with no dispatcher, *)
(* claim, lock or retry in sight: a job that was asked for is started, and *)
(* only then reported as done; it never goes back a phase.                 *)
(***************************************************************************)
CONSTANT Jobs
VARIABLE phase

Phases == {"idle", "asked", "started", "done"}

Init == phase = [j \in Jobs |-> "idle"]

Move(j, from, to) == phase[j] = from /\ phase' = [phase EXCEPT ![j] = to]

Ask(j)     == Move(j, "idle", "asked")
Start(j)   == Move(j, "asked", "started")
Confirm(j) == Move(j, "started", "done")

Next == \E j \in Jobs : Ask(j) \/ Start(j) \/ Confirm(j)

SafeSpec == Init /\ [][Next]_phase

Spec ==
  /\ SafeSpec
  /\ \A j \in Jobs : WF_phase(Start(j)) /\ WF_phase(Confirm(j))
=============================================================================
