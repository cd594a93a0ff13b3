------------------------- MODULE MCWorkflowStartQueue -------------------------
(***************************************************************************)
(* Instances of WorkflowStartQueue for TLC.                                *)
(***************************************************************************)
EXTENDS WorkflowStartQueue, TLC

CONSTANTS e1, e2, notif, entity

\* The engines are interchangeable.
EngineSymmetry == Permutations({e1, e2})
=============================================================================
