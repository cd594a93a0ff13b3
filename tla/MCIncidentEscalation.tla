------------------------- MODULE MCIncidentEscalation -------------------------
(***************************************************************************)
(* Instances of IncidentEscalation for TLC.                                *)
(***************************************************************************)
EXTENDS IncidentEscalation

SetStatus(s) == [status |-> s, reason |-> "unset", group |-> "unset"]

HoldBodies ==
  {SetStatus(s) : s \in {"in_progress", "resolved"}}
    \cup {[status |-> "pending", reason |-> "caller", group |-> "unset"]}
=============================================================================
