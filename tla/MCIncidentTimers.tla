--------------------------- MODULE MCIncidentTimers ---------------------------
(***************************************************************************)
(* Instances of IncidentTimers for TLC.                                    *)
(***************************************************************************)
EXTENDS IncidentTimers

SetStatus(s) == [status |-> s, reason |-> "unset", group |-> "unset"]

ResolveBodies == {SetStatus(s) : s \in {"in_progress", "resolved"}}
=============================================================================
