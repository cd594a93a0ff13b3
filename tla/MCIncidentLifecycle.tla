------------------------- MODULE MCIncidentLifecycle -------------------------
(***************************************************************************)
(* Instances of IncidentLifecycle for TLC: the bodies the web client sends. *)
(***************************************************************************)
EXTENDS IncidentLifecycle, TLC

CONSTANTS h1, h2

HandlerSymmetry == Permutations({h1, h2})

SetStatus(s)  == [status |-> s, reason |-> "unset", group |-> "unset"]
Hold(r)       == [status |-> "pending", reason |-> r, group |-> "unset"]
SetReason(r)  == [status |-> "unset", reason |-> r, group |-> "unset"]
SetGroup(g)   == [status |-> "unset", reason |-> "unset", group |-> g]
HandOver(r, g) == [status |-> "pending", reason |-> r, group |-> g]

StatusBodies == {SetStatus(s) : s \in {"in_progress", "resolved", "closed", "cancelled"}}
ClockBodies  == StatusBodies \cup {Hold("caller"), Hold("other"), SetReason("waiting"),
                                   SetGroup("ola"), HandOver("caller", "ola")}
=============================================================================
