--------------------------- MODULE MCMajorIncident ---------------------------
(***************************************************************************)
(* An instance of MajorIncident for TLC.                                   *)
(***************************************************************************)
EXTENDS MajorIncident

CONSTANTS h1, h2, i1, i2
=============================================================================
