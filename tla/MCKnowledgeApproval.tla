------------------------- MODULE MCKnowledgeApproval -------------------------
(***************************************************************************)
(* An instance of KnowledgeApproval for TLC.                               *)
(***************************************************************************)
EXTENDS KnowledgeApproval, TLC

CONSTANTS h1, h2
=============================================================================
