--------------------------- MODULE MCChangeControl ---------------------------
(***************************************************************************)
(* An instance of ChangeControl for TLC.                                   *)
(***************************************************************************)
EXTENDS ChangeControl, TLC

CONSTANTS h1, h2, c1, c2, w1, w2

Symmetry == Permutations({h1, h2}) \cup Permutations({w1, w2})
=============================================================================
