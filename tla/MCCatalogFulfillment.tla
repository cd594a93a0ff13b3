------------------------ MODULE MCCatalogFulfillment ------------------------
(***************************************************************************)
(* Service items for TLC.                                                  *)
(***************************************************************************)
EXTENDS CatalogFulfillment, TLC

CONSTANTS approve, script, check, u1, u2

\* People are interchangeable.
UserSymmetry == Permutations({u1, u2})

\* A manager approval, then an automation that asks somebody, then an approval.
SerialOrder == (approve :> 1) @@ (script :> 2) @@ (check :> 3)
SerialKind  == (approve :> "approval") @@ (script :> "flow") @@ (check :> "approval")
SerialGates == (approve :> <<>>) @@ (script :> <<"manual">>) @@ (check :> <<>>)

\* Two automations next to each other, one of which asks somebody.
ParallelOrder == (script :> 1) @@ (check :> 1)
ParallelKind  == (script :> "flow") @@ (check :> "flow")
ParallelGates == (script :> <<"approval">>) @@ (check :> <<>>)

\* An approval for which there is no manager, one by a group, and the work.
GroupOrder == (approve :> 1) @@ (check :> 1) @@ (script :> 2)
GroupKind  == (approve :> "approval") @@ (check :> "approval") @@ (script :> "manual")
GroupGates == (approve :> <<>>) @@ (check :> <<>>) @@ (script :> <<>>)
=============================================================================
