------------------------------ MODULE AttachAcrMC ------------------------------
(***************************************************************************)
(* Two subscriptions, each with a registry and a cluster.                  *)
(***************************************************************************)
EXTENDS AttachAcr, TLC

CONSTANTS s1, s2, a1, a2, k1, k2, g, p1, p2

Homes == a1 :> [sub |-> s1, group |-> g] @@ a2 :> [sub |-> s2, group |-> g]
         @@ k1 :> [sub |-> s1, group |-> g] @@ k2 :> [sub |-> s2, group |-> g]

\* The second cluster's identity may pull from its whole resource group.
InSub == [NothingSelected EXCEPT !.sub = s2]
OneWorld == {[principalOf |-> k1 :> p1 @@ k2 :> p2, inherited |-> {<<p2, <<s2, g>>>>},
              opening |-> InSub]}
=============================================================================
