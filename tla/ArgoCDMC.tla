-------------------------------- MODULE ArgoCDMC --------------------------------
(***************************************************************************)
(* Two commands, on two clusters and two repositories of one name.         *)
(***************************************************************************)
EXTENDS ArgoCD, TLC

CONSTANTS c1, c2

TwoCommands == {c1, c2}
Pairs == {c1 :> "apply" @@ c2 :> "actions", c1 :> "create" @@ c2 :> "apply"}

OneName == {"argocd-repo"}
SameName == [r \in ArgoRepos |-> "argocd-repo"]

Symmetry == Permutations(Clusters) \cup Permutations(ArgoRepos)
=============================================================================
