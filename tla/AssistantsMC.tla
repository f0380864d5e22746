------------------------------ MODULE AssistantsMC ------------------------------
(***************************************************************************)
(* The assistants that prepare a project for GitHub Actions: Container     *)
(* Assist, and the setup of GitHub's access to Azure.  They share no       *)
(* state, so a behaviour is one of one assistant, which "opened" names.    *)
(*                                                                         *)
(* One flow of Container Assist that may do anything, where every other    *)
(* writer of the project's files is the user of the model; and two setups, *)
(* each target beside one that shares the cluster with it, or that has     *)
(* none.                                                                   *)
(***************************************************************************)
EXTENDS ContainerAssist, OidcSetup, TLC

CONSTANTS w1, s1, s2

VARIABLE opened

OneFlow == {w1}
AnyPicks == w1 :> SUBSET Kinds

TwoSetups == {s1, s2}
TwoTargets ==
    {(s1 :> "userAcr" @@ s2 :> "user"), (s1 :> "managedAcr" @@ s2 :> "none"),
     (s1 :> "managed" @@ s2 :> "managed")}

\* The values of two assistants are swapped in step: only one of the two is opened.
InStep(A, B) ==
    {pair[1] @@ pair[2] : pair \in
        {p \in Permutations(A) \X Permutations(B) :
            (\A x \in A : p[1][x] = x) <=> (\A y \in B : p[2][y] = y)}}
Symmetry == InStep(Modules, SetupRepos) \cup Permutations(Identities)

-----------------------------------------------------------------------------
assistantsVars == <<opened, vars, oidcVars>>

\* Where an assistant that is not opened starts does not matter.  No guide is there at first: the
\* user may write one.  The role and the files have nothing to do with each other: where the role
\* is there at first, no file is.
AssistantsInit ==
    /\ opened \in {"assist", "oidc"}
    /\ Init /\ OidcInit
    /\ disk[Guide] = "absent"
    /\ opened # "assist" => ~pull
    /\ opened # "assist" \/ pull => disk = [f \in Files |-> "absent"]
    /\ opened # "oidc" => targets = (s1 :> "managed" @@ s2 :> "managed")

\* What the user does after the last flow has ended concerns none.
AssistFlow ==
    /\ opened = "assist" /\ \E w \in Flows : told[w] = "none"
    /\ Next /\ UNCHANGED <<opened, oidcVars>>

SetupOfAccess == opened = "oidc" /\ OidcNext /\ UNCHANGED <<opened, vars>>

AssistantsNext == AssistFlow \/ SetupOfAccess

AssistantsSpec == AssistantsInit /\ [][AssistantsNext]_assistantsVars

\* Both assistants keep the promise of ConsentedChanges: what they change was agreed to,
\* and what they call complete is done, or was reported.
PromisesKept == KeepsPromise /\ SetupKeepsPromise
=============================================================================
