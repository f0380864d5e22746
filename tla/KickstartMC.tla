------------------------------ MODULE KickstartMC ------------------------------
(* The setup of a new or an existing cluster, and the stages that provision   *)
(* it.  A behaviour is one of the setup pages or of the stages, which         *)
(* "collecting" tells.                                                        *)
(*                                                                            *)
(* Setup: two subscriptions, the second without one of the clusters, and a    *)
(* user whose roles cannot assign roles.  Stages: two runs of any selection.  *)
EXTENDS KickstartSetup, KickstartStages

VARIABLE collecting

Two == {"s1", "s2"}
MCClusters == [s \in Two |-> IF s = "s1" THEN {"c", "d"} ELSE {"c"}]
MCConnected == [c \in {"c", "d"} |-> c = "c"]

MCRoles == {"owner", "contributor"}
NoPermission == [actions |-> {}, notActions |-> {}, dataActions |-> {}, notDataActions |-> {}]
MCPermissions ==
    [r \in MCRoles |->
        IF r = "owner" THEN [NoPermission EXCEPT !.actions = Actions]
        ELSE [NoPermission EXCEPT !.actions = Actions, !.notActions = {"assignRoles"}]]
MCWorlds == {[sub |-> {"contributor"}, group |-> {"contributor", "owner"}]}

TwoRuns == {1, 2}
AllSelections == Selections

-----------------------------------------------------------------------------
\* Where the part that is not shown starts does not matter.
KickstartInit ==
    /\ collecting \in BOOLEAN
    /\ SetupInit /\ Init
    /\ ~collecting => page.mode = "create"
    /\ collecting => ~group /\ ~mayAssign

SetupPages == collecting /\ SetupNext /\ UNCHANGED <<collecting, vars>>
ProvisioningStages == ~collecting /\ Next /\ UNCHANGED <<collecting, setupVars>>

KickstartSpec ==
    KickstartInit /\ [][SetupPages \/ ProvisioningStages]_<<collecting, setupVars, vars>>
=============================================================================
