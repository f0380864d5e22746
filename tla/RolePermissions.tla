---------------------------- MODULE RolePermissions ----------------------------
(***************************************************************************)
(* How the extension decides from Azure role definitions what the          *)
(* signed-in user may do: commands/utils/roleAssignments.ts and the probes *)
(* of aksCheckPermissions.  A permission is a record of four sets; a       *)
(* wildcard pattern is the set of the actions it matches.                  *)
(***************************************************************************)
EXTENDS FiniteSets

CONSTANTS
    RoleNames,      \* role definitions
    PermissionOf    \* the permission of each role definition

Actions == {"assignRoles", "createCluster", "createRegistry", "userCredential", "workloads",
            "push", "tasks"}

Permission == [actions : SUBSET Actions, notActions : SUBSET Actions,
               dataActions : SUBSET Actions, notDataActions : SUBSET Actions]

ASSUME PermissionAssumption == PermissionOf \in [RoleNames -> Permission]

\* findGrantingAction, and evaluateRoleAssignmentWrite for the action "assignRoles".
FindGrantingAction(permissions, action, kind) ==
    \E p \in permissions :
        IF kind = "action"
        THEN action \in p.actions \ p.notActions
        ELSE action \in p.dataActions \ p.notDataActions

\* grantsActionEitherBucket.
GrantsActionEitherBucket(permissions, action) ==
    \/ FindGrantingAction(permissions, action, "action")
    \/ FindGrantingAction(permissions, action, "dataAction")

PermissionsOf(roles) == {PermissionOf[r] : r \in roles}

\* unionPermissionsForRoleDefinitions: a definition that cannot be read is skipped.
UnionPermissions(roles, readable) == PermissionsOf(roles \cap readable)

\* summarizeSubscriptionRole and summarizeRoleCommandResult.
RoleSummary(permissions) ==
    IF FindGrantingAction(permissions, "assignRoles", "action") THEN "can" ELSE "cannot"

\* runProvisioningPermissionsStage.
DeploymentSummary(permissions) ==
    {a \in {"createCluster", "createRegistry"} : FindGrantingAction(permissions, a, "action")}

\* runReadinessStage: what is expected to be granted once the cluster exists.
ReadinessSummary(permissions, role) ==
    {a \in {"userCredential", "workloads"} : role = "can"}
      \cup {a \in {"push"} : FindGrantingAction(permissions, a, "dataAction")}
      \cup {a \in {"tasks"} : FindGrantingAction(permissions, a, "action")}

\* runProbes with the scope "user": a probe passes if the permissions on the cluster, or on
\* the registry, were read and grant it; readable names the resources that could be read.
UserProbes(permissions, readable, withAcr) ==
    {a \in {"userCredential", "workloads"} :
        "cluster" \in readable /\ GrantsActionEitherBucket(permissions, a)}
      \cup {a \in {"push", "tasks"} :
        withAcr /\ "acr" \in readable /\ GrantsActionEitherBucket(permissions, a)}
=============================================================================
