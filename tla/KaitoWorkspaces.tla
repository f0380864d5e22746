----------------------------- MODULE KaitoWorkspaces -----------------------------
(***************************************************************************)
(* The workspaces of a cluster, one per model, and the two pages that work *)
(* on them.  The models page deploys: its handler checks the cluster and   *)
(* the quota, applies the workspace and then watches it until it is ready  *)
(* or its token says that the user has turned away.  The manage page lists *)
(* the workspaces, deletes them, and deploys them anew.                    *)
(*                                                                         *)
(* A reading of a workspace and the post of what was read are one step,    *)
(* but for the handler's first reading, which it does not wait for: "late" *)
(* is that reading while its post is still to come.                        *)
(***************************************************************************)
EXTENDS Naturals, FiniteSets

CONSTANTS Models,
          Deployments, Operations,   \* the handlers of the two pages that may run at once
          NoModel

ASSUME ModelsAssumption == NoModel \notin Models
ASSUME WorkersAssumption == IsFiniteSet(Deployments) /\ IsFiniteSet(Operations)

VARIABLES
    workspaces,         \* in the cluster: absent, pending or ready
    gallery,            \* the models page: what is selected, and what it was posted
    cancelTokens,
    checksInProgress,
    deployments,        \* the handlers of the models page
    models,             \* the manage page: the workspaces it shows
    operatingState,
    operations          \* and its handlers

workspaceVars == <<workspaces, gallery, cancelTokens, checksInProgress, deployments,
                   models, operatingState, operations>>
modelsVars == <<gallery, cancelTokens, checksInProgress, deployments>>
manageVars == <<models, operatingState, operations>>

InitialProgress == [model |-> NoModel, state |-> "absent"]
NoDeployment == [model |-> NoModel, pc |-> "idle", late |-> "none"]
NoOperation == [model |-> NoModel, pc |-> "idle", redeploy |-> FALSE]

Deploying(d) == deployments[d].pc # "idle"
Operating(o) == operations[o].pc # "idle"

-----------------------------------------------------------------------------
(* The models page.                                                        *)

handleResetStateRequest(page) == [page EXCEPT !.shown = InitialProgress]
Cancelled(model) == IF model = NoModel THEN cancelTokens
                    ELSE [cancelTokens EXCEPT ![model] = TRUE]

handleModelClick(m) ==
    /\ gallery.selected # m
    /\ cancelTokens' = Cancelled(gallery.selected)
    /\ gallery' = [handleResetStateRequest(gallery) EXCEPT !.selected = m]
    /\ UNCHANGED <<workspaces, checksInProgress, deployments, manageVars>>

handleClose ==
    /\ gallery.selected # NoModel
    /\ cancelTokens' = Cancelled(gallery.selected)
    /\ gallery' = [handleResetStateRequest(gallery) EXCEPT !.selected = NoModel]
    /\ UNCHANGED <<workspaces, checksInProgress, deployments, manageVars>>

ShowsWorkspace == gallery.shown.model = gallery.selected /\ gallery.shown.state # "absent"

\* The request takes back a cancellation before it looks whether checks are under
\* way; when they are, nothing more is done and nothing is said.
onClickDeployKaito ==
    /\ gallery.selected # NoModel /\ ~ShowsWorkspace
    /\ cancelTokens' = [cancelTokens EXCEPT ![gallery.selected] = FALSE]
    /\ gallery' = handleResetStateRequest(gallery)
    /\ IF checksInProgress
       THEN UNCHANGED <<checksInProgress, deployments>>
       ELSE /\ checksInProgress' = TRUE
            /\ \E d \in Deployments :
                   /\ ~Deploying(d)
                   /\ deployments' = [deployments EXCEPT ![d] =
                          [NoDeployment EXCEPT !.model = gallery.selected, !.pc = "pods"]]
    /\ UNCHANGED <<workspaces, manageVars>>

-----------------------------------------------------------------------------
(* The handler of a deployment.                                            *)

DeployGoes(d, from, to) ==
    /\ deployments[d].pc = from
    /\ deployments' = [deployments EXCEPT ![d] = IF to = "idle" THEN NoDeployment
                                                 ELSE [@ EXCEPT !.pc = to]]
Token(d) == cancelTokens[deployments[d].model]
Unlocks == checksInProgress' = FALSE
KeepsLock == UNCHANGED checksInProgress
Unwatched == UNCHANGED <<workspaces, gallery, cancelTokens, manageVars>>

\* What throws in the checks is told, and the handler goes on to the watching.
ChecksThrow(d) ==
    /\ deployments[d].pc \in {"pods", "exists", "quota", "apply"}
    /\ DeployGoes(d, deployments[d].pc, "applied")
    /\ Unlocks /\ Unwatched

\* To the next check, or to the end for a deployment that was cancelled.
NextCheck(d, from, to) ==
    \/ DeployGoes(d, from, to) /\ ~Token(d) /\ KeepsLock
    \/ DeployGoes(d, from, "idle") /\ Token(d) /\ Unlocks

\* Mutant: a cluster that is not ready leaves the checks in progress.
NotReadyKeepsLock(d) ==
    /\ \/ NextCheck(d, "pods", "exists")
       \/ DeployGoes(d, "pods", "idle") /\ KeepsLock
    /\ Unwatched

isKaitoWorkspaceReady(d) ==
    /\ \/ NextCheck(d, "pods", "exists")
       \/ DeployGoes(d, "pods", "idle") /\ Unlocks
    /\ Unwatched

\* A workspace that exists needs no quota.
WorkspaceExists(d) ==
    /\ deployments[d].pc = "exists"
    /\ NextCheck(d, "exists", IF workspaces[deployments[d].model] = "absent" THEN "quota"
                              ELSE "apply")
    /\ Unwatched

isQuotaSufficient(d) ==
    /\ \/ NextCheck(d, "quota", "apply")
       \/ DeployGoes(d, "quota", "idle") /\ Unlocks
    /\ Unwatched

deployModel(model) == [workspaces EXCEPT ![model] = IF @ = "absent" THEN "pending" ELSE @]

Applies(d) ==
    /\ \/ DeployGoes(d, "apply", "idle") /\ UNCHANGED workspaces
       \/ DeployGoes(d, "apply", "applied") /\ workspaces' = deployModel(deployments[d].model)
    /\ Unlocks
    /\ UNCHANGED <<gallery, cancelTokens, manageVars>>

\* A cancellation is told as one even now that the workspace is deployed.  What the
\* first reading reads is posted whenever it arrives.
StartsWatching(d) ==
    /\ deployments[d].pc = "applied"
    /\ LET model == deployments[d].model
       IN deployments' = [deployments EXCEPT ![d] =
              IF Token(d) THEN NoDeployment
              ELSE [@ EXCEPT !.pc = "first", !.late = workspaces[model]]]
    /\ KeepsLock /\ Unwatched

\* A workspace that cannot be read is posted as none, and is not watched any more.
Posted(d, state) ==
    LET m == deployments[d].model IN
    IF state = "absent"
    THEN /\ gallery' = handleResetStateRequest(gallery)
         /\ cancelTokens' = Cancelled(m)
    ELSE /\ gallery' = [gallery EXCEPT !.shown = [model |-> m, state |-> state]]
         /\ UNCHANGED cancelTokens

\* What kubectl says of the workspace, if it says anything.
getProgress(d) == {workspaces[deployments[d].model], "absent"}

\* The loop is not entered for a workspace that is ready already.
FirstReading(d) ==
    /\ deployments[d].pc = "first"
    /\ \E state \in getProgress(d) :
           DeployGoes(d, "first", IF state = "ready" THEN "last" ELSE "watch")
    /\ KeepsLock /\ Unwatched

updateProgress(d) ==
    /\ deployments[d].pc = "watch" /\ ~Token(d)
    /\ \E state \in getProgress(d) :
           /\ Posted(d, state)
           /\ DeployGoes(d, "watch", IF state = "ready" THEN "last" ELSE "watch")
    /\ UNCHANGED <<workspaces, checksInProgress, manageVars>>

\* The reading that nobody waits for, which may arrive when its handler has ended:
\* a handler that has nothing else to do stays in its slot until it does.
LateProgress(d) ==
    /\ deployments[d].late # "none"
    /\ Posted(d, deployments[d].late)
    /\ deployments' = [deployments EXCEPT ![d] =
           IF @.pc = "ended" THEN NoDeployment ELSE [@ EXCEPT !.late = "none"]]
    /\ UNCHANGED <<workspaces, checksInProgress, manageVars>>

StopsWatching(d) == DeployGoes(d, deployments[d].pc,
                               IF deployments[d].late = "none" THEN "idle" ELSE "ended")

EndsWatching(d) ==
    /\ deployments[d].pc \in {"watch", "last"}
    /\ StopsWatching(d)
    /\ \/ /\ Token(d)
          /\ gallery' = handleResetStateRequest(gallery)
          /\ UNCHANGED cancelTokens
       \/ /\ deployments[d].pc = "last" /\ ~Token(d)
          /\ \E state \in getProgress(d) : Posted(d, state)
    /\ UNCHANGED <<workspaces, checksInProgress, manageVars>>

handleDeployKaitoRequest(d) ==
    \/ ChecksThrow(d) \/ isKaitoWorkspaceReady(d) \/ WorkspaceExists(d)
    \/ isQuotaSufficient(d) \/ Applies(d) \/ StartsWatching(d) \/ FirstReading(d)
    \/ updateProgress(d) \/ LateProgress(d) \/ EndsWatching(d)

-----------------------------------------------------------------------------
(* The manage page.                                                        *)

OperationGoes(o, from, to) ==
    /\ operations[o].pc = from
    /\ operations' = [operations EXCEPT ![o] = IF to = "idle" THEN NoOperation
                                               ELSE [@ EXCEPT !.pc = to]]

\* The page polls; a list that cannot be read is an empty one.
updateModels == \E all \in BOOLEAN :
    models' = IF all THEN {m \in Models : workspaces[m] # "absent"} ELSE {}

handleMonitorUpdateRequest ==
    /\ updateModels
    /\ UNCHANGED <<workspaces, modelsVars, operatingState, operations>>

\* An operation on a workspace that has one under way is refused.
Requests(m, redeploy) ==
    /\ m \in models /\ ~operatingState[m]
    /\ \E o \in Operations :
           /\ ~Operating(o)
           /\ operations' = [operations EXCEPT ![o] = [model |-> m, pc |-> "delete",
                                                       redeploy |-> redeploy]]
    /\ operatingState' = [operatingState EXCEPT ![m] = TRUE]
    /\ UNCHANGED <<workspaces, modelsVars, models>>

\* Which of the two the page offers depends on how old the workspace is, which the
\* model leaves open.
deleteWorkspace(m) == Requests(m, FALSE)
redeployWorkspace(m) == Requests(m, TRUE)

\* A deletion that fails is told, and then told to have succeeded.
DeletesWorkspace(o) ==
    /\ OperationGoes(o, "delete", "pools")
    /\ \/ workspaces' = [workspaces EXCEPT ![operations[o].model] = "absent"]
       \/ UNCHANGED workspaces
    /\ UNCHANGED <<modelsVars, operatingState>>
    /\ updateModels

OperationOver(o) == operatingState' = [operatingState EXCEPT ![operations[o].model] = FALSE]

\* Mutant: the redeployment goes on without marking the model again.
AppliesUnmarked(o) ==
    /\ \/ ~operations[o].redeploy /\ OperationGoes(o, "pools", "idle")
       \/ operations[o].redeploy /\ OperationGoes(o, "pools", "apply")
    /\ OperationOver(o)
    /\ UNCHANGED <<workspaces, modelsVars, models>>

\* The node pool's deletion is begun and not waited for.  When the pools cannot be
\* listed, a redeployment ends here too, with the workspace deleted.
DeletesPool(o) ==
    /\ \/ ~operations[o].redeploy /\ OperationGoes(o, "pools", "idle") /\ OperationOver(o)
       \/ operations[o].redeploy /\ OperationGoes(o, "pools", "idle") /\ OperationOver(o)
       \/ operations[o].redeploy /\ OperationGoes(o, "pools", "apply") /\ UNCHANGED operatingState
    /\ UNCHANGED <<workspaces, modelsVars, models>>

handleDeleteWorkspaceRequest(o) == DeletesWorkspace(o) \/ DeletesPool(o)

handleRedeployWorkspaceRequest(o) ==
    /\ OperationGoes(o, "apply", "idle")
    /\ OperationOver(o)
    /\ workspaces' \in {workspaces, deployModel(operations[o].model)}
    /\ updateModels
    /\ UNCHANGED modelsVars

\* The cluster brings a workspace up, and may lose it again.
WorkspaceChanges(m) ==
    /\ \/ workspaces[m] = "pending" /\ workspaces' = [workspaces EXCEPT ![m] = "ready"]
       \/ workspaces[m] = "ready" /\ workspaces' = [workspaces EXCEPT ![m] = "pending"]
    /\ UNCHANGED <<modelsVars, manageVars>>

-----------------------------------------------------------------------------
WorkspacesInit ==
    /\ workspaces \in [Models -> {"absent", "ready"}]
    /\ gallery = [selected |-> NoModel, shown |-> InitialProgress]
    /\ cancelTokens = [m \in Models |-> FALSE]
    /\ checksInProgress = FALSE
    /\ deployments = [d \in Deployments |-> NoDeployment]
    /\ models = {m \in Models : workspaces[m] # "absent"}
    /\ operatingState = [m \in Models |-> FALSE]
    /\ operations = [o \in Operations |-> NoOperation]

WorkspacesNext ==
    \/ \E m \in Models : handleModelClick(m)
    \/ handleClose \/ onClickDeployKaito
    \/ \E d \in Deployments : handleDeployKaitoRequest(d)
    \/ handleMonitorUpdateRequest
    \/ \E m \in Models : deleteWorkspace(m) \/ redeployWorkspace(m)
    \/ \E o \in Operations : \/ handleDeleteWorkspaceRequest(o)
                             \/ handleRedeployWorkspaceRequest(o)
    \/ \E m \in Models : WorkspaceChanges(m)

WorkspacesSpec == WorkspacesInit /\ [][WorkspacesNext]_workspaceVars

-----------------------------------------------------------------------------
\* The checks of one deployment keep out those of others until they are over, on
\* every path that ends them: nothing refuses a deployment for ever.
ChecksAreBacked ==
    checksInProgress
    <=> \E d \in Deployments : deployments[d].pc \in {"pods", "exists", "quota", "apply"}

\* A workspace is not deleted while it is deployed anew, nor twice at a time, whatever
\* the list on the page says of it, and is refused only as long as that lasts.
OneOperationPerWorkspace ==
    \A m \in Models :
        LET on == {o \in Operations : operations[o].model = m}
        IN Cardinality(on) <= 1 /\ (operatingState[m] <=> on # {})
=============================================================================
