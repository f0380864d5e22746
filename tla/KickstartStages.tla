---------------------------- MODULE KickstartStages ----------------------------
(***************************************************************************)
(* What the stages of kickstartProvision.ts do to Azure: the runs that the *)
(* panel creates for one choice of names (a resource group, a registry, a  *)
(* cluster), each retried stage by stage or abandoned, against the group,  *)
(* the registry, the cluster and the AcrPull assignment they reconcile.    *)
(*                                                                         *)
(* KickstartPanel has the panel's handlers and leaves Azure out; here it   *)
(* is the other way round.  Any remote call may fail, before or after its  *)
(* effect on Azure.                                                        *)
(***************************************************************************)
EXTENDS Integers, Sequences, FiniteSets

CONSTANTS
    Runs,       \* the runs that may be created
    Wanted,     \* what the user may ask for, a subset of Selections
    MaxNames,   \* bound on the deployment names drawn, and so on the creates
    Abandoning, \* whether the user may go back to setup while a run is going on
    None

Selections == {"new", "attachNewAcr", "attachOldAcr"}

ASSUME WantedAssumption == Wanted \subseteq Selections /\ Abandoning \in BOOLEAN
ASSUME NamesAssumption == MaxNames \in Nat
ASSUME FreshNone == None \notin Runs /\ None \notin Selections /\ None \notin Int

Names == 1 .. MaxNames

VARIABLES
    group,        \* the resource group exists
    registry,     \* the registry exists
    cluster,      \* provisioningState of the cluster, or "absent"
    deployments,  \* name -> state of the ARM deployment
    pull,         \* AcrPull is assigned to the kubelet identity
    listed,       \* ... and a list of its assignments shows it
    mayAssign,    \* the user may assign roles in the resource group
    active,       \* the run on the user's screen
    wants,        \* run -> selection it was made for
    pc,           \* run -> what its attempt is doing
    at,           \* run -> the stage it does that for
    early,        \* run -> the early AcrPull grant of the attempt
    cancelled,    \* run -> the attempt's token was cancelled
    named,        \* run -> context.clusterDeploymentName
    result,       \* run -> the result record its attempts share
    status,       \* run -> stage -> status last reported
    allowed       \* run -> a probe of roleAccess has found the permission

azureVars == <<group, registry, cluster, deployments, pull, listed, mayAssign>>
runVars == <<active, wants, pc, at, early, cancelled, named, result, status, allowed>>
vars == <<azureVars, runVars>>

StageNames == {"resourceGroup", "roleAccess", "acr", "cluster", "attach", "verify"}

Attaching(w) == w \in {"attachNewAcr", "attachOldAcr"}

\* The stages of createClusterProvisioningRun and createExistingClusterAttachRun.
StagesOf(w) ==
    IF Attaching(w)
    THEN <<"cluster", "acr", "roleAccess", "attach", "verify">>
    ELSE <<"resourceGroup", "roleAccess", "acr", "cluster", "attach", "verify">>

Stage(r) == StagesOf(wants[r])[at[r]]

NoStatus == [s \in StageNames |-> "none"]

NoResult == [succeeded |-> FALSE, portal |-> FALSE, loginServer |-> FALSE]

Active(n) == deployments[n] \in {"accepted", "applied"}

TypeOK ==
    /\ group \in BOOLEAN /\ registry \in BOOLEAN /\ pull \in BOOLEAN /\ listed \in BOOLEAN
    /\ mayAssign \in BOOLEAN
    /\ cluster \in {"absent", "Creating", "Succeeded", "Failed"}
    /\ deployments \in [Names -> {"none", "accepted", "applied", "succeeded", "failed"}]
    /\ active \in Runs \cup {None}
    /\ wants \in [Runs -> Selections \cup {None}]
    /\ pc \in [Runs -> {"idle", "working", "creating", "polling", "watching", "settling",
                        "prompting", "waiting", "denied"}]
    /\ at \in [Runs -> 1 .. 6]
    /\ \A r \in Runs : wants[r] # None => at[r] \in 1 .. Len(StagesOf(wants[r]))
    /\ early \in [Runs -> {"none", "reading", "granting", "done"}]
    /\ cancelled \in [Runs -> BOOLEAN]
    /\ named \in [Runs -> Names \cup {None}]
    /\ result \in [Runs -> [succeeded : BOOLEAN, portal : BOOLEAN, loginServer : BOOLEAN]]
    /\ status \in [Runs -> [StageNames -> {"none", "running", "succeeded", "warning", "unchecked",
                                            "failed"}]]
    /\ allowed \in [Runs -> BOOLEAN]

\* The user has picked names: of things to create, or of a cluster (and registry) that exist,
\* in whatever state: the list of clusters is not filtered.
Init ==
    /\ group \in BOOLEAN /\ registry \in BOOLEAN /\ mayAssign \in BOOLEAN /\ pull \in BOOLEAN
    /\ cluster \in {"absent", "Creating", "Succeeded", "Failed"}
    /\ registry \/ cluster # "absent" => group
    /\ pull => registry /\ cluster # "absent"
    /\ listed = pull
    /\ deployments = [n \in Names |-> "none"]
    /\ active = None
    /\ wants = [r \in Runs |-> None]
    /\ pc = [r \in Runs |-> "idle"]
    /\ at = [r \in Runs |-> 1]
    /\ early = [r \in Runs |-> "none"]
    /\ cancelled = [r \in Runs |-> FALSE]
    /\ named = [r \in Runs |-> None]
    /\ result = [r \in Runs |-> NoResult]
    /\ status = [r \in Runs |-> NoStatus]
    /\ allowed = [r \in Runs |-> FALSE]

-----------------------------------------------------------------------------
(* Azure                                                                    *)

AzureFrame == UNCHANGED <<group, registry, mayAssign, runVars>>

\* A deployment reaches the cluster.  The template put on a cluster that exists leaves it
\* as it is; one that is being created rejects it.
DeploymentApplies(n) ==
    /\ deployments[n] = "accepted"
    /\ \/ /\ cluster \in {"absent", "Failed"}
          /\ cluster' = "Creating"
          /\ deployments' = [deployments EXCEPT ![n] = "applied"]
       \/ /\ cluster \in {"Creating", "Succeeded"}
          /\ deployments' = [deployments EXCEPT ![n] =
                                IF cluster = "Creating" THEN "failed" ELSE "succeeded"]
          /\ UNCHANGED cluster
    /\ UNCHANGED <<pull, listed>> /\ AzureFrame

DeploymentEnds(n) ==
    /\ deployments[n] = "applied"
    /\ \/ cluster' = "Succeeded" /\ deployments' = [deployments EXCEPT ![n] = "succeeded"]
       \/ cluster' = "Failed" /\ deployments' = [deployments EXCEPT ![n] = "failed"]
    /\ UNCHANGED <<pull, listed>> /\ AzureFrame

\* The cluster that somebody else was creating is done.
OthersClusterEnds ==
    /\ cluster = "Creating"
    /\ \A n \in Names : deployments[n] # "applied"
    /\ cluster' \in {"Succeeded", "Failed"}
    /\ UNCHANGED <<deployments, pull, listed>> /\ AzureFrame

AssignmentAppears ==
    /\ pull /\ ~listed
    /\ listed' = TRUE
    /\ UNCHANGED <<cluster, deployments, pull>> /\ AzureFrame

\* An eligible role is activated, or its activation runs out.
PermissionChanges ==
    /\ mayAssign' = ~mayAssign
    /\ UNCHANGED <<group, registry, cluster, deployments, pull, listed, runVars>>

-----------------------------------------------------------------------------
(* runStages                                                                *)

RunFrame == UNCHANGED <<active, wants, mayAssign>>

\* Stage s of run r reports x and the next one, if any, reports that it runs.
NextStage(r, x) ==
    LET s == Stage(r)
        last == at[r] = Len(StagesOf(wants[r]))
    IN
    IF last
    THEN /\ status' = [status EXCEPT ![r][s] = x]
         /\ result' = [result EXCEPT ![r].succeeded = TRUE]
         /\ pc' = [pc EXCEPT ![r] = "idle"]
         /\ UNCHANGED at
    ELSE /\ status' = [status EXCEPT ![r][s] = x,
                                     ![r][StagesOf(wants[r])[at[r] + 1]] = "running"]
         /\ at' = [at EXCEPT ![r] = @ + 1]
         /\ pc' = [pc EXCEPT ![r] = "working"]
         /\ UNCHANGED result

\* ... and the same where the stage also records something in the shared result.
NextStageRecording(r, field) ==
    /\ status' = [status EXCEPT ![r][Stage(r)] = "succeeded",
                                ![r][StagesOf(wants[r])[at[r] + 1]] = "running"]
    /\ result' = [result EXCEPT ![r][field] = TRUE]
    /\ at' = [at EXCEPT ![r] = @ + 1]
    /\ pc' = [pc EXCEPT ![r] = "working"]

HaltRun(r) ==
    /\ status' = [status EXCEPT ![r][Stage(r)] = "failed"]
    /\ pc' = [pc EXCEPT ![r] = "idle"]
    /\ UNCHANGED <<at, result>>

\* The attempt of r goes on with p; its stage stays the same.
Continue(r, p) == pc' = [pc EXCEPT ![r] = p] /\ UNCHANGED <<at, result, status>>

Working(r, s) == pc[r] = "working" /\ Stage(r) = s

\* createOrUpdate of the group: existing or not, it is there afterwards.
ResourceGroupStage(r) ==
    /\ Working(r, "resourceGroup")
    /\ \/ group' = TRUE /\ (NextStage(r, "succeeded") \/ HaltRun(r))
       \/ UNCHANGED group /\ HaltRun(r)
    /\ RunFrame
    /\ UNCHANGED <<registry, cluster, deployments, pull, listed, early, cancelled, named,
                   allowed>>

\* The new registry, or the one the user picked (read again).
RegistryStage(r) ==
    /\ Working(r, "acr")
    /\ \/ /\ wants[r] # "attachOldAcr" /\ group
          /\ registry' = TRUE
          /\ NextStageRecording(r, "loginServer") \/ HaltRun(r)
       \/ /\ wants[r] = "attachOldAcr" /\ registry
          /\ UNCHANGED registry
          /\ NextStageRecording(r, "loginServer")
       \/ UNCHANGED registry /\ HaltRun(r)
    /\ RunFrame
    /\ UNCHANGED <<group, cluster, deployments, pull, listed, early, cancelled, named, allowed>>

-----------------------------------------------------------------------------
(* roleAccess                                                               *)

RoleFrame ==
    /\ RunFrame
    /\ UNCHANGED <<group, registry, cluster, deployments, pull, listed, early, cancelled, named>>

\* An existing registry whose live assignments already show AcrPull needs no grant.
NoGrantNeeded(r) == wants[r] = "attachOldAcr" /\ listed

\* needsGrant is false, or the probe found the permission.
AccessFound(r) ==
    /\ Working(r, "roleAccess")
    /\ \/ NoGrantNeeded(r) /\ UNCHANGED allowed
       \/ mayAssign /\ allowed' = [allowed EXCEPT ![r] = TRUE]
    /\ NextStage(r, "succeeded")
    /\ RoleFrame

\* The probe said no, or failed.
AccessMissing(r) ==
    /\ Working(r, "roleAccess")
    /\ Continue(r, "prompting")
    /\ RoleFrame /\ UNCHANGED allowed

\* The prompt is posted and the run parks at the gate, evicting whoever waits there.
PromptReady(r) ==
    /\ pc[r] = "prompting"
    /\ pc' = [q \in Runs |-> IF q = r THEN "waiting"
                             ELSE IF pc[q] = "waiting" THEN "denied" ELSE pc[q]]
    /\ UNCHANGED <<at, result, status>>
    /\ RoleFrame /\ UNCHANGED allowed

\* A recheck found the permission.
AccessGranted(r) ==
    /\ pc[r] = "waiting" /\ mayAssign
    /\ allowed' = [allowed EXCEPT ![r] = TRUE]
    /\ NextStage(r, "succeeded")
    /\ RoleFrame

\* Mutant of AccessDenied: the stage fails and the run goes on.
AccessDeniedGoesOn(r) ==
    /\ pc[r] = "denied"
    /\ NextStage(r, "failed")
    /\ RoleFrame /\ UNCHANGED allowed

\* The gate was cancelled, or given to another run.
AccessDenied(r) ==
    /\ pc[r] = "denied"
    /\ HaltRun(r)
    /\ RoleFrame /\ UNCHANGED allowed

-----------------------------------------------------------------------------
(* cluster                                                                  *)

\* The existing cluster of an attach run is read; nobody looks at its state.
ResolveCluster(r) ==
    /\ Working(r, "cluster") /\ Attaching(wants[r])
    /\ (cluster # "absent" /\ NextStageRecording(r, "portal")) \/ HaltRun(r)
    /\ RunFrame
    /\ UNCHANGED <<group, registry, cluster, deployments, pull, listed, early, cancelled, named,
                   allowed>>

DeployFrame ==
    /\ RunFrame
    /\ UNCHANGED <<group, registry, cluster, pull, listed, cancelled, allowed>>

UsedNames == {n \in Names : \E q \in Runs : named[q] = n}


\* context.clusterDeploymentName ??= a name nobody else draws.
DeploymentName(r) ==
    IF named[r] # None THEN UNCHANGED named
    ELSE \E n \in Names \ UsedNames :
            /\ \A m \in Names \ UsedNames : n <= m
            /\ named' = [named EXCEPT ![r] = n]

\* Version and identity are resolved, and the state of the cluster is read.
ReconcileCluster(r) ==
    /\ Working(r, "cluster") /\ ~Attaching(wants[r])
    /\ early' = [early EXCEPT ![r] = "none"]
    /\ \/ DeploymentName(r) /\ CASE cluster = "Succeeded" -> NextStageRecording(r, "portal")
                                 [] cluster = "Creating" -> Continue(r, "watching")
                                 [] OTHER -> Continue(r, "creating")
       \/ (UNCHANGED named \/ DeploymentName(r)) /\ HaltRun(r)
    /\ DeployFrame /\ UNCHANGED deployments

\* beginCreateOrUpdateById: ARM takes the deployment, or joins or rejects one of that name
\* that is under way.
BeginDeployment(r) ==
    LET n == named[r] IN
    /\ pc[r] = "creating"
    /\ \/ /\ deployments' = [deployments EXCEPT ![n] = IF Active(n) THEN @ ELSE "accepted"]
          /\ Continue(r, "polling") \/ HaltRun(r)
       \/ UNCHANGED deployments /\ HaltRun(r)
    /\ DeployFrame /\ UNCHANGED <<early, named>>

\* pollUntilDone of the deployment: its outcome, or a poll that failed.
PollDeployment(r) ==
    /\ pc[r] = "polling"
    /\ \/ deployments[named[r]] = "succeeded" /\ Continue(r, "settling")
       \/ HaltRun(r)
    /\ DeployFrame /\ UNCHANGED <<deployments, early, named>>

\* The stage's wait for its early grant is over.
ClusterReady(r) ==
    /\ pc[r] = "settling" /\ early[r] \in {"none", "done"}
    /\ NextStageRecording(r, "portal")
    /\ DeployFrame /\ UNCHANGED <<deployments, early, named>>

\* Mutant of WatchedOk: any terminal state ends the watch well.
TerminalIsOk == cluster \in {"Succeeded", "Failed"}

WatchedOk == cluster = "Succeeded"

\* pollClusterUntilTerminal, for a cluster that was found being created: it succeeded, or
\* failed, or the poll failed, timed out or was cancelled.
WatchCluster(r) ==
    /\ pc[r] = "watching"
    /\ (WatchedOk /\ NextStageRecording(r, "portal")) \/ HaltRun(r)
    /\ DeployFrame /\ UNCHANGED <<deployments, early, named>>

EarlyFrame ==
    UNCHANGED <<group, registry, cluster, deployments, mayAssign, active, wants, pc, at,
                cancelled, named, status, allowed>>

\* A status tick reads a cluster in Creating that has its kubelet identity, or does not.
StatusTick(r) ==
    /\ \/ /\ pc[r] = "polling" /\ ~cancelled[r] /\ early[r] = "none"
          /\ early' = [early EXCEPT ![r] = "reading"]
       \/ /\ early[r] = "reading"
          /\ \E x \in {"none"} \cup (IF cluster = "Creating" THEN {"granting"} ELSE {}) :
                early' = [early EXCEPT ![r] = x]
    /\ EarlyFrame /\ UNCHANGED <<pull, listed, result>>

\* grantAcrPull while the cluster is being created.
EarlyGrant(r) ==
    /\ early[r] = "granting"
    /\ early' = [early EXCEPT ![r] = "done"]
    /\ \/ /\ mayAssign /\ pull' = TRUE
          /\ result' = [result EXCEPT ![r].portal = TRUE]
       \/ UNCHANGED <<pull, result>>
    /\ EarlyFrame /\ UNCHANGED listed

-----------------------------------------------------------------------------
(* attach and verify                                                        *)

AttachFrame ==
    /\ RunFrame
    /\ UNCHANGED <<group, registry, cluster, deployments, listed, early, cancelled, named,
                   allowed>>

\* Mutant of AttachFailed: an attach run goes on as well.
AttachFailedGoesOn(r) == NextStage(r, "failed")

\* Only a run of its own makes a failed grant fatal.
AttachFailed(r) == IF Attaching(wants[r]) THEN HaltRun(r) ELSE NextStage(r, "failed")

\* The grant, unless a live list already shows it; RoleAssignmentExists counts as done.
AttachStage(r) ==
    /\ Working(r, "attach")
    /\ \/ NoGrantNeeded(r) /\ NextStage(r, "succeeded") /\ UNCHANGED pull
       \/ mayAssign /\ pull' = TRUE /\ (NextStage(r, "succeeded") \/ AttachFailed(r))
       \/ UNCHANGED pull /\ AttachFailed(r)
    /\ AttachFrame

\* The probe passes, the check itself fails, or the polling time is over and the stage
\* warns that the assigned role has not propagated: the run succeeds in every case.
VerifyStage(r) ==
    /\ Working(r, "verify")
    /\ \/ listed /\ NextStage(r, "succeeded")
       \/ \E x \in {"unchecked", "warning"} : NextStage(r, x)
    /\ AttachFrame /\ UNCHANGED pull

\* Cancelled between two probes: runFrom throws.
VerifyCancelled(r) ==
    /\ Working(r, "verify") /\ cancelled[r]
    /\ Continue(r, "idle")
    /\ AttachFrame /\ UNCHANGED pull

-----------------------------------------------------------------------------
(* The user                                                                 *)

Begin(r, i) ==
    /\ pc' = [pc EXCEPT ![r] = "working"]
    /\ at' = [at EXCEPT ![r] = i]
    /\ cancelled' = [cancelled EXCEPT ![r] = FALSE]
    /\ result' = [result EXCEPT ![r].succeeded = FALSE]
    /\ status' = [status EXCEPT ![r][StagesOf(wants'[r])[i]] = "running"]

\* "Create", "Connect" or "Try again": a run with a context and a result of its own, for
\* any cluster on the list, one that an earlier run left behind included.
StartRun(r, w) ==
    /\ wants[r] = None
    /\ active # None => pc[active] = "idle" /\ ~result[active].succeeded
    /\ Attaching(w) => cluster # "absent"
    /\ w = "attachOldAcr" => registry
    /\ w = "attachNewAcr" => group
    /\ active' = r
    /\ wants' = [wants EXCEPT ![r] = w]
    /\ Begin(r, 1)
    /\ UNCHANGED <<azureVars, early, named, allowed>>

\* retryFromStageId of verify is attach.
RetryFrom(w, i) == IF StagesOf(w)[i] = "verify" THEN i - 1 ELSE i

\* "Retry this step", on a stage that failed or warned.
RetryStage(r, i) ==
    /\ active = r /\ pc[r] = "idle"
    /\ i <= Len(StagesOf(wants[r]))
    /\ status[r][StagesOf(wants[r])[i]] \in {"failed", "warning", "unchecked"}
    /\ UNCHANGED wants
    /\ Begin(r, RetryFrom(wants[r], i))
    /\ UNCHANGED <<azureVars, active, early, named, allowed>>

\* "Back to setup": the token and the gate are cancelled, and nobody waits for the attempt.
BackToSetup(r) ==
    /\ active = r
    /\ Abandoning \/ pc[r] = "idle"
    /\ active' = None
    /\ cancelled' = [cancelled EXCEPT ![r] = pc[r] # "idle"]
    /\ pc' = [q \in Runs |-> IF pc[q] = "waiting" THEN "denied" ELSE pc[q]]
    /\ UNCHANGED <<azureVars, wants, at, early, named, result, status, allowed>>

-----------------------------------------------------------------------------
(* Specification                                                            *)

Azure ==
    \/ \E n \in Names : DeploymentApplies(n) \/ DeploymentEnds(n)
    \/ OthersClusterEnds
    \/ AssignmentAppears
    \/ PermissionChanges

ClusterStep(r) ==
    \/ ResolveCluster(r) \/ ReconcileCluster(r) \/ BeginDeployment(r) \/ PollDeployment(r)
    \/ ClusterReady(r) \/ WatchCluster(r) \/ StatusTick(r) \/ EarlyGrant(r)

AccessStep(r) ==
    AccessFound(r) \/ AccessMissing(r) \/ PromptReady(r) \/ AccessGranted(r) \/ AccessDenied(r)

StageStep(r) ==
    \/ ResourceGroupStage(r) \/ RegistryStage(r) \/ AccessStep(r) \/ ClusterStep(r)
    \/ AttachStage(r) \/ VerifyStage(r) \/ VerifyCancelled(r)

User(r) ==
    \/ \E w \in Wanted : StartRun(r, w)
    \/ \E i \in 1 .. 6 : RetryStage(r, i)
    \/ BackToSetup(r)

Next == Azure \/ \E r \in Runs : StageStep(r) \/ User(r)

Spec == Init /\ [][Next]_vars

-----------------------------------------------------------------------------
(* Properties                                                               *)

\* A run that reports success has its cluster and registry in Azure and their names in its
\* result, whatever failed, was retried or was abandoned on the way.  The cluster that a run
\* was to create is up; of one that it connects only the existence was checked.
ReadyMeansReady ==
    \A r \in Runs : result[r].succeeded =>
        /\ registry /\ result[r].portal /\ result[r].loginServer
        /\ cluster # "absent"
        /\ ~Attaching(wants[r]) => cluster = "Succeeded"

\* A run that connects an existing cluster succeeds only if the cluster may pull.
ConnectedMeansAssigned ==
    \A r \in Runs : result[r].succeeded /\ Attaching(wants[r]) => pull

\* What a run reports as its success is so in Azure, also where runs of different
\* selections meet at one cluster.
SuccessIsTruthful == ReadyMeansReady /\ ConnectedMeansAssigned

\* No run deploys a cluster before it has seen that the roles it needs can be assigned.
AccessBeforeCluster ==
    \A n \in Names : deployments[n] # "none" => \E r \in Runs : named[r] = n /\ allowed[r]

Rejected(n) == deployments[n] = "accepted" /\ deployments'[n] = "failed"


\* The handoff of a run that succeeded says that the registry is attached to the cluster.
HandoffIsTruthful == \A r \in Runs : result[r].succeeded => pull

\* An abandoned run starts no further deployment.
AbandonedRunDeploysNothing ==
    [][\A r \in Runs : cancelled[r] /\ pc[r] = "creating" =>
          \A n \in Names : named[r] = n /\ ~Active(n) => deployments'[n] # "accepted"]_vars
=============================================================================
