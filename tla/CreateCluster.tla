------------------------------ MODULE CreateCluster ------------------------------
(***************************************************************************)
(* The page that creates a cluster: the lists it waits for, the form, and  *)
(* the handler of its request, which creates the resource group if it is a *)
(* new one, then deploys the cluster and posts how that goes.  The form    *)
(* stays on the screen until the first of these posts arrives, so that it  *)
(* can be submitted twice; each submission has a handler of its own.       *)
(*                                                                         *)
(* The form is what its submission takes: a place in the list of groups,   *)
(* the name typed for a new one, whether the other fields are valid, and   *)
(* the preset.  A message to the page is delivered when it is posted.      *)
(***************************************************************************)
EXTENDS Naturals, FiniteSets

CONSTANTS ExistingGroups, NewGroups,   \* names of resource groups
          Handlers,                    \* creations that may run at once
          NoGroup

ASSUME GroupsAssumption == NoGroup \notin ExistingGroups \cup NewGroups
ASSUME HandlersAssumption == IsFiniteSet(Handlers)

VARIABLES
    wizard,      \* the page
    listing,     \* the lists that the panel still has to answer
    creations,   \* its handlers of creation requests
    resources    \* the resource groups and the clusters in Azure, and the tree's filter

createVars == <<wizard, listing, creations, resources>>

NoCreation == [pc |-> "idle", isNew |-> FALSE, group |-> NoGroup, preset |-> "automatic"]
UnsetForm == [choice |-> NoGroup, newName |-> NoGroup, valid |-> FALSE, preset |-> "automatic",
              dialog |-> FALSE]

Running(h) == creations[h].pc # "idle"

-----------------------------------------------------------------------------
(* The page and its lists.                                                 *)

createState == [stage |-> "Uninitialized", lists |-> {}, form |-> UnsetForm]

\* Both lists are needed, and only while the page is loading.
Initialized(page) ==
    IF page.stage = "Loading" /\ page.lists = {"locations", "groups"}
    THEN [page EXCEPT !.stage = "CollectingInput"] ELSE page

getStageAndMessage(page, event) ==
    [page EXCEPT !.stage = CASE event = "InProgress" -> "Creating"
                             [] event \in {"Cancelled", "Failed"} -> "Failed"
                             [] event = "Success" -> "Succeeded"]

setInitializing ==
    /\ wizard.stage = "Uninitialized"
    /\ wizard' = [wizard EXCEPT !.stage = "Loading"]
    /\ listing' = {"locations", "groups"}
    /\ UNCHANGED <<creations, resources>>

\* What has no locations is told in a message box, and the page waits on.
handleGetLocationsRequest(found) ==
    /\ "locations" \in listing
    /\ listing' = listing \ {"locations"}
    /\ wizard' = IF found THEN Initialized([wizard EXCEPT !.lists = @ \cup {"locations"}])
                 ELSE wizard
    /\ UNCHANGED <<creations, resources>>

handleGetResourceGroupsRequest(found) ==
    /\ "groups" \in listing
    /\ listing' = listing \ {"groups"}
    /\ wizard' = IF found THEN Initialized([wizard EXCEPT !.lists = @ \cup {"groups"}])
                 ELSE getStageAndMessage(wizard, "Failed")
    /\ UNCHANGED <<creations, resources>>

-----------------------------------------------------------------------------
(* The form.                                                               *)

Collecting == wizard.stage = "CollectingInput"
Edits(form) == /\ wizard' = [wizard EXCEPT !.form = form]
               /\ UNCHANGED <<listing, creations, resources>>

Offers(form) == ExistingGroups \cup ({form.newName} \ {NoGroup})

\* The dialog's name is kept beside the choice, which it clears.
handleCreateResourceGroupDialogAccept(name) ==
    /\ Collecting /\ wizard.form.dialog
    /\ Edits([wizard.form EXCEPT !.dialog = FALSE, !.newName = name, !.choice = NoGroup])

handleCreateNewRG ==
    /\ Collecting /\ ~wizard.form.dialog
    /\ Edits([wizard.form EXCEPT !.dialog = TRUE])

handleCreateResourceGroupDialogCancel ==
    /\ Collecting /\ wizard.form.dialog
    /\ Edits([wizard.form EXCEPT !.dialog = FALSE])

\* The list offers the new group too, and what is chosen from it counts as existing.
handleExistingResourceGroupChange(name) ==
    /\ Collecting
    /\ name \in Offers(wizard.form) \cup {NoGroup}
    /\ Edits([wizard.form EXCEPT !.choice = name])

handlePresetSelection(preset) == Collecting /\ Edits([wizard.form EXCEPT !.preset = preset])

handleNameAndLocationChange(valid) == Collecting /\ Edits([wizard.form EXCEPT !.valid = valid])

validateCluster(form) == form.valid /\ (form.choice # NoGroup \/ form.newName # NoGroup)

\* A group that was chosen wins over one that was named.
Parameters(form) ==
    [isNew |-> form.choice = NoGroup,
     group |-> IF form.choice # NoGroup THEN form.choice ELSE form.newName,
     preset |-> form.preset]

handleSubmit ==
    /\ Collecting /\ validateCluster(wizard.form)
    /\ \E h \in Handlers :
           LET p == Parameters(wizard.form) IN
           /\ ~Running(h)
           /\ creations' = [creations EXCEPT ![h] = [pc |-> "start", isNew |-> p.isNew,
                                                     group |-> p.group, preset |-> p.preset]]
    /\ UNCHANGED <<wizard, listing, resources>>

-----------------------------------------------------------------------------
(* The handler of a request.                                               *)

progressUpdate(event) == wizard' = getStageAndMessage(wizard, event)
Step(h, from, to) == /\ creations[h].pc = from
                     /\ creations' = [creations EXCEPT ![h].pc = to]
                     /\ UNCHANGED listing
Posting(event) == progressUpdate(event) /\ UNCHANGED resources
\* What cannot be done is posted, and the handler goes on to the filter.
FailsIn(h, from) == Step(h, from, "filter") /\ Posting("Failed")

handleCreateClusterRequest(h) ==
    /\ Step(h, "start", IF creations[h].isNew THEN "group" ELSE "versions")
    /\ Posting("InProgress")

\* A group that cannot be created is posted, and the cluster is created all the same.
createResourceGroup(h) ==
    \/ /\ Step(h, "group", "versions")
       /\ progressUpdate("InProgress")
       /\ resources' = [resources EXCEPT !.groups = @ \cup {creations[h].group}]
    \/ Step(h, "group", "versions") /\ Posting("InProgress")

\* Listing the versions is outside of every try: when it throws, nothing is posted.
ListsVersions(h) ==
    \/ Step(h, "versions", "session") /\ UNCHANGED <<wizard, resources>>
    \/ FailsIn(h, "versions")
    \/ /\ Step(h, "versions", "idle")
       /\ resources' = [resources EXCEPT !.threw = TRUE]
       /\ UNCHANGED wizard

\* The session, and with the automatic preset its principal.
GetsSession(h) ==
    \/ Step(h, "session", "deploy") /\ UNCHANGED <<wizard, resources>>
    \/ FailsIn(h, "session")

Deploys(h) ==
    \/ /\ creations[h].group \in resources.groups
       /\ Step(h, "deploy", "poll") /\ Posting("InProgress")
    \/ FailsIn(h, "deploy")

\* Mutant: a deployment that ended badly is left to the portal.
PollsQuietly(h) ==
    \/ /\ Step(h, "poll", "filter")
       /\ progressUpdate("Success")
       /\ resources' = [resources EXCEPT !.clusters = @ \cup {creations[h].group}]
    \/ Step(h, "poll", "filter") /\ UNCHANGED <<wizard, resources>>

\* onProgress posts how the deployment ended; what is not a success is thrown too,
\* and posted again.  The polling itself may fail while the deployment goes on.
Polls(h) ==
    \/ /\ Step(h, "poll", "filter")
       /\ progressUpdate("Success")
       /\ resources' = [resources EXCEPT !.clusters = @ \cup {creations[h].group}]
    \/ Step(h, "poll", "thrown") /\ (\E event \in {"Cancelled", "Failed"} : Posting(event))
    \/ /\ Step(h, "poll", "thrown")
       /\ resources' \in {resources, [resources EXCEPT !.clusters = @ \cup {creations[h].group}]}
       /\ UNCHANGED wizard
    \/ FailsIn(h, "thrown")

createCluster(h) == ListsVersions(h) \/ GetsSession(h) \/ Deploys(h) \/ Polls(h)

\* The cluster is added to a filter that is set, whatever has become of it.
AddsToFilter(h) ==
    /\ Step(h, "filter", "idle")
    /\ resources' = [resources EXCEPT !.filter = @ \cup {creations[h].group}]
    /\ UNCHANGED wizard

-----------------------------------------------------------------------------
CreateInit ==
    /\ wizard = createState
    /\ listing = {}
    /\ creations = [h \in Handlers |-> NoCreation]
    /\ resources = [groups |-> ExistingGroups, clusters |-> {}, filter |-> {}, threw |-> FALSE]

WizardStep ==
    \/ setInitializing
    \/ \E found \in BOOLEAN : \/ handleGetLocationsRequest(found)
                              \/ handleGetResourceGroupsRequest(found)
    \/ \E name \in NewGroups : handleCreateResourceGroupDialogAccept(name)
    \/ handleCreateNewRG \/ handleCreateResourceGroupDialogCancel
    \/ \E name \in ExistingGroups \cup NewGroups \cup {NoGroup} :
           handleExistingResourceGroupChange(name)
    \/ \E preset \in {"automatic", "dev"} : handlePresetSelection(preset)
    \/ \E valid \in BOOLEAN : handleNameAndLocationChange(valid)
    \/ handleSubmit

CreationStep(h) == \/ handleCreateClusterRequest(h)
                   \/ createResourceGroup(h)
                   \/ createCluster(h)
                   \/ AddsToFilter(h)

CreateNext == WizardStep \/ \E h \in Handlers : CreationStep(h)

CreateSpec == CreateInit /\ [][CreateNext]_createVars

-----------------------------------------------------------------------------
\* A page that loads waits for a list that is still to come, unless the locations were not
\* found, which it is not told; one that shows a creation in progress has a handler at work,
\* past any failure of the resource group, of the session or of the deployment, unless the
\* listing of the versions, which no try covers, has thrown.
CreatingIsBacked ==
    /\ wizard.stage = "Loading" => listing # {} \/ "locations" \notin wizard.lists
    /\ wizard.stage = "Creating" => resources.threw \/ \E h \in Handlers : Running(h)
=============================================================================
