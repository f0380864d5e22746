------------------------------ MODULE PanelsProofs ------------------------------
(***************************************************************************)
(* The panels, for every value of their constants.  Each has an inductive  *)
(* invariant that says which handler stands behind what its page shows;    *)
(* the last theorem takes them together.  That of TCP dump is proved in    *)
(* TcpDumpProofs.                                                          *)
(***************************************************************************)
EXTENDS PanelsMC, TcpDumpProofs, FiniteSetTheorems

-----------------------------------------------------------------------------
(* Installing KAITO                                                        *)

InstallInv ==
    /\ install \in [status : {"NotStarted", "InProgress", "Failed", "Success"}, clicked : BOOLEAN,
                   threw : BOOLEAN]
    /\ RETRY_COUNT \in Nat
    /\ install.status = "InProgress" => attempt \in {"poll", "caught", "asking"}
    /\ install.clicked /\ install.status = "NotStarted" => attempt # "none" \/ install.threw

LEMMA InstallStep == InstallInv /\ [InstallNext]_installVars => InstallInv'
<1> SUFFICES ASSUME InstallInv, [InstallNext]_installVars PROVE InstallInv'
  OBVIOUS
<1> USE DEF InstallInv, Continues, Quietly, kaitoInstallProgressUpdate, AttemptThrows
<1>1. CASE OpenInstallPage
  BY <1>1 DEF OpenInstallPage, Attempting
<1>5. CASE handleClick
  BY <1>5 DEF handleClick
<1>2. CASE handleKaitoInstallation
  BY <1>2 DEF handleKaitoInstallation, GetsCluster, RegistersFeature, registerKaitoFeature
<1>3. CASE handleKaitoInstallationLogic
  BY <1>3 DEF handleKaitoInstallationLogic, BeginsUpdate, PollsUpdate, Catches, RetryAnswered
<1>4. CASE UNCHANGED installVars
  BY <1>4 DEF installVars
<1> QED BY <1>1, <1>2, <1>3, <1>4, <1>5 DEF InstallNext

LEMMA InstallStart == InstallInit => InstallInv
BY DEF InstallInit, InstallInv

\* A page that shows an installation under way has an attempt behind it that will post its end,
\* and so has a button that stays disabled, unless the attempt has thrown: for any number of
\* retries.
THEOREM InstallationsBacked == InstallSpec => []InstallIsBacked
<1>1. InstallInv => InstallIsBacked
  BY DEF InstallInv, InstallIsBacked, Attempting
<1> QED BY <1>1, InstallStart, InstallStep, PTL DEF InstallSpec

-----------------------------------------------------------------------------
(* Testing a model: a query that is under way ends the progress, and a pod *)
(* is that of a query that will delete it.                                 *)

QueryInv ==
    /\ query \in [Queries -> {"none", "shown", "address", "create", "logs", "delete"}]
    /\ isQueryInProgress \in BOOLEAN /\ undeleted \in BOOLEAN /\ curlPods \in SUBSET Queries
    /\ isQueryInProgress => \E q \in Queries : query[q] \notin {"none", "shown"}
    /\ undeleted \/ \A q \in curlPods : query[q] \in {"logs", "delete"}

LEMMA QueryStep == QueryInv /\ [QueryNext]_queryVars => QueryInv'
<1> SUFFICES ASSUME QueryInv, [QueryNext]_queryVars PROVE QueryInv'
  OBVIOUS
<1> USE DEF QueryInv, QueryGoes, Ends
<1>1. CASE handleSubmitPrompt
  BY <1>1 DEF handleSubmitPrompt
<1>2. ASSUME NEW q \in Queries, StartsQuery(q) PROVE QueryInv'
  BY <1>2 DEF StartsQuery
<1>3. ASSUME NEW q \in Queries, getClusterIP(q) PROVE QueryInv'
  BY <1>3 DEF getClusterIP
<1>4. ASSUME NEW q \in Queries, createCurlPod(q) PROVE QueryInv'
  BY <1>4 DEF createCurlPod
<1>5. ASSUME NEW q \in Queries, getCurlPodLogs(q) PROVE QueryInv'
  BY <1>5 DEF getCurlPodLogs
<1>6. ASSUME NEW q \in Queries, deleteCurlPod(q) PROVE QueryInv'
  BY <1>6 DEF deleteCurlPod
<1>7. CASE UNCHANGED queryVars
  BY <1>7 DEF queryVars
<1> QED BY <1>1, <1>2, <1>3, <1>4, <1>5, <1>6, <1>7 DEF QueryNext, handleQueryRequest

LEMMA QueryStart == QueryInit => QueryInv
BY DEF QueryInit, QueryInv

\* However many queries run at once, when all have ended the page takes prompts again and no pod
\* is left, unless a deletion failed.
THEOREM QueriesDone == QuerySpec => []QueriesCleanUp
<1>1. QueryInv => QueriesCleanUp
  BY DEF QueryInv, QueriesCleanUp, Idle
<1> QED BY <1>1, QueryStart, QueryStep, PTL DEF QuerySpec

-----------------------------------------------------------------------------
(* Creating a fleet                                                        *)

FleetStages == {"Uninitialized", "Loading", "CollectingInput", "Creating", "Failed", "Succeeded"}
FleetForms == [name : FleetNames \cup {NoFleet}, group : BOOLEAN, location : BOOLEAN,
               hub : {"with", "without"}, dns : BOOLEAN]

FleetInv ==
    /\ fleetWizard \in [stage : FleetStages, lists : SUBSET {"locations", "groups"},
                        params : FleetNames \cup {NoFleet}, form : FleetForms]
    /\ fleetCreations \in [FleetHandlers -> [pc : {"idle", "start", "create"},
                                             name : FleetNames \cup {NoFleet}]]
    /\ fleetWizard.stage = "Creating" => \E h \in FleetHandlers : fleetCreations[h].pc = "create"
    /\ fleetWizard.stage = "Succeeded" => fleets # {}

\* While the page loads, the groups have come or will, and not both lists have come.
FleetListsWillCome ==
    /\ fleetLists \in SUBSET {"locations", "groups"}
    /\ fleetWizard.stage = "Uninitialized" => fleetWizard.lists = {} /\ fleetLists = {}
    /\ fleetWizard.stage = "Loading" =>
           /\ "groups" \in fleetLists \cup fleetWizard.lists
           /\ fleetWizard.lists # {"locations", "groups"}

LEMMA FleetListsStep ==
    ASSUME FleetInv, FleetListsWillCome, [FleetNext]_fleetVars
    PROVE  FleetListsWillCome'
<1> USE DEF FleetListsWillCome
<1>0. fleetWizard \in [stage : FleetStages, lists : SUBSET {"locations", "groups"},
                       params : FleetNames \cup {NoFleet}, form : FleetForms]
  BY DEF FleetInv
<1>1. CASE FleetInitializing
  BY <1>0, <1>1 DEF FleetInitializing
<1>2. ASSUME NEW x \in {"locations", "groups"}, x \in fleetLists, fleetLists' = fleetLists \ {x},
             fleetWizard' = FleetInitialized([fleetWizard EXCEPT !.lists = @ \cup {x}])
      PROVE  FleetListsWillCome'
  <2> DEFINE L == fleetWizard.lists \cup {x}
  <2>1. fleetWizard.stage # "Uninitialized" /\ L \in SUBSET {"locations", "groups"}
    BY <1>0, <1>2
  <2>2. /\ fleetWizard'.lists = L
        /\ \/ fleetWizard'.stage = "CollectingInput"
           \/ /\ fleetWizard'.stage = fleetWizard.stage
              /\ fleetWizard.stage = "Loading" => L # {"locations", "groups"}
    BY <1>0, <1>2 DEF FleetInitialized
  <2> HIDE DEF L
  <2>3. fleetWizard.stage = "Loading" => "groups" \in fleetLists' \cup L
    BY <1>2 DEF L
  <2> QED BY <1>2, <2>1, <2>2, <2>3
<1>3. ASSUME NEW found \in BOOLEAN, FleetLocations(found) PROVE FleetListsWillCome'
  <2>1. CASE ~found
    <3>1. fleetWizard' = fleetWizard /\ fleetLists' = fleetLists \ {"locations"}
          /\ "locations" \in fleetLists
      BY <1>3, <2>1 DEF FleetLocations
    <3> QED BY <3>1
  <2> QED BY <1>2, <1>3, <2>1 DEF FleetLocations
<1>4. ASSUME NEW found \in BOOLEAN, FleetResourceGroups(found) PROVE FleetListsWillCome'
  <2>1. CASE ~found
    <3>1. fleetWizard'.stage = "Failed" /\ fleetLists' = fleetLists \ {"groups"}
      BY <1>0, <1>4, <2>1 DEF FleetResourceGroups, FleetProgress
    <3> QED BY <3>1
  <2> QED BY <1>2, <1>4, <2>1 DEF FleetResourceGroups
<1>5. ASSUME UNCHANGED fleetLists, fleetWizard'.lists = fleetWizard.lists,
             fleetWizard'.stage \in {fleetWizard.stage, "Creating", "Failed", "Succeeded"}
      PROVE  FleetListsWillCome'
  BY <1>5
<1>6. ASSUME NEW form, EditsFleet(form) PROVE FleetListsWillCome'
  BY <1>0, <1>5, <1>6 DEF EditsFleet
<1>7. CASE SubmitsFleet \/ UNCHANGED fleetVars
  BY <1>0, <1>5, <1>7 DEF SubmitsFleet, fleetVars
<1>8. ASSUME NEW h, NEW from, NEW to, NEW event \in {"InProgress", "Failed", "Success"},
             FleetStep(h, from, to, event)
      PROVE  FleetListsWillCome'
  BY <1>0, <1>5, <1>8 DEF FleetStep, FleetProgress
<1>9. ASSUME NEW h \in FleetHandlers, handleCreateFleetRequest(h) \/ CreatesFleet(h)
      PROVE  FleetListsWillCome'
  BY <1>8, <1>9 DEF handleCreateFleetRequest, CreatesFleet
<1> QED BY <1>1, <1>3, <1>4, <1>6, <1>7, <1>9
        DEF FleetNext, NamesFleet, ChoosesGroup, ChoosesLocation, PrefixesHub, ChoosesHub

LEMMA FleetStepKeeps == FleetInv /\ [FleetNext]_fleetVars => FleetInv'
<1> SUFFICES ASSUME FleetInv, [FleetNext]_fleetVars PROVE FleetInv'
  OBVIOUS
<1> USE DEF FleetInv, FleetStages, FleetForms
<1>1. CASE FleetInitializing
  BY <1>1 DEF FleetInitializing
<1>2. ASSUME NEW found \in BOOLEAN, FleetLocations(found) PROVE FleetInv'
  BY <1>2 DEF FleetLocations, FleetInitialized
<1>3. ASSUME NEW found \in BOOLEAN, FleetResourceGroups(found) PROVE FleetInv'
  BY <1>3 DEF FleetResourceGroups, FleetInitialized, FleetProgress
<1>4. ASSUME NEW form \in FleetForms, EditsFleet(form) PROVE FleetInv'
  BY <1>4 DEF EditsFleet
<1>5. CASE SubmitsFleet
  BY <1>5 DEF SubmitsFleet
<1>6. ASSUME NEW h \in FleetHandlers, handleCreateFleetRequest(h) PROVE FleetInv'
  BY <1>6 DEF handleCreateFleetRequest, FleetStep, FleetProgress
<1>7. ASSUME NEW h \in FleetHandlers, CreatesFleet(h) PROVE FleetInv'
  <2>1. CASE /\ FleetStep(h, "create", "idle", "Success")
             /\ fleets' = fleets \cup {fleetCreations[h].name}
    <3>1. /\ fleetWizard' = [fleetWizard EXCEPT !.stage = "Succeeded"]
          /\ fleetCreations' = [fleetCreations EXCEPT ![h].pc = "idle"]
      BY <2>1 DEF FleetStep, FleetProgress
    <3>2. /\ fleetWizard' \in [stage : FleetStages, lists : SUBSET {"locations", "groups"},
                               params : FleetNames \cup {NoFleet}, form : FleetForms]
          /\ fleetWizard'.stage = "Succeeded"
      BY <3>1
    <3>3. fleetCreations' \in [FleetHandlers -> [pc : {"idle", "start", "create"},
                                                 name : FleetNames \cup {NoFleet}]]
      BY <3>1
    <3>4. fleets' # {}
      BY <2>1
    <3> QED BY <3>2, <3>3, <3>4
  <2>2. CASE /\ FleetStep(h, "create", "idle", "Failed")
             /\ fleets' \in {fleets, fleets \cup {fleetCreations[h].name}}
    <3>1. /\ fleetWizard' = [fleetWizard EXCEPT !.stage = "Failed"]
          /\ fleetCreations' = [fleetCreations EXCEPT ![h].pc = "idle"]
      BY <2>2 DEF FleetStep, FleetProgress
    <3> QED BY <2>2, <3>1
  <2> QED BY <1>7, <2>1, <2>2 DEF CreatesFleet
<1>8. CASE UNCHANGED fleetVars
  BY <1>8 DEF fleetVars
<1>9. ASSUME NEW name \in FleetNames \cup {NoFleet}, NamesFleet(name) PROVE FleetInv'
  BY <1>4, <1>9 DEF NamesFleet
<1>10. ASSUME NEW b \in BOOLEAN, ChoosesGroup(b) \/ ChoosesLocation(b) \/ PrefixesHub(b)
       PROVE  FleetInv'
  BY <1>4, <1>10 DEF ChoosesGroup, ChoosesLocation, PrefixesHub
<1>11. ASSUME NEW hub \in {"with", "without"}, ChoosesHub(hub) PROVE FleetInv'
  BY <1>4, <1>11 DEF ChoosesHub
<1> QED BY <1>1, <1>2, <1>3, <1>5, <1>6, <1>7, <1>8, <1>9, <1>10, <1>11 DEF FleetNext

LEMMA FleetStart == FleetInit => FleetInv /\ FleetListsWillCome
BY DEF FleetInit, FleetInv, FleetListsWillCome, FleetPage, NoFleetCreation, FleetStages,
       FleetForms

LEMMA FleetBacks == FleetInv /\ FleetListsWillCome => FleetIsBacked
<1> SUFFICES ASSUME FleetInv, FleetListsWillCome PROVE FleetIsBacked
  OBVIOUS
<1>1. ASSUME fleetWizard.stage = "Loading", fleetLists = {}, "locations" \in fleetWizard.lists
      PROVE  FALSE
  <2>1. "groups" \in fleetWizard.lists
    BY <1>1 DEF FleetListsWillCome
  <2>2. fleetWizard.lists \in SUBSET {"locations", "groups"}
    BY DEF FleetInv
  <2>3. fleetWizard.lists = {"locations", "groups"}
    BY <1>1, <2>1, <2>2
  <2> QED BY <1>1, <2>3 DEF FleetListsWillCome
<1> QED BY <1>1 DEF FleetInv, FleetIsBacked

\* However many creations the form was submitted for, a page that shows one in progress will be
\* told of an end, and one that shows success has a fleet in Azure; one that loads waits for a
\* list to come unless the locations were not found.
THEOREM FleetsBacked == FleetSpec => []FleetIsBacked
<1>1. FleetInv /\ FleetListsWillCome /\ [FleetNext]_fleetVars => FleetListsWillCome'
  BY FleetListsStep
<1> QED BY <1>1, FleetBacks, FleetStart, FleetStepKeeps, PTL DEF FleetSpec

-----------------------------------------------------------------------------
(* Creating a cluster: when the page shows a creation in progress, some    *)
(* handler has its end still to post.                                      *)

CreateStages == {"Uninitialized", "Loading", "CollectingInput", "Creating", "Failed", "Succeeded"}
EndToCome == {"group", "versions", "session", "deploy", "poll", "thrown"}
GroupNames == ExistingGroups \cup NewGroups \cup {NoGroup}
Forms == [choice : GroupNames, newName : GroupNames, valid : BOOLEAN,
          preset : {"automatic", "dev"}, dialog : BOOLEAN]

CreateTypes ==
    /\ wizard \in [stage : CreateStages, lists : SUBSET {"locations", "groups"}, form : Forms]
    /\ creations \in [Handlers -> [pc : EndToCome \cup {"idle", "start", "filter"},
                                   isNew : BOOLEAN, group : GroupNames,
                                   preset : {"automatic", "dev"}]]
    /\ resources \in [groups : SUBSET GroupNames, clusters : SUBSET GroupNames,
                      filter : SUBSET GroupNames, threw : BOOLEAN]

EndWillBeTold ==
    wizard.stage = "Creating" =>
        resources.threw \/ \E h \in Handlers : creations[h].pc \in EndToCome

\* While the page loads, the groups have come or will, and not both lists have come.
ListsWillCome ==
    /\ listing \in SUBSET {"locations", "groups"}
    /\ wizard.lists \in SUBSET {"locations", "groups"}
    /\ wizard.stage = "Uninitialized" => wizard.lists = {} /\ listing = {}
    /\ wizard.stage = "Loading" =>
           /\ "groups" \in listing \cup wizard.lists
           /\ wizard.lists # {"locations", "groups"}

LEMMA ListsStep ==
    ASSUME CreateTypes, ListsWillCome, [CreateNext]_createVars
    PROVE  ListsWillCome'
<1> USE DEF ListsWillCome
<1>0. wizard \in [stage : CreateStages, lists : SUBSET {"locations", "groups"}, form : Forms]
  BY DEF CreateTypes
<1>1. ASSUME NEW form, Edits(form) PROVE ListsWillCome'
  BY <1>0, <1>1 DEF Edits
<1>2. CASE setInitializing
  BY <1>0, <1>2 DEF setInitializing
<1>i. ASSUME NEW x \in {"locations", "groups"}, x \in listing, listing' = listing \ {x},
             wizard' = Initialized([wizard EXCEPT !.lists = @ \cup {x}])
      PROVE  ListsWillCome'
  <2> DEFINE L == wizard.lists \cup {x}
  <2>1. wizard.stage # "Uninitialized" /\ L \in SUBSET {"locations", "groups"}
    BY <1>i
  <2>2. /\ wizard'.lists = L
        /\ \/ wizard'.stage = "CollectingInput"
           \/ wizard'.stage = wizard.stage /\ (wizard.stage = "Loading" => L # {"locations", "groups"})
    BY <1>0, <1>i DEF Initialized
  <2> HIDE DEF L
  <2>3. wizard.stage = "Loading" => "groups" \in listing' \cup L
    BY <1>i DEF L
  <2> QED BY <1>i, <2>1, <2>2, <2>3
<1>3. ASSUME NEW found \in BOOLEAN, handleGetLocationsRequest(found) PROVE ListsWillCome'
  <2>1. CASE ~found
    <3>1. wizard' = wizard /\ listing' = listing \ {"locations"} /\ "locations" \in listing
      BY <1>3, <2>1 DEF handleGetLocationsRequest
    <3> QED BY <3>1
  <2> QED BY <1>3, <1>i, <2>1 DEF handleGetLocationsRequest
<1>4. ASSUME NEW found \in BOOLEAN, handleGetResourceGroupsRequest(found) PROVE ListsWillCome'
  <2>1. CASE ~found
    <3>1. /\ wizard'.stage = "Failed" /\ wizard'.lists = wizard.lists
          /\ listing' = listing \ {"groups"}
      BY <1>0, <1>4, <2>1 DEF handleGetResourceGroupsRequest, getStageAndMessage
    <3> QED BY <3>1
  <2> QED BY <1>4, <1>i, <2>1 DEF handleGetResourceGroupsRequest
<1>5. ASSUME UNCHANGED listing, UNCHANGED wizard \/ \E event \in {"InProgress", "Cancelled",
                                              "Failed", "Success"} : progressUpdate(event)
      PROVE  ListsWillCome'
  <2>1. CASE UNCHANGED wizard
    BY <1>5, <2>1
  <2>2. ASSUME NEW event \in {"InProgress", "Cancelled", "Failed", "Success"},
               progressUpdate(event)
        PROVE  wizard'.stage \in {"Creating", "Failed", "Succeeded"} /\ wizard'.lists = wizard.lists
    BY <1>0, <2>2 DEF progressUpdate, getStageAndMessage
  <2> QED BY <1>5, <2>1, <2>2
<1>6. CASE handleSubmit
  BY <1>5, <1>6 DEF handleSubmit
<1>7. ASSUME NEW h \in Handlers, CreationStep(h) PROVE ListsWillCome'
  <2> USE DEF Step, Posting, FailsIn
  <2>1. CASE handleCreateClusterRequest(h) \/ createResourceGroup(h)
    BY <1>5, <2>1 DEF handleCreateClusterRequest, createResourceGroup
  <2>2. CASE ListsVersions(h) \/ GetsSession(h) \/ Deploys(h)
    BY <1>5, <2>2 DEF ListsVersions, GetsSession, Deploys
  <2>3. CASE Polls(h) \/ AddsToFilter(h)
    BY <1>5, <2>3 DEF Polls, AddsToFilter
  <2> QED BY <1>7, <2>1, <2>2, <2>3 DEF CreationStep, createCluster
<1>8. CASE UNCHANGED createVars
  BY <1>5, <1>8 DEF createVars
<1>9. CASE WizardStep
  BY <1>1, <1>2, <1>3, <1>4, <1>6, <1>9 DEF WizardStep, handleCreateResourceGroupDialogAccept,
     handleCreateNewRG, handleCreateResourceGroupDialogCancel, handleExistingResourceGroupChange,
     handlePresetSelection, handleNameAndLocationChange
<1> QED BY <1>7, <1>8, <1>9 DEF CreateNext

CreateInv == CreateTypes /\ EndWillBeTold /\ ListsWillCome

\* The form and the lists lead to any stage but that of a creation.
LEMMA WizardSteps ==
    ASSUME CreateTypes, EndWillBeTold, WizardStep
    PROVE  CreateTypes' /\ EndWillBeTold'
<1> USE DEF CreateTypes
<1>1. ASSUME NEW form \in Forms, Edits(form) PROVE CreateTypes' /\ EndWillBeTold'
  BY <1>1 DEF Edits, EndWillBeTold
<1>2. CASE setInitializing
  BY <1>2 DEF setInitializing, EndWillBeTold, CreateStages
<1>3. ASSUME NEW found \in BOOLEAN, handleGetLocationsRequest(found)
      PROVE  CreateTypes' /\ EndWillBeTold'
  <2>1. wizard' \in [stage : CreateStages, lists : SUBSET {"locations", "groups"}, form : Forms]
        /\ (wizard'.stage = "Creating" => wizard.stage = "Creating")
    BY <1>3 DEF handleGetLocationsRequest, Initialized, CreateStages
  <2> QED BY <1>3, <2>1 DEF handleGetLocationsRequest, EndWillBeTold
<1>4. ASSUME NEW found \in BOOLEAN, handleGetResourceGroupsRequest(found)
      PROVE  CreateTypes' /\ EndWillBeTold'
  <2>1. wizard' \in [stage : CreateStages, lists : SUBSET {"locations", "groups"}, form : Forms]
        /\ (wizard'.stage = "Creating" => wizard.stage = "Creating")
    BY <1>4 DEF handleGetResourceGroupsRequest, Initialized, CreateStages, getStageAndMessage
  <2> QED BY <1>4, <2>1 DEF handleGetResourceGroupsRequest, EndWillBeTold
<1>5. ASSUME NEW name \in NewGroups, handleCreateResourceGroupDialogAccept(name)
      PROVE  CreateTypes' /\ EndWillBeTold'
  BY <1>1, <1>5 DEF handleCreateResourceGroupDialogAccept, Forms, GroupNames
<1>6. CASE handleCreateNewRG \/ handleCreateResourceGroupDialogCancel
  BY <1>1, <1>6 DEF handleCreateNewRG, handleCreateResourceGroupDialogCancel, Forms
<1>7. ASSUME NEW name \in GroupNames, handleExistingResourceGroupChange(name)
      PROVE  CreateTypes' /\ EndWillBeTold'
  BY <1>1, <1>7 DEF handleExistingResourceGroupChange, Forms
<1>8. ASSUME NEW preset \in {"automatic", "dev"}, handlePresetSelection(preset)
      PROVE  CreateTypes' /\ EndWillBeTold'
  BY <1>1, <1>8 DEF handlePresetSelection, Forms
<1>9. ASSUME NEW valid \in BOOLEAN, handleNameAndLocationChange(valid)
      PROVE  CreateTypes' /\ EndWillBeTold'
  BY <1>1, <1>9 DEF handleNameAndLocationChange, Forms
<1>10. CASE handleSubmit
  <2>1. PICK h \in Handlers :
            creations' = [creations EXCEPT ![h] =
                [pc |-> "start", isNew |-> Parameters(wizard.form).isNew,
                 group |-> Parameters(wizard.form).group,
                 preset |-> Parameters(wizard.form).preset]]
    BY <1>10 DEF handleSubmit
  <2>2. /\ Parameters(wizard.form).isNew \in BOOLEAN
        /\ Parameters(wizard.form).group \in GroupNames
        /\ Parameters(wizard.form).preset \in {"automatic", "dev"}
    BY DEF Parameters, Forms
  <2>3. wizard.stage # "Creating"
    BY <1>10 DEF handleSubmit, Collecting
  <2> QED BY <1>10, <2>1, <2>2, <2>3 DEF handleSubmit, EndWillBeTold
<1> QED BY <1>2, <1>3, <1>4, <1>5, <1>6, <1>7, <1>8, <1>9, <1>10 DEF WizardStep, GroupNames

\* A handler that goes on to a step with its end to come, whatever it posts.
LEMMA GoesOnTelling ==
    ASSUME CreateTypes, EndWillBeTold,
           NEW h \in Handlers, NEW from, NEW to \in EndToCome, Step(h, from, to),
           wizard' = wizard \/ \E event \in {"InProgress", "Cancelled", "Failed"} :
                                   progressUpdate(event),
           resources' \in [groups : SUBSET GroupNames, clusters : SUBSET GroupNames,
                           filter : SUBSET GroupNames, threw : {resources.threw}]
    PROVE  CreateTypes' /\ EndWillBeTold'
<1>1. creations' = [creations EXCEPT ![h].pc = to]
  BY DEF Step
<1>2. wizard' \in [stage : CreateStages, lists : SUBSET {"locations", "groups"}, form : Forms]
  BY DEF CreateTypes, progressUpdate, getStageAndMessage, CreateStages
<1>3. creations'[h].pc \in EndToCome
  BY <1>1 DEF CreateTypes
<1> QED BY <1>1, <1>2, <1>3 DEF CreateTypes, EndWillBeTold

\* A handler whose end is posted now, or that has posted it before, takes nothing from the page.
LEMMA GoesOnTold ==
    ASSUME CreateTypes, EndWillBeTold,
           NEW h \in Handlers, NEW from, NEW to \in {"filter", "idle"}, Step(h, from, to),
           \/ \E event \in {"Failed", "Success"} : progressUpdate(event)
           \/ wizard' = wizard /\ from = "filter",
           resources' \in [groups : SUBSET GroupNames, clusters : SUBSET GroupNames,
                           filter : SUBSET GroupNames, threw : {resources.threw}]
    PROVE  CreateTypes' /\ EndWillBeTold'
<1>1. creations[h].pc = from /\ creations' = [creations EXCEPT ![h].pc = to]
  BY DEF Step
<1>2. wizard' \in [stage : CreateStages, lists : SUBSET {"locations", "groups"}, form : Forms]
  BY DEF CreateTypes, progressUpdate, getStageAndMessage, CreateStages
<1>3. CreateTypes'
  BY <1>1, <1>2 DEF CreateTypes
<1>4. CASE wizard' = wizard /\ from = "filter"
  <2>1. \A g \in Handlers : creations[g].pc \in EndToCome => creations'[g].pc \in EndToCome
    BY <1>1, <1>4 DEF CreateTypes, EndToCome
  <2> QED BY <1>3, <1>4, <2>1 DEF CreateTypes, EndWillBeTold
<1>5. CASE \E event \in {"Failed", "Success"} : progressUpdate(event)
  <2>1. wizard'.stage # "Creating"
    BY <1>5 DEF CreateTypes, progressUpdate, getStageAndMessage
  <2> QED BY <1>3, <2>1 DEF EndWillBeTold
<1> QED BY <1>4, <1>5

LEMMA CreationSteps ==
    ASSUME CreateTypes, EndWillBeTold, NEW h \in Handlers, CreationStep(h)
    PROVE  CreateTypes' /\ EndWillBeTold'
<1> DEFINE Kept == [groups : SUBSET GroupNames, clusters : SUBSET GroupNames,
                    filter : SUBSET GroupNames, threw : {resources.threw}]
<1>0. resources \in Kept /\ creations[h].group \in GroupNames /\ creations[h].isNew \in BOOLEAN
  BY DEF CreateTypes
<1>f. ASSUME NEW from, FailsIn(h, from) PROVE CreateTypes' /\ EndWillBeTold'
  <2>1. Step(h, from, "filter") /\ progressUpdate("Failed") /\ resources' \in Kept
    BY <1>f, <1>0 DEF FailsIn, Posting
  <2> QED BY <2>1, GoesOnTold
<1>1. CASE handleCreateClusterRequest(h)
  <2>1. PICK to \in {"group", "versions"} : Step(h, "start", to)
    BY <1>1 DEF handleCreateClusterRequest
  <2>2. progressUpdate("InProgress") /\ resources' \in Kept /\ to \in EndToCome
    BY <1>0, <1>1 DEF handleCreateClusterRequest, Posting, EndToCome
  <2> QED BY <2>1, <2>2, GoesOnTelling
<1>2. CASE createResourceGroup(h)
  <2>1. Step(h, "group", "versions") /\ progressUpdate("InProgress") /\ "versions" \in EndToCome
    BY <1>2 DEF createResourceGroup, Posting, EndToCome
  <2>2. resources' \in Kept
    BY <1>0, <1>2 DEF createResourceGroup, Posting
  <2> QED BY <2>1, <2>2, GoesOnTelling
<1>3. CASE ListsVersions(h)
  <2>1. CASE Step(h, "versions", "session") /\ UNCHANGED <<wizard, resources>>
    <3>1. wizard' = wizard /\ resources' \in Kept /\ "session" \in EndToCome
      BY <1>0, <2>1 DEF EndToCome
    <3> QED BY <2>1, <3>1, GoesOnTelling
  <2>2. CASE /\ Step(h, "versions", "idle")
             /\ resources' = [resources EXCEPT !.threw = TRUE]
             /\ UNCHANGED wizard
    <3>1. CreateTypes'
      BY <2>2 DEF Step, CreateTypes
    <3>2. resources'.threw = TRUE
      BY <2>2 DEF CreateTypes
    <3> QED BY <3>1, <3>2 DEF EndWillBeTold
  <2> QED BY <1>3, <1>f, <2>1, <2>2 DEF ListsVersions
<1>4. CASE GetsSession(h)
  <2>1. CASE Step(h, "session", "deploy") /\ UNCHANGED <<wizard, resources>>
    <3>1. wizard' = wizard /\ resources' \in Kept /\ "deploy" \in EndToCome
      BY <1>0, <2>1 DEF EndToCome
    <3> QED BY <2>1, <3>1, GoesOnTelling
  <2> QED BY <1>4, <1>f, <2>1 DEF GetsSession
<1>5. CASE Deploys(h)
  <2>1. CASE Step(h, "deploy", "poll") /\ Posting("InProgress")
    <3>1. progressUpdate("InProgress") /\ resources' \in Kept /\ "poll" \in EndToCome
      BY <1>0, <2>1 DEF EndToCome, Posting
    <3> QED BY <2>1, <3>1, GoesOnTelling
  <2> QED BY <1>5, <1>f, <2>1 DEF Deploys
<1>6. CASE Polls(h)
  <2>1. CASE /\ Step(h, "poll", "filter")
             /\ progressUpdate("Success")
             /\ resources' = [resources EXCEPT !.clusters = @ \cup {creations[h].group}]
    <3>1. resources' \in Kept
      BY <1>0, <2>1
    <3> QED BY <2>1, <3>1, GoesOnTold
  <2>2. CASE Step(h, "poll", "thrown") /\ (\E event \in {"Cancelled", "Failed"} : Posting(event))
    <3>1. resources' \in Kept /\ "thrown" \in EndToCome
          /\ \E event \in {"InProgress", "Cancelled", "Failed"} : progressUpdate(event)
      BY <1>0, <2>2 DEF Posting, EndToCome
    <3> QED BY <2>2, <3>1, GoesOnTelling
  <2>3. CASE /\ Step(h, "poll", "thrown")
             /\ resources' \in {resources,
                                [resources EXCEPT !.clusters = @ \cup {creations[h].group}]}
             /\ UNCHANGED wizard
    <3>1. resources' \in Kept /\ "thrown" \in EndToCome
      BY <1>0, <2>3 DEF EndToCome
    <3> QED BY <2>3, <3>1, GoesOnTelling
  <2> QED BY <1>6, <1>f, <2>1, <2>2, <2>3 DEF Polls
<1>7. CASE AddsToFilter(h)
  <2>1. resources' \in Kept /\ wizard' = wizard
    BY <1>0, <1>7 DEF AddsToFilter
  <2> QED BY <1>7, <2>1, GoesOnTold DEF AddsToFilter
<1> QED BY <1>1, <1>2, <1>3, <1>4, <1>5, <1>6, <1>7 DEF CreationStep, createCluster

LEMMA CreateStepKeeps == CreateInv /\ [CreateNext]_createVars => CreateInv'
<1>1. CASE UNCHANGED createVars
  BY <1>1, ListsStep DEF createVars, CreateTypes, EndWillBeTold, CreateInv
<1> QED BY <1>1, WizardSteps, CreationSteps, ListsStep DEF CreateNext, CreateInv

LEMMA CreateStart == CreateInit => CreateInv
BY DEF CreateInit, CreateInv, CreateTypes, EndWillBeTold, ListsWillCome, createState, UnsetForm,
       NoCreation, CreateStages, Forms, GroupNames

LEMMA CreateBacks == CreateInv => CreatingIsBacked
<1> SUFFICES ASSUME CreateInv PROVE CreatingIsBacked
  OBVIOUS
<1>1. ASSUME wizard.stage = "Loading", listing = {}, "locations" \in wizard.lists PROVE FALSE
  <2>1. "groups" \in wizard.lists
    BY <1>1 DEF CreateInv, ListsWillCome
  <2>2. wizard.lists = {"locations", "groups"}
    BY <1>1, <2>1 DEF CreateInv, ListsWillCome
  <2> QED BY <1>1, <2>2 DEF CreateInv, ListsWillCome
<1> QED BY <1>1 DEF CreateInv, EndWillBeTold, CreatingIsBacked, Running, EndToCome

\* A page that shows a creation in progress will be told of its end, unless the listing of the
\* versions threw, and one that loads waits for a list to come unless the locations were not
\* found: for any number of creations and of groups.
THEOREM CreationsBacked == CreateSpec => []CreatingIsBacked
BY CreateBacks, CreateStart, CreateStepKeeps, PTL DEF CreateSpec

-----------------------------------------------------------------------------
(* The workspaces of KAITO: the lock of the checks is held by the one      *)
(* deployment that is checked, and a workspace's mark by the one operation *)
(* on it.                                                                  *)

WorkspaceStates == {"absent", "pending", "ready"}
Checking == {"pods", "exists", "quota", "apply"}
NotChecking == {"idle", "applied", "first", "watch", "last", "ended"}
DeploymentRecords == [model : Models \cup {NoModel}, pc : Checking \cup NotChecking,
                      late : WorkspaceStates \cup {"none"}]
OperationRecords == [model : Models \cup {NoModel}, pc : {"idle", "delete", "pools", "apply"},
                     redeploy : BOOLEAN]

WorkspaceTypes ==
    /\ workspaces \in [Models -> WorkspaceStates]
    /\ gallery \in [selected : Models \cup {NoModel},
                    shown : [model : Models \cup {NoModel}, state : WorkspaceStates]]

LockInv ==
    /\ checksInProgress \in BOOLEAN
    /\ deployments \in [Deployments -> DeploymentRecords]
    /\ \A d \in Deployments : IF deployments[d].pc = "idle" THEN deployments[d].late = "none"
                             ELSE deployments[d].model \in Models
    /\ checksInProgress <=> \E d \in Deployments : deployments[d].pc \in Checking
    /\ \A d, e \in Deployments :
           deployments[d].pc \in Checking /\ deployments[e].pc \in Checking => d = e

MarkInv ==
    /\ models \in SUBSET Models
    /\ operatingState \in [Models -> BOOLEAN]
    /\ operations \in [Operations -> OperationRecords]
    /\ \A o \in Operations : operations[o].pc = "idle" <=> operations[o].model = NoModel
    /\ \A o, p \in Operations :
           operations[o].model = operations[p].model /\ operations[o].model # NoModel => o = p
    /\ \A m \in Models : operatingState[m] <=> \E o \in Operations : operations[o].model = m

WorkspaceInv == WorkspaceTypes /\ LockInv /\ MarkInv

LEMMA MarkSame == MarkInv /\ UNCHANGED manageVars => MarkInv'
BY DEF MarkInv, manageVars

LEMMA LockSame == LockInv /\ UNCHANGED <<checksInProgress, deployments>> => LockInv'
BY DEF LockInv

\* The steps of a deployment, as far as the lock is concerned.
LEMMA LockStep ==
    ASSUME LockInv, NEW d \in Deployments, NEW r \in DeploymentRecords,
           deployments' = [deployments EXCEPT ![d] = r],
           IF r.pc = "idle" THEN r.late = "none" ELSE r.model \in Models,
           \/ /\ (r.pc \in Checking <=> deployments[d].pc \in Checking)
              /\ checksInProgress' = checksInProgress
           \/ /\ deployments[d].pc \in Checking /\ r.pc \notin Checking
              /\ checksInProgress' = FALSE
           \/ /\ ~checksInProgress /\ r.pc \in Checking
              /\ checksInProgress' = TRUE
    PROVE  LockInv'
<1>1. /\ deployments' \in [Deployments -> DeploymentRecords]
      /\ deployments'[d] = r
      /\ \A e \in Deployments : e # d => deployments'[e] = deployments[e]
  BY DEF LockInv
<1>2. /\ checksInProgress' \in BOOLEAN
      /\ \A e \in Deployments : IF deployments'[e].pc = "idle" THEN deployments'[e].late = "none"
                               ELSE deployments'[e].model \in Models
  BY <1>1 DEF LockInv
<1>3. CASE /\ (r.pc \in Checking <=> deployments[d].pc \in Checking)
           /\ checksInProgress' = checksInProgress
  <2>1. \A e \in Deployments : deployments'[e].pc \in Checking <=> deployments[e].pc \in Checking
    BY <1>1, <1>3
  <2> QED BY <1>1, <1>2, <1>3, <2>1 DEF LockInv
<1>4. CASE /\ deployments[d].pc \in Checking /\ r.pc \notin Checking
           /\ checksInProgress' = FALSE
  <2>1. \A e \in Deployments : deployments'[e].pc \notin Checking
    BY <1>1, <1>4 DEF LockInv
  <2> QED BY <1>1, <1>2, <1>4, <2>1 DEF LockInv
<1>5. CASE ~checksInProgress /\ r.pc \in Checking /\ checksInProgress' = TRUE
  <2>1. \A e \in Deployments : deployments'[e].pc \in Checking <=> e = d
    BY <1>1, <1>5 DEF LockInv
  <2> QED BY <1>1, <1>2, <1>5, <2>1 DEF LockInv
<1> QED BY <1>3, <1>4, <1>5

LEMMA GoingOn ==
    ASSUME LockInv, NEW d \in Deployments, NEW from, NEW to \in Checking \cup NotChecking,
           DeployGoes(d, from, to), from # "idle"
    PROVE  \E r \in DeploymentRecords :
               /\ deployments' = [deployments EXCEPT ![d] = r]
               /\ deployments[d].pc = from
               /\ r.pc = to
               /\ IF r.pc = "idle" THEN r.late = "none" ELSE r.model \in Models
<1>1. deployments[d].pc = from /\ deployments[d] \in DeploymentRecords
      /\ deployments[d].model \in Models
  BY DEF LockInv, DeployGoes
<1>2. CASE to = "idle"
  <2>1. NoDeployment \in DeploymentRecords /\ NoDeployment.pc = "idle" /\ NoDeployment.late = "none"
    BY DEF NoDeployment, DeploymentRecords, NotChecking, WorkspaceStates
  <2> QED BY <1>1, <1>2, <2>1 DEF DeployGoes
<1>3. CASE to # "idle"
  <2> DEFINE r == [deployments[d] EXCEPT !.pc = to]
  <2>1. r \in DeploymentRecords /\ r.pc = to /\ r.model \in Models
    BY <1>1 DEF DeploymentRecords
  <2>2. deployments' = [deployments EXCEPT ![d] = r]
    BY <1>3 DEF DeployGoes
  <2> QED BY <1>1, <1>3, <2>1, <2>2
<1> QED BY <1>2, <1>3

LEMMA PostedTypes ==
    ASSUME WorkspaceTypes, NEW d \in Deployments, deployments[d].model \in Models,
           NEW state \in WorkspaceStates, Posted(d, state)
    PROVE  gallery' \in [selected : Models \cup {NoModel},
                         shown : [model : Models \cup {NoModel}, state : WorkspaceStates]]
BY DEF WorkspaceTypes, Posted, handleResetStateRequest, InitialProgress, WorkspaceStates

LEMMA DeploymentStep ==
    ASSUME WorkspaceInv, NEW d \in Deployments, handleDeployKaitoRequest(d)
    PROVE  WorkspaceInv'
<1> USE DEF WorkspaceInv
<1>t. /\ deployments[d] \in DeploymentRecords
      /\ IF deployments[d].pc = "idle" THEN deployments[d].late = "none"
         ELSE deployments[d].model \in Models
  BY DEF LockInv
<1>u. UNCHANGED manageVars => MarkInv'
  BY MarkSame
<1>w. UNCHANGED <<workspaces, gallery>> => WorkspaceTypes'
  BY DEF WorkspaceTypes
\* a step among the checks, or from them to an end that unlocks
<1>n. ASSUME NEW from \in Checking, NEW to \in Checking, NextCheck(d, from, to)
      PROVE  LockInv'
  <2>1. CASE DeployGoes(d, from, to) /\ KeepsLock
    <3>1. PICK r \in DeploymentRecords :
              /\ deployments' = [deployments EXCEPT ![d] = r]
              /\ deployments[d].pc = from /\ r.pc = to
              /\ IF r.pc = "idle" THEN r.late = "none" ELSE r.model \in Models
      BY <2>1, GoingOn DEF Checking
    <3> QED BY <2>1, <3>1, LockStep DEF KeepsLock
  <2>2. CASE DeployGoes(d, from, "idle") /\ Unlocks
    <3>1. PICK r \in DeploymentRecords :
              /\ deployments' = [deployments EXCEPT ![d] = r]
              /\ deployments[d].pc = from /\ r.pc = "idle"
              /\ IF r.pc = "idle" THEN r.late = "none" ELSE r.model \in Models
      BY <2>2, GoingOn DEF Checking, NotChecking
    <3>2. r.pc \notin Checking
      BY <3>1 DEF Checking
    <3> QED BY <2>2, <3>1, <3>2, LockStep DEF Unlocks
  <2> QED BY <1>n, <2>1, <2>2 DEF NextCheck
<1>m. ASSUME NEW from \in Checking, NEW to \in NotChecking, DeployGoes(d, from, to), Unlocks
      PROVE  LockInv'
  <2>1. PICK r \in DeploymentRecords :
            /\ deployments' = [deployments EXCEPT ![d] = r]
            /\ deployments[d].pc = from /\ r.pc = to
            /\ IF r.pc = "idle" THEN r.late = "none" ELSE r.model \in Models
    BY <1>m, GoingOn DEF Checking, NotChecking
  <2>2. r.pc \notin Checking
    BY <2>1 DEF Checking, NotChecking
  <2> QED BY <1>m, <2>1, <2>2, LockStep DEF Unlocks
<1>k. ASSUME NEW r \in DeploymentRecords, deployments' = [deployments EXCEPT ![d] = r], KeepsLock,
             deployments[d].pc \in NotChecking, r.pc \in NotChecking,
             IF r.pc = "idle" THEN r.late = "none" ELSE r.model \in Models
      PROVE  LockInv'
  <2>1. r.pc \notin Checking /\ deployments[d].pc \notin Checking
    BY <1>k DEF Checking, NotChecking
  <2> QED BY <1>k, <2>1, LockStep DEF KeepsLock
<1>l. ASSUME NEW from \in NotChecking \ {"idle"}, NEW to \in NotChecking,
             DeployGoes(d, from, to), KeepsLock
      PROVE  LockInv'
  <2>1. PICK r \in DeploymentRecords :
            /\ deployments' = [deployments EXCEPT ![d] = r]
            /\ deployments[d].pc = from /\ r.pc = to
            /\ IF r.pc = "idle" THEN r.late = "none" ELSE r.model \in Models
    BY <1>l, GoingOn
  <2> QED BY <1>k, <1>l, <2>1
<1>1. CASE ChecksThrow(d)
  <2>1. LockInv'
    BY <1>1, <1>m DEF ChecksThrow, Checking, NotChecking
  <2> QED BY <1>1, <2>1, <1>u, <1>w DEF ChecksThrow, Unwatched
<1>2. CASE isKaitoWorkspaceReady(d)
  <2>1. LockInv'
    BY <1>2, <1>m, <1>n DEF isKaitoWorkspaceReady, Checking, NotChecking
  <2> QED BY <1>2, <2>1, <1>u, <1>w DEF isKaitoWorkspaceReady, Unwatched
<1>3. CASE WorkspaceExists(d)
  <2>1. LockInv'
    BY <1>3, <1>n DEF WorkspaceExists, Checking
  <2> QED BY <1>3, <2>1, <1>u, <1>w DEF WorkspaceExists, Unwatched
<1>4. CASE isQuotaSufficient(d)
  <2>1. LockInv'
    BY <1>4, <1>m, <1>n DEF isQuotaSufficient, Checking, NotChecking
  <2> QED BY <1>4, <2>1, <1>u, <1>w DEF isQuotaSufficient, Unwatched
<1>5. CASE Applies(d)
  <2>1. LockInv'
    BY <1>5, <1>m DEF Applies, Checking, NotChecking
  <2>2. deployments[d].model \in Models
    BY <1>5, <1>t DEF Applies, DeployGoes
  <2>3. WorkspaceTypes'
    BY <1>5, <2>2 DEF Applies, WorkspaceTypes, deployModel, WorkspaceStates
  <2> QED BY <1>5, <2>1, <2>3, <1>u DEF Applies
<1>6. CASE StartsWatching(d)
  <2>1. deployments[d].model \in Models /\ workspaces[deployments[d].model] \in WorkspaceStates
    BY <1>6, <1>t DEF StartsWatching, WorkspaceTypes
  <2> DEFINE r == [deployments[d] EXCEPT !.pc = "first",
                                         !.late = workspaces[deployments[d].model]]
  <2>2. /\ r \in DeploymentRecords /\ r.pc = "first" /\ r.model \in Models
        /\ NoDeployment \in DeploymentRecords
        /\ NoDeployment.pc = "idle" /\ NoDeployment.late = "none"
    BY <1>t, <2>1 DEF DeploymentRecords, NotChecking, NoDeployment
  <2>3. \/ deployments' = [deployments EXCEPT ![d] = NoDeployment]
        \/ deployments' = [deployments EXCEPT ![d] = r]
    BY <1>6 DEF StartsWatching
  <2>4. LockInv'
    BY <1>6, <1>k, <2>2, <2>3 DEF StartsWatching, NotChecking
  <2> QED BY <1>6, <2>4, <1>u, <1>w DEF StartsWatching, Unwatched
<1>7. CASE FirstReading(d)
  <2>1. LockInv'
    BY <1>7, <1>l DEF FirstReading, NotChecking
  <2> QED BY <1>7, <2>1, <1>u, <1>w DEF FirstReading, Unwatched
<1>8. CASE updateProgress(d)
  <2>1. deployments[d].model \in Models
    BY <1>8, <1>t DEF updateProgress
  <2>2. PICK state \in getProgress(d) :
            Posted(d, state) /\ DeployGoes(d, "watch", IF state = "ready" THEN "last" ELSE "watch")
    BY <1>8 DEF updateProgress
  <2>3. state \in WorkspaceStates
    BY <2>1 DEF getProgress, WorkspaceTypes, WorkspaceStates
  <2>4. LockInv'
    BY <1>8, <1>l, <2>2 DEF updateProgress, NotChecking, KeepsLock
  <2>5. WorkspaceTypes'
    BY <1>8, <2>1, <2>2, <2>3, PostedTypes DEF updateProgress, WorkspaceTypes
  <2> QED BY <1>8, <2>4, <2>5, <1>u DEF updateProgress
<1>9. CASE LateProgress(d)
  <2> DEFINE r == [deployments[d] EXCEPT !.late = "none"]
  <2>1. /\ deployments' = [deployments EXCEPT ![d] = IF deployments[d].pc = "ended"
                                                     THEN NoDeployment ELSE r]
        /\ deployments[d].late \in WorkspaceStates
    BY <1>9, <1>t DEF LateProgress, DeploymentRecords
  <2>2. /\ r \in DeploymentRecords /\ r.pc = deployments[d].pc
        /\ r.model = deployments[d].model /\ r.late = "none"
        /\ NoDeployment \in DeploymentRecords
        /\ NoDeployment.pc = "idle" /\ NoDeployment.late = "none"
    BY <1>t DEF DeploymentRecords, NoDeployment, NotChecking
  <2>3. LockInv'
    <3>1. CASE deployments[d].pc = "ended"
      BY <1>9, <1>k, <2>1, <2>2, <3>1 DEF LateProgress, NotChecking, KeepsLock
    <3>2. CASE deployments[d].pc # "ended"
      BY <1>9, <1>t, <2>1, <2>2, <3>2, LockStep DEF LateProgress
    <3> QED BY <3>1, <3>2
  <2>4. deployments[d].model \in Models
    BY <1>t, <2>1 DEF WorkspaceStates
  <2>5. WorkspaceTypes'
    BY <1>9, <2>1, <2>4, PostedTypes DEF LateProgress, WorkspaceTypes
  <2> QED BY <1>9, <2>3, <2>5, <1>u DEF LateProgress
<1>10. CASE EndsWatching(d)
  <2>1. deployments[d].model \in Models
    BY <1>10, <1>t DEF EndsWatching
  <2>2. gallery' \in [selected : Models \cup {NoModel},
                      shown : [model : Models \cup {NoModel}, state : WorkspaceStates]]
    <3>1. CASE gallery' = handleResetStateRequest(gallery)
      BY <3>1 DEF WorkspaceTypes, handleResetStateRequest, InitialProgress, WorkspaceStates
    <3>2. CASE \E state \in getProgress(d) : Posted(d, state)
      <4>1. \A state \in getProgress(d) : state \in WorkspaceStates
        BY <2>1 DEF getProgress, WorkspaceTypes, WorkspaceStates
      <4> QED BY <2>1, <3>2, <4>1, PostedTypes
    <3> QED BY <1>10, <3>1, <3>2 DEF EndsWatching
  <2>3. LockInv'
    BY <1>10, <1>l DEF EndsWatching, StopsWatching, NotChecking, KeepsLock
  <2>4. WorkspaceTypes'
    BY <1>10, <2>2 DEF EndsWatching, WorkspaceTypes
  <2> QED BY <1>10, <2>3, <2>4, <1>u DEF EndsWatching
<1> QED BY <1>1, <1>2, <1>3, <1>4, <1>5, <1>6, <1>7, <1>8, <1>9, <1>10
        DEF handleDeployKaitoRequest

\* The models page selects, turns away and deploys.
LEMMA GalleryStep ==
    ASSUME WorkspaceInv,
           (\E m \in Models : handleModelClick(m)) \/ handleClose \/ onClickDeployKaito
    PROVE  WorkspaceInv'
<1> USE DEF WorkspaceInv
<1>1. MarkInv'
  BY MarkSame DEF handleModelClick, handleClose, onClickDeployKaito
<1>2. WorkspaceTypes'
  <2>1. workspaces' = workspaces
    BY DEF handleModelClick, handleClose, onClickDeployKaito
  <2>2. \/ \E m \in Models \cup {NoModel} :
               gallery' = [handleResetStateRequest(gallery) EXCEPT !.selected = m]
        \/ gallery' = handleResetStateRequest(gallery)
    BY DEF handleModelClick, handleClose, onClickDeployKaito
  <2> DEFINE Pages == [selected : Models \cup {NoModel},
                       shown : [model : Models \cup {NoModel}, state : WorkspaceStates]]
  <2>3. handleResetStateRequest(gallery) \in Pages
    BY DEF WorkspaceTypes, handleResetStateRequest, InitialProgress, WorkspaceStates
  <2>4. gallery' \in Pages
    BY <2>2, <2>3
  <2> QED BY <2>1, <2>4 DEF WorkspaceTypes
<1>3. LockInv'
  <2>1. CASE UNCHANGED <<checksInProgress, deployments>>
    BY <2>1, LockSame
  <2>2. CASE onClickDeployKaito /\ ~checksInProgress
    <3> DEFINE r == [NoDeployment EXCEPT !.model = gallery.selected, !.pc = "pods"]
    <3>1. PICK d \in Deployments : deployments' = [deployments EXCEPT ![d] = r]
      BY <2>2 DEF onClickDeployKaito
    <3>2. gallery.selected \in Models
      BY <2>2 DEF onClickDeployKaito, WorkspaceTypes
    <3>3. r \in DeploymentRecords /\ r.pc \in Checking /\ r.pc # "idle" /\ r.model \in Models
      BY <3>2 DEF NoDeployment, DeploymentRecords, Checking
    <3> QED BY <2>2, <3>1, <3>3, LockStep DEF onClickDeployKaito
  <2> QED BY <2>1, <2>2 DEF handleModelClick, handleClose, onClickDeployKaito
<1> QED BY <1>1, <1>2, <1>3

\* An operation goes on and keeps its mark, or ends and takes it away.
LEMMA OperationStep ==
    ASSUME MarkInv, NEW o \in Operations, operations[o].pc # "idle", models' \in SUBSET Models,
           \/ /\ \E to \in {"pools", "apply"} : OperationGoes(o, operations[o].pc, to)
              /\ UNCHANGED operatingState
           \/ OperationGoes(o, operations[o].pc, "idle") /\ OperationOver(o)
    PROVE  MarkInv'
<1>1. operations[o] \in OperationRecords /\ operations[o].model \in Models
  BY DEF MarkInv, OperationRecords
<1>2. ASSUME NEW to \in {"pools", "apply"}, OperationGoes(o, operations[o].pc, to),
             UNCHANGED operatingState
      PROVE  MarkInv'
  <2> DEFINE r == [operations[o] EXCEPT !.pc = to]
  <2>1. r \in OperationRecords /\ r.pc = to /\ r.model = operations[o].model
    BY <1>1 DEF OperationRecords
  <2>2. operations' = [operations EXCEPT ![o] = r]
    BY <1>2 DEF OperationGoes
  <2>3. /\ operations' \in [Operations -> OperationRecords]
        /\ operations'[o].pc = to
        /\ \A p \in Operations : operations'[p].model = operations[p].model
        /\ \A p \in Operations : p # o => operations'[p].pc = operations[p].pc
    BY <2>1, <2>2 DEF MarkInv
  <2>4. \A p \in Operations : operations'[p].pc = "idle" <=> operations'[p].model = NoModel
    BY <1>1, <2>3, ModelsAssumption DEF MarkInv
  <2> QED BY <1>2, <2>3, <2>4 DEF MarkInv
<1>3. CASE OperationGoes(o, operations[o].pc, "idle") /\ OperationOver(o)
  <2>1. operations' = [operations EXCEPT ![o] = NoOperation]
    BY <1>3 DEF OperationGoes
  <2>2. NoOperation \in OperationRecords /\ NoOperation.pc = "idle" /\ NoOperation.model = NoModel
    BY DEF NoOperation, OperationRecords
  <2>3. /\ operations' \in [Operations -> OperationRecords]
        /\ operations'[o] = NoOperation
        /\ \A p \in Operations : p # o => operations'[p] = operations[p]
    BY <2>1, <2>2 DEF MarkInv
  <2>4. /\ operatingState' \in [Models -> BOOLEAN]
        /\ operatingState'[operations[o].model] = FALSE
        /\ \A m \in Models : m # operations[o].model => operatingState'[m] = operatingState[m]
    BY <1>1, <1>3 DEF OperationOver, MarkInv
  <2>5. \A m \in Models : operatingState'[m] <=> \E p \in Operations : operations'[p].model = m
    <3> TAKE m \in Models
    <3>1. NoModel # m
      BY ModelsAssumption
    <3>2. CASE m = operations[o].model
      BY <1>1, <2>2, <2>3, <2>4, <3>1, <3>2 DEF MarkInv
    <3>3. CASE m # operations[o].model
      BY <2>2, <2>3, <2>4, <3>1, <3>3 DEF MarkInv
    <3> QED BY <3>2, <3>3
  <2> QED BY <2>2, <2>3, <2>4, <2>5 DEF MarkInv
<1> QED BY <1>2, <1>3

LEMMA ModelsRead == updateModels => models' \in SUBSET Models
BY DEF updateModels

LEMMA ManageStep ==
    ASSUME WorkspaceInv,
           \/ handleMonitorUpdateRequest
           \/ \E m \in Models : deleteWorkspace(m) \/ redeployWorkspace(m)
           \/ \E o \in Operations : \/ handleDeleteWorkspaceRequest(o)
                                    \/ handleRedeployWorkspaceRequest(o)
    PROVE  WorkspaceInv'
<1> USE DEF WorkspaceInv
<1>1. CASE handleMonitorUpdateRequest
  BY <1>1, ModelsRead, LockSame
  DEF handleMonitorUpdateRequest, modelsVars, MarkInv, WorkspaceTypes
<1>2. ASSUME NEW m \in Models, NEW redeploy \in BOOLEAN, Requests(m, redeploy)
      PROVE  WorkspaceInv'
  <2> DEFINE r == [model |-> m, pc |-> "delete", redeploy |-> redeploy]
  <2>1. PICK o \in Operations : ~Operating(o) /\ operations' = [operations EXCEPT ![o] = r]
    BY <1>2 DEF Requests
  <2>2. r \in OperationRecords /\ m # NoModel
    BY ModelsAssumption DEF OperationRecords
  <2>3. /\ operations' \in [Operations -> OperationRecords]
        /\ operations'[o] = r
        /\ \A p \in Operations : p # o => operations'[p] = operations[p]
    BY <2>1, <2>2 DEF MarkInv
  <2>4. /\ operatingState' = [operatingState EXCEPT ![m] = TRUE]
        /\ ~operatingState[m] /\ operations[o].model = NoModel
    BY <1>2, <2>1 DEF Requests, Operating, MarkInv
  <2>5. MarkInv'
    <3>1. /\ models' \in SUBSET Models
          /\ operatingState' \in [Models -> BOOLEAN]
          /\ operatingState'[m] = TRUE
          /\ \A n \in Models : n # m => operatingState'[n] = operatingState[n]
      BY <1>2, <2>4 DEF Requests, MarkInv
    <3>2. \A p \in Operations : operations[p].model # m
      BY <2>4 DEF MarkInv
    <3>3. \A p \in Operations : operations'[p].pc = "idle" <=> operations'[p].model = NoModel
      BY <2>2, <2>3 DEF MarkInv
    <3>4. \A p, q \in Operations : operations'[p].model = operations'[q].model
                                   /\ operations'[p].model # NoModel => p = q
      BY <2>3, <3>2 DEF MarkInv
    <3>5. \A n \in Models : operatingState'[n] <=> \E p \in Operations : operations'[p].model = n
      <4> TAKE n \in Models
      <4>1. CASE n = m
        BY <2>3, <3>1, <4>1
      <4>2. CASE n # m
        <5>1. n # NoModel
          BY ModelsAssumption
        <5> QED BY <2>3, <2>4, <3>1, <4>2, <5>1 DEF MarkInv
      <4> QED BY <4>1, <4>2
    <3> QED BY <2>3, <3>1, <3>3, <3>4, <3>5 DEF MarkInv
  <2> QED BY <1>2, <2>5, LockSame DEF Requests, modelsVars, WorkspaceTypes
<1>3. ASSUME NEW o \in Operations, DeletesWorkspace(o) PROVE WorkspaceInv'
  <2>1. operations[o].pc = "delete" /\ operations[o].model \in Models
    BY <1>3 DEF DeletesWorkspace, OperationGoes, MarkInv, OperationRecords
  <2>2. MarkInv'
    BY <1>3, <2>1, ModelsRead, OperationStep DEF DeletesWorkspace
  <2>3. WorkspaceTypes'
    BY <1>3, <2>1 DEF DeletesWorkspace, WorkspaceTypes, WorkspaceStates, modelsVars
  <2> QED BY <1>3, <2>2, <2>3, LockSame DEF DeletesWorkspace, modelsVars
<1>4. ASSUME NEW o \in Operations, DeletesPool(o) PROVE WorkspaceInv'
  <2>1. operations[o].pc = "pools"
    BY <1>4 DEF DeletesPool, OperationGoes
  <2>2. MarkInv'
    BY <1>4, <2>1, OperationStep DEF DeletesPool, MarkInv
  <2> QED BY <1>4, <2>2, LockSame DEF DeletesPool, modelsVars, WorkspaceTypes
<1>5. ASSUME NEW o \in Operations, handleRedeployWorkspaceRequest(o) PROVE WorkspaceInv'
  <2>1. operations[o].pc = "apply" /\ operations[o].model \in Models
    BY <1>5 DEF handleRedeployWorkspaceRequest, OperationGoes, MarkInv, OperationRecords
  <2>2. MarkInv'
    BY <1>5, <2>1, ModelsRead, OperationStep DEF handleRedeployWorkspaceRequest
  <2>3. WorkspaceTypes'
    BY <1>5, <2>1
    DEF handleRedeployWorkspaceRequest, WorkspaceTypes, WorkspaceStates, modelsVars, deployModel
  <2> QED BY <1>5, <2>2, <2>3, LockSame DEF handleRedeployWorkspaceRequest, modelsVars
<1> QED BY <1>1, <1>2, <1>3, <1>4, <1>5
        DEF deleteWorkspace, redeployWorkspace, handleDeleteWorkspaceRequest

LEMMA WorkspaceStep == WorkspaceInv /\ [WorkspacesNext]_workspaceVars => WorkspaceInv'
<1> SUFFICES ASSUME WorkspaceInv, [WorkspacesNext]_workspaceVars PROVE WorkspaceInv'
  OBVIOUS
<1>1. ASSUME NEW m \in Models, WorkspaceChanges(m) PROVE WorkspaceInv'
  <2>1. LockInv' /\ MarkInv'
    BY <1>1, LockSame, MarkSame DEF WorkspaceChanges, WorkspaceInv, modelsVars
  <2> QED BY <1>1, <2>1
          DEF WorkspaceChanges, WorkspaceInv, WorkspaceTypes, WorkspaceStates, modelsVars
<1>2. CASE UNCHANGED workspaceVars
  BY <1>2, LockSame, MarkSame DEF workspaceVars, manageVars, WorkspaceInv, WorkspaceTypes
<1> QED BY <1>1, <1>2, GalleryStep, DeploymentStep, ManageStep DEF WorkspacesNext

LEMMA WorkspaceStart == WorkspacesInit => WorkspaceInv
<1> SUFFICES ASSUME WorkspacesInit PROVE WorkspaceInv
  OBVIOUS
<1>1. WorkspaceTypes
  <2>1. workspaces \in [Models -> WorkspaceStates]
    BY DEF WorkspacesInit, WorkspaceStates
  <2> QED BY <2>1 DEF WorkspacesInit, WorkspaceTypes, InitialProgress, WorkspaceStates
<1>2. LockInv
  BY DEF WorkspacesInit, LockInv, NoDeployment, DeploymentRecords, Checking, NotChecking
<1>3. MarkInv
  BY ModelsAssumption DEF WorkspacesInit, MarkInv, NoOperation, OperationRecords
<1> QED BY <1>1, <1>2, <1>3 DEF WorkspaceInv

\* The marks of the inductive invariant, counted.
LEMMA MarksCount == MarkInv => OneOperationPerWorkspace
<1> SUFFICES ASSUME MarkInv, NEW m \in Models
             PROVE  /\ Cardinality({o \in Operations : operations[o].model = m}) <= 1
                    /\ operatingState[m] <=> {o \in Operations : operations[o].model = m} # {}
  BY DEF OneOperationPerWorkspace
<1> DEFINE on == {o \in Operations : operations[o].model = m}
<1>1. operatingState[m] <=> on # {}
  BY DEF MarkInv
<1>2. CASE on = {}
  <2>1. Cardinality(on) = 0
    BY <1>2, FS_EmptySet
  <2> QED BY <1>1, <2>1
<1>3. CASE on # {}
  <2>1. PICK o \in on : TRUE
    BY <1>3
  <2>2. m # NoModel
    BY ModelsAssumption
  <2>3. on = {o}
    BY <2>1, <2>2 DEF MarkInv
  <2>4. Cardinality(on) = 1
    BY <2>3, FS_Singleton
  <2> QED BY <1>1, <2>4
<1> QED BY <1>2, <1>3

\* Two handlers never operate on one workspace, and a workspace is refused only while one does.
THEOREM OneOperation == WorkspacesSpec => []OneOperationPerWorkspace
<1>1. WorkspaceInv => OneOperationPerWorkspace
  BY MarksCount DEF WorkspaceInv
<1> QED BY <1>1, WorkspaceStart, WorkspaceStep, PTL DEF WorkspacesSpec

\* The checks refuse another deployment exactly while those of some deployment are under way.
THEOREM ChecksBacked == WorkspacesSpec => []ChecksAreBacked
<1>1. WorkspaceInv => ChecksAreBacked
  BY DEF WorkspaceInv, LockInv, ChecksAreBacked, Checking
<1> QED BY <1>1, WorkspaceStart, WorkspaceStep, PTL DEF WorkspacesSpec

-----------------------------------------------------------------------------
(* The Azure Service Operator: the steps follow each other, with one       *)
(* request at work for the one step that is in progress.                   *)

StepStatuses == {"NotStarted", "InProgress", "Succeeded", "Failed"}
AnySubscription == Subscriptions \cup {NoSubscription}
AsoPages == [filled : BOOLEAN, tenant : BOOLEAN, subscriptions : SUBSET Subscriptions,
             selected : AnySubscription, threw : BOOLEAN, status : [StepNames -> StepStatuses]]
Requested == [step : StepNames \cup {"none"},
              rollouts : [CertManager -> {"running", "ready", "failed"}], sub : AnySubscription]

\* A step is started when the one before it has succeeded, and what the page was told then stays.
StepsInv ==
    /\ asoPage \in AsoPages
    /\ request \in Requested
    /\ ~asoPage.threw
    /\ \A s \in StepNames : asoPage.status[s] = "InProgress" <=> request.step = s
    /\ \A i \in 1 .. 5 : asoPage.status[InstallSteps[i + 1]] # "NotStarted" =>
                             asoPage.status[InstallSteps[i]] = "Succeeded"
    /\ InstallStarted => getRequiredInputs(asoPage)
    /\ request.step \notin {"none", "checkSP"} => request.sub = asoPage.selected

\* What has succeeded is true of the cluster, and stays so.
DeployedInv ==
    /\ deployed \in [cert : [CertManager -> {"absent", "created", "ready"}],
                     operator : {"absent", "part", "created", "ready"}, settings : AnySubscription]
    /\ request.step = "waitForCertManager" =>
           \A d \in CertManager : request.rollouts[d] = "ready" => deployed.cert[d] = "ready"
    /\ asoPage.status["waitForCertManager"] = "Succeeded" =>
           \A d \in CertManager : deployed.cert[d] = "ready"
    /\ asoPage.status["settings"] = "Succeeded" => deployed.settings = asoPage.selected
    /\ asoPage.status["waitForControllerManager"] = "Succeeded" => deployed.operator = "ready"

LEMMA SixSteps ==
    /\ Len(InstallSteps) = 6 /\ DOMAIN InstallSteps = 1 .. 6
    /\ InstallSteps[1] = "checkSP" /\ InstallSteps[2] = "certManager"
    /\ InstallSteps[3] = "waitForCertManager" /\ InstallSteps[4] = "operator"
    /\ InstallSteps[5] = "settings" /\ InstallSteps[6] = "waitForControllerManager"
BY DEF InstallSteps

LEMMA StepPlaces ==
    /\ \A i \in 1 .. 6 : InstallSteps[i] \in StepNames
    /\ \A i, j \in 1 .. 6 : InstallSteps[i] = InstallSteps[j] => i = j
    /\ \A s \in StepNames : \E i \in 1 .. 6 : s = InstallSteps[i]
    /\ StepNames = {"checkSP", "certManager", "waitForCertManager", "operator", "settings",
                    "waitForControllerManager"}
<1>1. StepNames = {InstallSteps[i] : i \in 1 .. 6}
  BY SixSteps DEF StepNames
<1>2. \A i \in 1 .. 6 : i = 1 \/ i = 2 \/ i = 3 \/ i = 4 \/ i = 5 \/ i = 6
  OBVIOUS
<1>3. \A i, j \in 1 .. 6 : InstallSteps[i] = InstallSteps[j] => i = j
  <2> TAKE i, j \in 1 .. 6
  <2>1. i = 1 \/ i = 2 \/ i = 3 \/ i = 4 \/ i = 5 \/ i = 6
    OBVIOUS
  <2>2. j = 1 \/ j = 2 \/ j = 3 \/ j = 4 \/ j = 5 \/ j = 6
    OBVIOUS
  <2> QED BY <2>1, <2>2, SixSteps
<1> QED BY <1>1, <1>2, <1>3, SixSteps

LEMMA OnlyOneAtWork ==
    ASSUME StepsInv, NEW i \in 1 .. 6, request.step = InstallSteps[i]
    PROVE  /\ asoPage.status[InstallSteps[i]] = "InProgress"
           /\ \A j \in 1 .. 6 : j < i => asoPage.status[InstallSteps[j]] = "Succeeded"
           /\ \A j \in 1 .. 6 : j > i => asoPage.status[InstallSteps[j]] = "NotStarted"
<1> USE StepPlaces DEF StepsInv
<1>1. asoPage.status[InstallSteps[i]] = "InProgress"
  OBVIOUS
<1> DEFINE st(j) == asoPage.status[InstallSteps[j]]
<1>2. /\ st(2) # "NotStarted" => st(1) = "Succeeded"
      /\ st(3) # "NotStarted" => st(2) = "Succeeded"
      /\ st(4) # "NotStarted" => st(3) = "Succeeded"
      /\ st(5) # "NotStarted" => st(4) = "Succeeded"
      /\ st(6) # "NotStarted" => st(5) = "Succeeded"
  OBVIOUS
<1>3. \A j \in 1 .. 6 : j = 1 \/ j = 2 \/ j = 3 \/ j = 4 \/ j = 5 \/ j = 6
  OBVIOUS
<1>4. st(i) = "InProgress"
  BY <1>1
<1> HIDE DEF st
<1>5. /\ \A j \in 1 .. 6 : j < i => st(j) = "Succeeded"
      /\ \A j \in 1 .. 6 : j > i => st(j) = "NotStarted"
  <2>1. CASE i = 1
    BY <1>2, <1>3, <1>4, <2>1
  <2>2. CASE i = 2
    BY <1>2, <1>3, <1>4, <2>2
  <2>3. CASE i = 3
    BY <1>2, <1>3, <1>4, <2>3
  <2>4. CASE i = 4
    BY <1>2, <1>3, <1>4, <2>4
  <2>5. CASE i = 5
    BY <1>2, <1>3, <1>4, <2>5
  <2>6. CASE i = 6
    BY <1>2, <1>3, <1>4, <2>6
  <2> QED BY <1>3, <2>1, <2>2, <2>3, <2>4, <2>5, <2>6
<1> QED BY <1>1, <1>5 DEF st

\* The one step that is at work ends; the next, if there is one and it went well, is started.
LEMMA StepEnds ==
    ASSUME StepsInv, NEW i \in 2 .. 6, NEW ok \in BOOLEAN, request.step = InstallSteps[i],
           StepCompleted(InstallSteps[i], ok)
    PROVE  /\ StepsInv'
           /\ asoPage'.selected = asoPage.selected
           /\ \A s \in StepNames : asoPage'.status[s] = "Succeeded" =>
                  asoPage.status[s] = "Succeeded" \/ (s = InstallSteps[i] /\ ok)
           /\ request'.rollouts = NoRollouts
<1> DEFINE done == [asoPage EXCEPT !.status[InstallSteps[i]] = IF ok THEN "Succeeded" ELSE "Failed"]
<1>0. i \in 1 .. 6 /\ InstallSteps[i] \in StepNames
  BY StepPlaces
<1>1. (CHOOSE n \in DOMAIN InstallSteps : InstallSteps[n] = InstallSteps[i]) = i
  BY <1>0, SixSteps, StepPlaces
<1>2. /\ asoPage.status[InstallSteps[i]] = "InProgress"
      /\ \A j \in 1 .. 6 : j < i => asoPage.status[InstallSteps[j]] = "Succeeded"
      /\ \A j \in 1 .. 6 : j > i => asoPage.status[InstallSteps[j]] = "NotStarted"
  BY <1>0, OnlyOneAtWork
<1>3. InstallStarted /\ getRequiredInputs(asoPage)
  <2>1. asoPage.status["certManager"] # "NotStarted"
    BY <1>0, <1>2, SixSteps
  <2> QED BY <2>1 DEF InstallStarted, StepsInv
<1>4. done \in AsoPages /\ getRequiredInputs(done) /\ done.selected = asoPage.selected
      /\ ~done.threw
  BY <1>0, <1>3 DEF StepsInv, AsoPages, StepStatuses, getRequiredInputs
<1>5. /\ done.status[InstallSteps[i]] = IF ok THEN "Succeeded" ELSE "Failed"
      /\ \A s \in StepNames : s # InstallSteps[i] => done.status[s] = asoPage.status[s]
  BY <1>0 DEF StepsInv, AsoPages
<1> DEFINE Sub == request'.step \notin {"none", "checkSP"} => request'.sub = asoPage'.selected
<1>6. CASE ~ok \/ i = 6
  <2>1. asoPage' = done /\ request' = NoRequest
    BY <1>1, <1>6, SixSteps DEF StepCompleted, NextStep
  <2>2. request' \in Requested /\ request'.step = "none" /\ request'.rollouts = NoRollouts
    BY <2>1 DEF NoRequest, NoRollouts, Requested, AnySubscription
  <2> HIDE DEF done
  <2>3. \A s \in StepNames : asoPage'.status[s] # "InProgress" /\ request'.step # s
    BY <1>0, <1>5, <2>1, <2>2, StepPlaces DEF StepsInv
  <2>4. \A j \in 1 .. 5 : asoPage'.status[InstallSteps[j + 1]] # "NotStarted" =>
                             asoPage'.status[InstallSteps[j]] = "Succeeded"
    BY <1>0, <1>2, <1>5, <1>6, <2>1, StepPlaces DEF StepsInv
  <2>5. getRequiredInputs(asoPage')
    BY <1>4, <2>1
  <2>6. StepsInv'
    BY <1>4, <2>1, <2>2, <2>3, <2>4, <2>5 DEF StepsInv, InstallStarted, getRequiredInputs
  <2> QED BY <1>4, <1>5, <2>1, <2>2, <2>6
<1>7. CASE ok /\ i # 6
  <2>0. i + 1 \in 1 .. 6 /\ InstallSteps[i + 1] \in StepNames /\ i + 1 # i
        /\ InstallSteps[i + 1] # InstallSteps[i] /\ InstallSteps[i + 1] # "checkSP"
    BY <1>7, StepPlaces, SixSteps
  <2>1. asoPage' = [done EXCEPT !.status[InstallSteps[i + 1]] = "InProgress"]
        /\ request' = RequestOf(InstallSteps[i + 1], done)
    <3> HIDE DEF done
    <3>1. NextStep(done, i)
      BY <1>1, <1>7 DEF StepCompleted, done
    <3> QED BY <1>4, <1>7, <3>1, SixSteps DEF NextStep, StartsStep
  <2>2. request' \in Requested /\ request'.step = InstallSteps[i + 1]
        /\ request'.rollouts = NoRollouts /\ request'.sub = asoPage.selected
    <3> HIDE DEF done
    <3> QED BY <1>4, <2>0, <2>1
            DEF RequestOf, NoRequest, NoRollouts, Requested, AnySubscription, AsoPages
  <2> HIDE DEF done
  <2>3. /\ asoPage' \in AsoPages /\ asoPage'.selected = asoPage.selected /\ ~asoPage'.threw
        /\ asoPage'.filled = done.filled /\ asoPage'.tenant = done.tenant
        /\ asoPage'.status[InstallSteps[i + 1]] = "InProgress"
        /\ \A s \in StepNames : s # InstallSteps[i + 1] => asoPage'.status[s] = done.status[s]
    BY <1>4, <2>0, <2>1 DEF AsoPages, StepStatuses
  <2>4. \A s \in StepNames : asoPage'.status[s] = "InProgress" <=> request'.step = s
    BY <1>0, <1>5, <1>7, <2>0, <2>2, <2>3, StepPlaces DEF StepsInv
  <2>5. \A j \in 1 .. 5 : asoPage'.status[InstallSteps[j + 1]] # "NotStarted" =>
                             asoPage'.status[InstallSteps[j]] = "Succeeded"
    <3> TAKE j \in 1 .. 5
    <3>0. j \in 1 .. 6 /\ j + 1 \in 1 .. 6
      OBVIOUS
    <3>1. CASE j < i
      <4>1. asoPage'.status[InstallSteps[j]] = asoPage.status[InstallSteps[j]]
        BY <1>0, <1>5, <2>0, <2>3, <3>0, <3>1, StepPlaces
      <4> QED BY <1>2, <3>0, <3>1, <4>1
    <3>2. CASE j = i
      BY <1>0, <1>5, <1>7, <2>0, <2>3, <3>2
    <3>3. CASE j > i
      <4>1. asoPage'.status[InstallSteps[j + 1]] = asoPage.status[InstallSteps[j + 1]]
        <5>1. j + 1 # i /\ j + 1 # i + 1
          BY <3>3
        <5> QED BY <1>0, <1>5, <2>0, <2>3, <3>0, <5>1, StepPlaces
      <4>2. j + 1 > i
        BY <3>3
      <4> QED BY <1>2, <3>0, <4>1, <4>2
    <3> QED BY <3>1, <3>2, <3>3
  <2>6. getRequiredInputs(asoPage')
    BY <1>4, <2>3 DEF getRequiredInputs
  <2>7. StepsInv'
    BY <2>2, <2>3, <2>4, <2>5, <2>6 DEF StepsInv, InstallStarted, getRequiredInputs
  <2>8. \A s \in StepNames : asoPage'.status[s] = "Succeeded" =>
             asoPage.status[s] = "Succeeded" \/ (s = InstallSteps[i] /\ ok)
    BY <1>5, <1>7, <2>0, <2>3
  <2> QED BY <2>2, <2>3, <2>7, <2>8
<1> QED BY <1>6, <1>7

\* Before the installation is started no step of it is at work.
LEMMA NothingStarted ==
    ASSUME StepsInv, ~InstallStarted
    PROVE  /\ request.step \in {"none", "checkSP"}
           /\ \A i \in 2 .. 6 : asoPage.status[InstallSteps[i]] = "NotStarted"
<1>1. /\ \A i \in 2 .. 6 : request.step # InstallSteps[i]
  <2> SUFFICES ASSUME NEW i \in 2 .. 6, request.step = InstallSteps[i] PROVE FALSE
    OBVIOUS
  <2>1. asoPage.status[InstallSteps[2]] # "NotStarted"
    <3>1. i \in 1 .. 6 /\ 2 \in 1 .. 6 /\ (i = 2 \/ 2 < i)
      OBVIOUS
    <3> QED BY <3>1, OnlyOneAtWork
  <2> QED BY <2>1, SixSteps DEF InstallStarted
<1> DEFINE st(j) == asoPage.status[InstallSteps[j]]
<1>2. st(2) = "NotStarted"
  BY SixSteps DEF InstallStarted
<1>3. /\ st(3) # "NotStarted" => st(2) = "Succeeded"
      /\ st(4) # "NotStarted" => st(3) = "Succeeded"
      /\ st(5) # "NotStarted" => st(4) = "Succeeded"
      /\ st(6) # "NotStarted" => st(5) = "Succeeded"
  BY DEF StepsInv
<1>4. \A i \in 2 .. 6 : i = 2 \/ i = 3 \/ i = 4 \/ i = 5 \/ i = 6
  OBVIOUS
<1> HIDE DEF st
<1>5. \A i \in 2 .. 6 : st(i) = "NotStarted"
  BY <1>2, <1>3, <1>4
<1>6. request.step \in {"none", "checkSP"}
  <2>1. \A i \in 1 .. 6 : i = 1 \/ i \in 2 .. 6
    OBVIOUS
  <2> QED BY <1>1, <2>1, StepPlaces, SixSteps DEF StepsInv, Requested
<1> QED BY <1>5, <1>6 DEF st

\* The steps of the user, and the check of the service principal, leave the cluster alone.
LEMMA AsoUserSteps ==
    ASSUME StepsInv, DeployedInv,
           \/ AsoUser
           \/ \E subs \in SUBSET Subscriptions, succeeded \in BOOLEAN :
                  handleCheckSPRequest(subs, succeeded)
    PROVE  StepsInv' /\ DeployedInv'
<1> USE DEF AsoPages, StepStatuses, AnySubscription
<1>0. /\ CanEditSP => ~InstallStarted
      /\ request.step = "checkSP" => ~InstallStarted
  <2>1. InstallStarted => asoPage.status["checkSP"] = "Succeeded"
    BY SixSteps DEF StepsInv, InstallStarted
  <2> QED BY <2>1, StepPlaces DEF StepsInv, CanEditSP
\* all of them happen before the installation is started
<1>1. ~InstallStarted /\ UNCHANGED deployed
  BY <1>0 DEF AsoUser, handleServicePrincipalChange, handleCheckSPClick,
              handleSubscriptionChanged, handleInstall, handleCheckSPRequest, CanSelectSubscription
<1>2. /\ request.step \in {"none", "checkSP"}
      /\ \A i \in 2 .. 6 : asoPage.status[InstallSteps[i]] = "NotStarted"
  BY <1>1, NothingStarted
<1>n. /\ asoPage.status["certManager"] = "NotStarted"
      /\ asoPage.status["waitForCertManager"] = "NotStarted"
      /\ asoPage.status["operator"] = "NotStarted"
      /\ asoPage.status["settings"] = "NotStarted"
      /\ asoPage.status["waitForControllerManager"] = "NotStarted"
  BY <1>2, SixSteps
<1> DEFINE Early ==
      /\ asoPage' \in AsoPages /\ ~asoPage'.threw
      /\ request' \in Requested /\ request'.step \in {"none", "checkSP", "certManager"}
      /\ \A s \in StepNames : asoPage'.status[s] = "InProgress" <=> request'.step = s
      /\ asoPage'.status["certManager"] # "NotStarted" =>
             /\ asoPage'.status["checkSP"] = "Succeeded"
             /\ getRequiredInputs(asoPage')
             /\ asoPage'.status["certManager"] = "InProgress"
             /\ request'.sub = asoPage'.selected
      /\ \A s \in {"waitForCertManager", "operator", "settings", "waitForControllerManager"} :
             asoPage'.status[s] = "NotStarted"
<1>3. ASSUME Early PROVE StepsInv' /\ DeployedInv'
  <2>1. \A i \in 1 .. 5 : asoPage'.status[InstallSteps[i + 1]] # "NotStarted" =>
                             asoPage'.status[InstallSteps[i]] = "Succeeded"
    <3>1. \A i \in 1 .. 5 : i = 1 \/ i = 2 \/ i = 3 \/ i = 4 \/ i = 5
      OBVIOUS
    <3> QED BY <1>3, <3>1, SixSteps
  <2>2. request'.step = "certManager" => asoPage'.status["certManager"] = "InProgress"
    BY <1>3, StepPlaces
  <2>3. StepsInv'
    BY <1>3, <2>1, <2>2 DEF StepsInv, InstallStarted, getRequiredInputs
  <2>4. DeployedInv'
    BY <1>1, <1>3 DEF DeployedInv
  <2> QED BY <2>3, <2>4
<1>4. ASSUME NEW filled \in BOOLEAN, handleServicePrincipalChange(filled) PROVE Early
  BY <1>2, <1>n, <1>4 DEF handleServicePrincipalChange, StepsInv
<1>5. CASE handleCheckSPClick
  <2>1. /\ asoPage' = [asoPage EXCEPT !.status["checkSP"] = "InProgress"]
        /\ request' = RequestOf("checkSP", asoPage)
    BY <1>5 DEF handleCheckSPClick, StartsStep
  <2>2. request' \in Requested /\ request'.step = "checkSP"
    BY <2>1, StepPlaces DEF RequestOf, NoRequest, NoRollouts, Requested, StepsInv
  <2>3. request.step # "checkSP"
    BY <1>5, StepPlaces DEF handleCheckSPClick, CanEditSP, StepsInv
  <2>4. asoPage' \in AsoPages /\ ~asoPage'.threw /\ asoPage'.status["checkSP"] = "InProgress"
        /\ \A s \in StepNames : s # "checkSP" => asoPage'.status[s] = asoPage.status[s]
    BY <2>1, StepPlaces DEF StepsInv
  <2>5. \A s \in StepNames : asoPage'.status[s] = "InProgress" <=> request'.step = s
    BY <1>2, <2>2, <2>3, <2>4, StepPlaces DEF StepsInv
  <2>6. Early
    BY <1>n, <2>2, <2>4, <2>5, StepPlaces
  <2> QED BY <1>3, <2>6
<1>6. ASSUME NEW sub \in AnySubscription, handleSubscriptionChanged(sub) PROVE Early
  BY <1>2, <1>n, <1>6 DEF handleSubscriptionChanged, StepsInv
<1>7. CASE handleInstall
  <2>1. /\ asoPage' = [asoPage EXCEPT !.status["certManager"] = "InProgress"]
        /\ request' = RequestOf("certManager", asoPage)
        /\ asoPage.status["checkSP"] = "Succeeded" /\ getRequiredInputs(asoPage)
    BY <1>7 DEF handleInstall, StartsStep, CanViewSubscriptions
  <2>2. request' \in Requested /\ request'.step = "certManager" /\ request'.sub = asoPage.selected
    BY <2>1, StepPlaces DEF RequestOf, NoRequest, NoRollouts, Requested, StepsInv
  <2>3. /\ asoPage' \in AsoPages /\ ~asoPage'.threw /\ asoPage'.selected = asoPage.selected
        /\ asoPage'.status["certManager"] = "InProgress" /\ getRequiredInputs(asoPage')
        /\ \A s \in StepNames : s # "certManager" => asoPage'.status[s] = asoPage.status[s]
    BY <2>1, StepPlaces DEF StepsInv, getRequiredInputs
  <2>4. request.step = "none"
    BY <1>2, <2>1, StepPlaces DEF StepsInv
  <2>5. \A s \in StepNames : asoPage'.status[s] = "InProgress" <=> request'.step = s
    BY <2>2, <2>3, <2>4, StepPlaces DEF StepsInv
  <2>6. Early
    BY <1>n, <2>1, <2>2, <2>3, <2>5, StepPlaces
  <2> QED BY <1>3, <2>6
<1>8. ASSUME NEW subs \in SUBSET Subscriptions, NEW succeeded \in BOOLEAN,
             handleCheckSPRequest(subs, succeeded)
      PROVE  StepsInv' /\ DeployedInv'
  <2> DEFINE st == IF succeeded THEN "Succeeded" ELSE "Failed"
             chosen == IF succeeded /\ \E s \in subs : subs = {s}
                       THEN CHOOSE s \in subs : TRUE ELSE NoSubscription
             listed2 == IF succeeded THEN subs ELSE {}
  <2>1. st \in StepStatuses /\ st # "InProgress" /\ st # "NotStarted"
        /\ chosen \in AnySubscription /\ listed2 \in SUBSET Subscriptions
    OBVIOUS
  <2>2. /\ asoPage' = [asoPage EXCEPT !.status["checkSP"] = st, !.tenant = succeeded,
                                      !.subscriptions = listed2, !.selected = chosen]
        /\ request' = NoRequest /\ request.step = "checkSP"
    BY <1>8 DEF handleCheckSPRequest
  <2> HIDE DEF st, chosen, listed2
  <2>3. request' \in Requested /\ request'.step = "none"
    BY <2>2 DEF NoRequest, NoRollouts, Requested
  <2>4. /\ asoPage' \in AsoPages /\ ~asoPage'.threw /\ asoPage'.status["checkSP"] = st
        /\ \A s \in StepNames : s # "checkSP" => asoPage'.status[s] = asoPage.status[s]
    BY <2>1, <2>2, StepPlaces DEF StepsInv
  <2>5. \A s \in StepNames : asoPage'.status[s] = "InProgress" <=> request'.step = s
    BY <2>1, <2>2, <2>3, <2>4, StepPlaces DEF StepsInv
  <2>6. Early
    BY <1>n, <2>3, <2>4, <2>5, StepPlaces
  <2> QED BY <1>3, <2>6
<1> QED BY <1>3, <1>4, <1>5, <1>6, <1>7, <1>8 DEF AsoUser

\* The handlers of the five steps.
LEMMA HandlerOfStep ==
    ASSUME StepsInv, DeployedInv, NEW i \in 2 .. 6, NEW ok \in BOOLEAN,
           request.step = InstallSteps[i], StepCompleted(InstallSteps[i], ok),
           deployed' \in [cert : [CertManager -> {"absent", "created", "ready"}],
                          operator : {"absent", "part", "created", "ready"},
                          settings : AnySubscription],
           \A d \in CertManager : deployed.cert[d] = "ready" => deployed'.cert[d] = "ready",
           deployed.operator = "ready" => deployed'.operator = "ready",
           deployed'.settings = deployed.settings \/ i = 5,
           ok /\ i = 3 => \A d \in CertManager : deployed'.cert[d] = "ready",
           ok /\ i = 5 => deployed'.settings = asoPage.selected,
           ok /\ i = 6 => deployed'.operator = "ready"
    PROVE  StepsInv' /\ DeployedInv'
<1>1. /\ StepsInv'
      /\ asoPage'.selected = asoPage.selected
      /\ \A s \in StepNames : asoPage'.status[s] = "Succeeded" =>
             asoPage.status[s] = "Succeeded" \/ (s = InstallSteps[i] /\ ok)
      /\ request'.rollouts = NoRollouts
  BY StepEnds
<1>2. \A d \in CertManager : request'.rollouts[d] # "ready"
  BY <1>1 DEF NoRollouts
<1>3. i = 5 => asoPage.status["settings"] # "Succeeded"
  BY SixSteps, StepPlaces DEF StepsInv
<1>4. /\ InstallSteps[i] = "waitForCertManager" => i = 3
      /\ InstallSteps[i] = "settings" => i = 5
      /\ InstallSteps[i] = "waitForControllerManager" => i = 6
  <2>1. i \in 1 .. 6 /\ 3 \in 1 .. 6 /\ 5 \in 1 .. 6 /\ 6 \in 1 .. 6
    OBVIOUS
  <2> QED BY <2>1, SixSteps, StepPlaces
<1>5. DeployedInv'
  <2>1. asoPage'.status["waitForCertManager"] = "Succeeded" =>
            \A d \in CertManager : deployed'.cert[d] = "ready"
    BY <1>1, <1>4, StepPlaces DEF DeployedInv
  <2>2. asoPage'.status["settings"] = "Succeeded" => deployed'.settings = asoPage'.selected
    BY <1>1, <1>3, <1>4, StepPlaces DEF DeployedInv
  <2>3. asoPage'.status["waitForControllerManager"] = "Succeeded" => deployed'.operator = "ready"
    BY <1>1, <1>4, StepPlaces DEF DeployedInv
  <2> QED BY <1>2, <2>1, <2>2, <2>3 DEF DeployedInv
<1> QED BY <1>1, <1>5

LEMMA AsoHandlerSteps ==
    ASSUME StepsInv, DeployedInv,
           \/ handleInstallCertManagerRequest
           \/ \E d \in CertManager : RolloutEnds(d)
           \/ handleWaitForCertManagerRequest
           \/ handleInstallOperatorRequest
           \/ handleInstallOperatorSettingsRequest
           \/ handleWaitForControllerManagerRequest
    PROVE  StepsInv' /\ DeployedInv'
<1> DEFINE ClusterStates == [cert : [CertManager -> {"absent", "created", "ready"}],
                       operator : {"absent", "part", "created", "ready"},
                       settings : AnySubscription]
<1>0. deployed \in ClusterStates
  BY DEF DeployedInv
<1>p. 2 \in 2 .. 6 /\ 3 \in 2 .. 6 /\ 4 \in 2 .. 6 /\ 5 \in 2 .. 6 /\ 6 \in 2 .. 6
  OBVIOUS
<1>1. CASE handleInstallCertManagerRequest
  <2>1. PICK ok \in BOOLEAN : StepCompleted("certManager", ok)
    BY <1>1 DEF handleInstallCertManagerRequest
  <2>2. /\ deployed' \in ClusterStates
        /\ \A d \in CertManager : deployed.cert[d] = "ready" => deployed'.cert[d] = "ready"
        /\ deployed'.operator = deployed.operator /\ deployed'.settings = deployed.settings
    <3>1. CASE /\ deployed.cert = [d \in CertManager |-> "absent"]
               /\ deployed' = [deployed EXCEPT !.cert = [d \in CertManager |-> "created"]]
      BY <1>0, <3>1
    <3>2. ASSUME NEW part \in SUBSET CertManager,
                 deployed' = [deployed EXCEPT !.cert =
                     [d \in CertManager |->
                         IF d \in part /\ @[d] = "absent" THEN "created" ELSE @[d]]]
          PROVE  /\ deployed' \in ClusterStates
                 /\ \A d \in CertManager : deployed.cert[d] = "ready" => deployed'.cert[d] = "ready"
                 /\ deployed'.operator = deployed.operator
                 /\ deployed'.settings = deployed.settings
      BY <1>0, <3>2
    <3> QED BY <1>1, <3>1, <3>2 DEF handleInstallCertManagerRequest
  <2>3. request.step = InstallSteps[2] /\ StepCompleted(InstallSteps[2], ok)
    BY <1>1, <2>1, SixSteps DEF handleInstallCertManagerRequest
  <2> QED BY <1>p, <2>2, <2>3, HandlerOfStep
<1>2. ASSUME NEW d \in CertManager, RolloutEnds(d) PROVE StepsInv' /\ DeployedInv'
  <2>1. PICK end \in {"ready", "failed"} :
            /\ end = "ready" => deployed.cert[d] = "ready"
            /\ request' = [request EXCEPT !.rollouts[d] = end]
    BY <1>2 DEF RolloutEnds
  <2>2. /\ request' \in Requested /\ request'.step = request.step /\ request'.sub = request.sub
        /\ \A e \in CertManager : request'.rollouts[e] = IF e = d THEN end ELSE request.rollouts[e]
    BY <2>1 DEF StepsInv, Requested
  <2>3. StepsInv'
    BY <1>2, <2>2 DEF RolloutEnds, StepsInv, InstallStarted, getRequiredInputs
  <2>4. DeployedInv'
    BY <1>2, <2>1, <2>2 DEF RolloutEnds, DeployedInv
  <2> QED BY <2>3, <2>4
<1>3. CASE handleWaitForCertManagerRequest
  <2> DEFINE ok == RolledOut(request.rollouts)
  <2>1. ok \in BOOLEAN /\ request.step = InstallSteps[3] /\ StepCompleted(InstallSteps[3], ok)
        /\ deployed' = deployed
    BY <1>3, SixSteps DEF handleWaitForCertManagerRequest, RolledOut
  <2>2. ok => \A d \in CertManager : deployed.cert[d] = "ready"
    BY <1>3 DEF handleWaitForCertManagerRequest, RolledOut, DeployedInv
  <2> HIDE DEF ok
  <2> QED BY <1>0, <1>p, <2>1, <2>2, HandlerOfStep
<1>4. CASE handleInstallOperatorRequest
  <2>1. PICK ok \in BOOLEAN : StepCompleted("operator", ok)
    BY <1>4 DEF handleInstallOperatorRequest
  <2>2. /\ deployed' \in ClusterStates
        /\ deployed'.cert = deployed.cert /\ deployed'.settings = deployed.settings
        /\ deployed.operator = "ready" => deployed'.operator = "ready"
    BY <1>0, <1>4 DEF handleInstallOperatorRequest
  <2>3. request.step = InstallSteps[4] /\ StepCompleted(InstallSteps[4], ok)
    BY <1>4, <2>1, SixSteps DEF handleInstallOperatorRequest
  <2> QED BY <1>p, <2>2, <2>3, HandlerOfStep
<1>5. CASE handleInstallOperatorSettingsRequest
  <2>1. PICK ok \in BOOLEAN : /\ StepCompleted("settings", ok)
                              /\ ok => deployed' = [deployed EXCEPT !.settings = request.sub]
                              /\ ~ok => deployed' = deployed
    BY <1>5 DEF handleInstallOperatorSettingsRequest
  <2>2. request.step = InstallSteps[5] /\ StepCompleted(InstallSteps[5], ok)
    BY <1>5, <2>1, SixSteps DEF handleInstallOperatorSettingsRequest
  <2>3. request.sub = asoPage.selected /\ request.sub \in AnySubscription
    BY <1>5 DEF handleInstallOperatorSettingsRequest, StepsInv, Requested
  <2>4. /\ deployed' \in ClusterStates /\ deployed'.cert = deployed.cert
        /\ deployed'.operator = deployed.operator
        /\ ok => deployed'.settings = asoPage.selected
    BY <1>0, <2>1, <2>3
  <2> QED BY <1>p, <2>2, <2>4, HandlerOfStep
<1>6. CASE handleWaitForControllerManagerRequest
  <2>1. PICK ok \in BOOLEAN : /\ StepCompleted("waitForControllerManager", ok)
                              /\ ok => deployed.operator = "ready"
    BY <1>6 DEF handleWaitForControllerManagerRequest
  <2>2. request.step = InstallSteps[6] /\ StepCompleted(InstallSteps[6], ok) /\ deployed' = deployed
    BY <1>6, <2>1, SixSteps DEF handleWaitForControllerManagerRequest
  <2> QED BY <1>0, <1>p, <2>1, <2>2, HandlerOfStep
<1> QED BY <1>1, <1>2, <1>3, <1>4, <1>5, <1>6

LEMMA AsoStep ==
    StepsInv /\ DeployedInv /\ [AsoNext]_asoVars => StepsInv' /\ DeployedInv'
<1> SUFFICES ASSUME StepsInv, DeployedInv, [AsoNext]_asoVars PROVE StepsInv' /\ DeployedInv'
  OBVIOUS
<1>1. CASE BecomesReady
  <2>1. StepsInv'
    BY <1>1 DEF BecomesReady, StepsInv, InstallStarted, getRequiredInputs
  <2>2. /\ deployed' \in [cert : [CertManager -> {"absent", "created", "ready"}],
                          operator : {"absent", "part", "created", "ready"},
                          settings : AnySubscription]
        /\ deployed'.settings = deployed.settings
        /\ \A d \in CertManager : deployed.cert[d] = "ready" => deployed'.cert[d] = "ready"
        /\ deployed.operator = "ready" => deployed'.operator = "ready"
    BY <1>1 DEF BecomesReady, DeployedInv
  <2> QED BY <1>1, <2>1, <2>2 DEF BecomesReady, DeployedInv
<1>2. CASE UNCHANGED asoVars
  BY <1>2 DEF asoVars, StepsInv, DeployedInv, InstallStarted, getRequiredInputs
<1> QED BY <1>1, <1>2, AsoUserSteps, AsoHandlerSteps DEF AsoNext, AsoHandler

LEMMA AsoStart == AsoInit => StepsInv /\ DeployedInv
<1> SUFFICES ASSUME AsoInit PROVE StepsInv /\ DeployedInv
  OBVIOUS
<1>1. asoPage \in AsoPages /\ request \in Requested
  BY StepPlaces DEF AsoInit, AsoPage, NoRequest, NoRollouts, AsoPages, Requested, StepStatuses,
                    AnySubscription
<1>2. \A s \in StepNames : asoPage.status[s] = "NotStarted" /\ request.step # s
  BY StepPlaces DEF AsoInit, AsoPage, NoRequest
<1>3. \A i \in 1 .. 5 : i + 1 \in 1 .. 6
  OBVIOUS
<1>4. StepsInv
  BY <1>1, <1>2, <1>3, StepPlaces DEF StepsInv, InstallStarted, AsoInit, AsoPage, NoRequest
<1>5. DeployedInv
  BY <1>2, StepPlaces DEF DeployedInv, AsoInit, NoRequest, AnySubscription
<1> QED BY <1>4, <1>5

\* For any subscriptions: the effects of the page find what they need, the operator is created on
\* a cert-manager that was ready, and is given the subscription that the page shows.
THEOREM OperatorIsAsChosen == AsoSpec => []OperatorAsChosen
<1>1. StepsInv /\ DeployedInv => OperatorAsChosen
  <2> SUFFICES ASSUME StepsInv, DeployedInv PROVE OperatorAsChosen
    OBVIOUS
  <2>1. ~asoPage.threw
    BY DEF StepsInv
  <2>2. request.step \in {"operator", "settings", "waitForControllerManager"} =>
            asoPage.status["waitForCertManager"] = "Succeeded"
    <3>1. ASSUME NEW i \in 4 .. 6, request.step = InstallSteps[i]
          PROVE  asoPage.status[InstallSteps[3]] = "Succeeded"
      <4>1. i \in 1 .. 6 /\ 3 \in 1 .. 6 /\ 3 < i
        OBVIOUS
      <4> QED BY <3>1, <4>1, OnlyOneAtWork
    <3>2. 4 \in 4 .. 6 /\ 5 \in 4 .. 6 /\ 6 \in 4 .. 6
      OBVIOUS
    <3> QED BY <3>1, <3>2, SixSteps
  <2>3. SaysInstalled => /\ deployed.operator = "ready"
                         /\ asoPage.status["settings"] = "Succeeded"
    <3>1. 5 \in 1 .. 5 /\ 5 + 1 = 6
      OBVIOUS
    <3>2. asoPage.status[InstallSteps[6]] # "NotStarted" =>
              asoPage.status[InstallSteps[5]] = "Succeeded"
      BY <3>1 DEF StepsInv
    <3> QED BY <3>2, SixSteps DEF SaysInstalled, DeployedInv
  <2> QED BY <2>1, <2>2, <2>3 DEF OperatorAsChosen, DeployedInv
<1> QED BY <1>1, AsoStart, AsoStep, PTL DEF AsoSpec

-----------------------------------------------------------------------------
(* Inspektor Gadget: the page's table, the one request of the deployment,  *)
(* and the streams that were asked for.                                    *)

Streams == [trace : Nat, state : {"opening", "live", "ended"}]
GadgetTabs == TraceTabs \cup {"overview"}
GadgetPages == [status : {"Initializing", "Known", "Deploying", "Undeploying", "Failed", "Closed"},
                version : {"unknown", "absent", "valid", "odd"}, started : BOOLEAN,
                tab : GadgetTabs, preset : TraceTabs \cup {"none"}, next : Nat,
                traces : SUBSET [id : Nat, tab : TraceTabs, output : BOOLEAN]]
Tables == [shown : BOOLEAN, checked : SUBSET Nat, selected : Nat \cup {NoTrace},
           watching : BOOLEAN]

PageTypes ==
    /\ gadgetPage \in GadgetPages
    /\ traceTable \in Tables
    /\ gadgetJobs \in SUBSET {"version", "deploy", "undeploy"}

StreamTypes ==
    /\ watches \in Seq(Streams)
    /\ currentStream \in Nat
    /\ excused \in SUBSET {"overtaken", "left"}

\* At most one request is at work, and nothing is deployed as far as the page knows while it is.
JobsInv ==
    /\ gadgetJobs # {} => gadgetPage.version = "unknown"
    /\ \A j, k \in gadgetJobs : j = k
    /\ gadgetPage.status = "Initializing" /\ ~gadgetPage.started =>
           gadgetJobs = {} /\ gadgetPage.version = "unknown"
    /\ gadgetPage.status = "Deploying" => "deploy" \in gadgetJobs
    /\ gadgetPage.status = "Undeploying" => "undeploy" \in gadgetJobs

\* The eye is open only on the tab of streams of a gadget that is deployed.
EyeInv == traceTable.watching => gadgetPage.tab = "trace" /\ isDeployed(gadgetPage)

HeldInv ==
    "overtaken" \notin excused => \A w \in DOMAIN watches :
        /\ watches[w].state = "live" => w = currentStream
        /\ watches[w].state = "opening" =>
               \A v \in DOMAIN watches : v # w => watches[v].state = "ended"

FollowedInv ==
    "overtaken" \notin excused /\ "left" \notin excused => \A w \in DOMAIN watches :
        watches[w].state # "ended" =>
            traceTable.watching /\ traceTable.selected = watches[w].trace

StreamInv == StreamTypes /\ HeldInv
GadgetInv == PageTypes /\ StreamInv /\ JobsInv /\ EyeInv /\ FollowedInv

\* What runs, of the streams that the watcher knows about.
Silent == "overtaken" \notin excused => \A w \in DOMAIN watches : watches[w].state = "ended"
OnlyFor(t) == "overtaken" \notin excused => \A w \in DOMAIN watches :
                  watches[w].state # "ended" => watches[w].trace = t

LEMMA DisposedStreams ==
    ASSUME StreamInv
    PROVE  /\ Disposed \in Seq(Streams) /\ Len(Disposed) = Len(watches)
           /\ DOMAIN Disposed = DOMAIN watches
           /\ \A w \in DOMAIN watches : /\ Disposed[w].trace = watches[w].trace
                                        /\ w = currentStream => Disposed[w].state = "ended"
                                        /\ w # currentStream => Disposed[w] = watches[w]
<1> USE DEF StreamInv, StreamTypes
<1>1. DOMAIN watches = 1 .. Len(watches) /\ Len(watches) \in Nat
      /\ \A w \in DOMAIN watches : watches[w] \in Streams
  OBVIOUS
<1>2. Disposed \in [1 .. Len(watches) -> Streams]
  BY <1>1 DEF Disposed, Streams
<1>3. Disposed \in Seq(Streams) /\ Len(Disposed) = Len(watches) /\ DOMAIN Disposed = DOMAIN watches
  BY <1>1, <1>2
<1> QED BY <1>1, <1>3 DEF Disposed, Streams

LEMMA Stopping ==
    ASSUME StreamInv, stopWatching
    PROVE  StreamInv' /\ Silent' /\ excused \subseteq excused'
<1>1. StreamTypes' /\ excused \subseteq excused'
  BY DisposedStreams DEF stopWatching, StreamInv, StreamTypes, Overtakes
<1>2. ASSUME "overtaken" \notin excused', NEW w \in DOMAIN watches'
      PROVE  watches'[w].state = "ended"
  <2>1. Opening = {} /\ "overtaken" \notin excused
    BY <1>2 DEF stopWatching, Overtakes
  <2>2. w \in DOMAIN watches /\ watches' = Disposed
    BY <1>2, DisposedStreams DEF stopWatching
  <2>3. watches[w] \in Streams /\ watches[w].state # "opening"
    BY <2>1, <2>2 DEF Opening, StreamInv, StreamTypes
  <2>4. watches[w].state = "live" => w = currentStream
    BY <2>1, <2>2 DEF StreamInv, HeldInv
  <2> QED BY <2>2, <2>3, <2>4, DisposedStreams DEF Streams
<1> QED BY <1>1, <1>2 DEF StreamInv, HeldInv, Silent

LEMMA Watching ==
    ASSUME StreamInv, NEW t \in Nat, watch(t)
    PROVE  StreamInv' /\ OnlyFor(t)' /\ excused \subseteq excused'
<1> DEFINE new == [trace |-> t, state |-> "opening"]
<1>1. new \in Streams
  BY DEF Streams
<1>2. watches' = Append(Disposed, new) /\ Len(watches) \in Nat
  BY DEF watch, StreamInv, StreamTypes
<1> HIDE DEF new
<1>3. /\ watches' \in Seq(Streams) /\ DOMAIN watches' = 1 .. (Len(watches) + 1)
      /\ watches'[Len(watches) + 1] = new
      /\ \A w \in 1 .. Len(watches) : watches'[w] = Disposed[w]
  BY <1>1, <1>2, DisposedStreams
<1>4. StreamTypes' /\ excused \subseteq excused'
  BY <1>3 DEF watch, StreamInv, StreamTypes, Overtakes
<1>5. ASSUME "overtaken" \notin excused', NEW w \in 1 .. Len(watches)
      PROVE  watches'[w].state = "ended"
  <2>1. Opening = {} /\ "overtaken" \notin excused /\ w \in DOMAIN watches
    BY <1>5 DEF watch, Overtakes, StreamInv, StreamTypes
  <2>2. watches[w] \in Streams /\ watches[w].state # "opening"
    BY <2>1 DEF Opening, StreamInv, StreamTypes
  <2>3. watches[w].state = "live" => w = currentStream
    BY <2>1 DEF StreamInv, HeldInv
  <2> QED BY <1>3, <2>1, <2>2, <2>3, DisposedStreams DEF Streams
<1>6. \A w \in DOMAIN watches' : w \in 1 .. Len(watches) \/ w = Len(watches) + 1
  BY <1>2, <1>3
<1>7. HeldInv'
  <2> SUFFICES ASSUME "overtaken" \notin excused', NEW w \in DOMAIN watches'
               PROVE  /\ watches'[w].state # "live"
                      /\ watches'[w].state = "opening" =>
                             \A v \in DOMAIN watches' : v # w => watches'[v].state = "ended"
    BY DEF HeldInv
  <2> QED BY <1>3, <1>5, <1>6 DEF new
<1>8. OnlyFor(t)'
  BY <1>3, <1>5, <1>6 DEF OnlyFor, new
<1> QED BY <1>4, <1>7, <1>8 DEF StreamInv

\* The watcher's own steps.
LEMMA WatcherStep ==
    ASSUME GadgetInv, NEW w \in DOMAIN watches, FirstLine(w) \/ EndsUnheard(w) \/ StreamEnds(w)
    PROVE  GadgetInv'
<1> USE DEF GadgetInv
<1>1. /\ DOMAIN watches = 1 .. Len(watches) /\ w \in Nat
      /\ \A v \in DOMAIN watches : watches[v] \in Streams
  BY DEF StreamInv, StreamTypes
<1>2. UNCHANGED <<gadgetPage, traceTable, gadgetJobs, excused>>
  BY DEF FirstLine, EndsUnheard, StreamEnds
<1>3. PICK s \in {"live", "ended"} :
          /\ watches' = [watches EXCEPT ![w].state = s]
          /\ \/ s = "live" /\ watches[w].state = "opening" /\ currentStream' = w
             \/ s = "ended" /\ watches[w].state = "opening"
             \/ s = "ended" /\ currentStream' = currentStream
  BY DEF FirstLine, EndsUnheard, StreamEnds, Opening
<1>4. /\ watches' \in Seq(Streams) /\ DOMAIN watches' = DOMAIN watches
      /\ watches'[w].state = s /\ watches'[w].trace = watches[w].trace
      /\ \A v \in DOMAIN watches : v # w => watches'[v] = watches[v]
  BY <1>1, <1>3 DEF Streams, StreamInv, StreamTypes
<1>5. currentStream' \in Nat
  BY <1>1 DEF FirstLine, EndsUnheard, StreamEnds, StreamInv, StreamTypes
<1>6. watches[w].state # "ended"
  BY DEF FirstLine, EndsUnheard, StreamEnds, Opening
<1>7. HeldInv'
  <2> SUFFICES ASSUME "overtaken" \notin excused, NEW v \in DOMAIN watches
               PROVE  /\ watches'[v].state = "live" => v = currentStream'
                      /\ watches'[v].state = "opening" =>
                             \A u \in DOMAIN watches : u # v => watches'[u].state = "ended"
    BY <1>2, <1>4 DEF HeldInv
  <2>1. CASE s = "live" /\ watches[w].state = "opening" /\ currentStream' = w
    <3>1. \A u \in DOMAIN watches : u # w => watches'[u].state = "ended"
      BY <1>4, <2>1 DEF StreamInv, HeldInv
    <3> QED BY <1>4, <2>1, <3>1
  <2>2. CASE s = "ended" /\ watches[w].state = "opening"
    <3>1. \A u \in DOMAIN watches : watches'[u].state = "ended"
      BY <1>4, <2>2 DEF StreamInv, HeldInv
    <3> QED BY <3>1
  <2>3. CASE s = "ended" /\ currentStream' = currentStream
    BY <1>4, <2>3 DEF StreamInv, HeldInv
  <2> QED BY <1>3, <2>1, <2>2, <2>3
<1>8. FollowedInv'
  BY <1>2, <1>4, <1>6 DEF FollowedInv
<1>9. PageTypes' /\ JobsInv' /\ EyeInv'
  BY <1>2 DEF PageTypes, JobsInv, EyeInv, isDeployed
<1>10. StreamTypes'
  BY <1>2, <1>4, <1>5 DEF StreamInv, StreamTypes
<1> QED BY <1>7, <1>8, <1>9, <1>10 DEF StreamInv

\* A page that shows its tab anew shows no stream: what runs then was left, or was not shown.
LEMMA Showing ==
    ASSUME PageTypes, EyeInv, NEW newPage \in GadgetPages, Shows(newPage),
           newPage.tab # "trace" \/ newPage.tab = gadgetPage.tab
    PROVE  /\ gadgetPage' = newPage /\ traceTable' \in Tables
           /\ traceTable' = traceTable \/ ~traceTable'.watching
           /\ traceTable.watching /\ traceTable'.watching => traceTable' = traceTable
           /\ EyeInv'
<1>1. gadgetPage' = newPage
  BY DEF Shows
<1>2. CASE traceTable' = traceTable /\ newPage.tab = gadgetPage.tab
           /\ isDeployed(newPage) = isDeployed(gadgetPage)
  BY <1>1, <1>2 DEF PageTypes, EyeInv
<1>3. CASE traceTable' = NewTable(newPage)
  <2>1. traceTable' \in Tables /\ ~traceTable'.watching
    BY <1>3 DEF NewTable, Tables, isDeployed
  <2> QED BY <1>1, <2>1 DEF EyeInv
<1> QED BY <1>2, <1>3 DEF Shows

\* The steps that leave the streams alone, and where the page stops showing one.
LEMMA Unfollowed ==
    ASSUME GadgetInv, UNCHANGED <<watches, currentStream>>,
           excused' \in SUBSET {"overtaken", "left"}, excused \subseteq excused',
           "overtaken" \in excused' => "overtaken" \in excused,
           \/ traceTable'.watching = traceTable.watching
                  /\ traceTable'.selected = traceTable.selected
           \/ traceTable.watching => "left" \in excused'
    PROVE  StreamInv' /\ FollowedInv'
BY DEF GadgetInv, StreamInv, StreamTypes, HeldInv, FollowedInv

LEMMA DeploymentSteps ==
    ASSUME GadgetInv,
           \/ FirstGadgetEffect
           \/ \E tab \in GadgetTabs : ChoosesTab(tab)
           \/ handleDeploy \/ handleUndeploy
           \/ \E job \in gadgetJobs : GadgetJobEnds(job)
    PROVE  GadgetInv'
<1> USE DEF GadgetInv
<1>0. /\ gadgetPage \in GadgetPages /\ traceTable \in Tables
      /\ excused \in SUBSET {"overtaken", "left"}
      /\ gadgetJobs \in SUBSET {"version", "deploy", "undeploy"}
  BY DEF PageTypes, StreamInv, StreamTypes
<1>1. CASE FirstGadgetEffect
  <2>1. gadgetPage' \in GadgetPages /\ gadgetPage'.started /\ gadgetPage'.status = "Initializing"
        /\ gadgetPage'.version = gadgetPage.version /\ gadgetPage'.tab = gadgetPage.tab
    BY <1>0, <1>1 DEF FirstGadgetEffect, GadgetPages
  <2>2. gadgetJobs' = {"version"} /\ gadgetPage.version = "unknown"
    BY <1>1 DEF FirstGadgetEffect, JobsInv
  <2>3. PageTypes' /\ JobsInv' /\ EyeInv'
    BY <1>0, <1>1, <2>1, <2>2 DEF FirstGadgetEffect, PageTypes, JobsInv, EyeInv, isDeployed
  <2>4. StreamInv' /\ FollowedInv'
    BY <1>0, <1>1, Unfollowed DEF FirstGadgetEffect
  <2> QED BY <2>3, <2>4
<1>2. ASSUME NEW tab \in GadgetTabs, ChoosesTab(tab) PROVE GadgetInv'
  <2> DEFINE newPage == [gadgetPage EXCEPT !.tab = tab]
  <2>1. /\ newPage \in GadgetPages /\ newPage.tab = tab /\ newPage.version = gadgetPage.version
        /\ newPage.status = gadgetPage.status /\ newPage.started = gadgetPage.started
    BY <1>0 DEF GadgetPages
  <2>2. /\ gadgetPage' = newPage /\ traceTable' = NewTable(newPage)
        /\ excused' = excused \cup LeavesStream /\ gadgetJobs' = gadgetJobs
        /\ UNCHANGED <<watches, currentStream>>
    BY <1>2, <2>1 DEF ChoosesTab, Shows
  <2> HIDE DEF newPage
  <2>3. traceTable' \in Tables /\ ~traceTable'.watching
    BY <2>2 DEF NewTable, Tables, isDeployed
  <2>4. PageTypes' /\ JobsInv' /\ EyeInv'
    BY <1>0, <2>1, <2>2, <2>3 DEF PageTypes, JobsInv, EyeInv
  <2>5. StreamInv' /\ FollowedInv'
    BY <1>0, <2>2, Unfollowed DEF LeavesStream
  <2> QED BY <2>4, <2>5
<1>3. CASE handleDeploy
  <2> DEFINE newPage == [gadgetPage EXCEPT !.status = "Deploying", !.version = "unknown"]
  <2>1. /\ newPage \in GadgetPages /\ newPage.tab = gadgetPage.tab /\ newPage.version = "unknown"
        /\ newPage.status = "Deploying" /\ newPage.tab = "overview"
    BY <1>0, <1>3 DEF GadgetPages, handleDeploy
  <2>2. /\ Shows(newPage) /\ gadgetJobs = {} /\ gadgetJobs' = {"deploy"}
        /\ UNCHANGED <<watches, currentStream, excused>>
    BY <1>3 DEF handleDeploy, JobsInv
  <2> HIDE DEF newPage
  <2>3. gadgetPage' = newPage /\ traceTable' \in Tables /\ EyeInv'
        /\ (traceTable' = traceTable \/ ~traceTable'.watching) /\ ~traceTable.watching
    BY <2>1, <2>2, Showing DEF EyeInv
  <2>4. PageTypes' /\ JobsInv'
    BY <2>1, <2>2, <2>3 DEF PageTypes, JobsInv
  <2>5. StreamInv' /\ FollowedInv'
    BY <1>0, <2>2, <2>3, Unfollowed
  <2> QED BY <2>3, <2>4, <2>5
<1>4. CASE handleUndeploy
  <2> DEFINE newPage == [gadgetPage EXCEPT !.status = "Undeploying", !.version = "unknown",
                                        !.tab = "overview"]
  <2>1. /\ newPage \in GadgetPages /\ newPage.tab = "overview" /\ newPage.version = "unknown"
        /\ newPage.status = "Undeploying"
    BY <1>0 DEF GadgetPages, GadgetTabs
  <2>2. /\ Shows(newPage) /\ gadgetJobs = {} /\ gadgetJobs' = {"undeploy"}
        /\ excused' = excused \cup LeavesStream
        /\ UNCHANGED <<watches, currentStream>>
    BY <1>4 DEF handleUndeploy, JobsInv, isDeployed
  <2> HIDE DEF newPage
  <2>3. gadgetPage' = newPage /\ traceTable' \in Tables /\ EyeInv'
    BY <2>1, <2>2, Showing
  <2>4. PageTypes' /\ JobsInv'
    BY <2>1, <2>2, <2>3 DEF PageTypes, JobsInv
  <2>5. ~traceTable.watching => traceTable' = traceTable \/ ~traceTable'.watching
    BY <2>1, <2>2, Showing
  <2>6. StreamInv' /\ FollowedInv'
    <3>1. CASE traceTable.watching
      BY <1>0, <2>2, <3>1, Unfollowed DEF LeavesStream
    <3>2. CASE ~traceTable.watching
      <4>1. traceTable.watching => "left" \in excused'
        BY <3>2
      <4> QED BY <1>0, <2>2, <3>2, <4>1, Unfollowed DEF LeavesStream
    <3> QED BY <3>1, <3>2
  <2> QED BY <2>3, <2>4, <2>6
<1>5. ASSUME NEW job \in gadgetJobs, GadgetJobEnds(job) PROVE GadgetInv'
  <2>1. /\ gadgetPage.version = "unknown" /\ ~traceTable.watching /\ gadgetJobs = {job}
        /\ gadgetJobs' = {} /\ UNCHANGED <<watches, currentStream, excused>>
    BY <1>5 DEF GadgetJobEnds, JobsInv, EyeInv, isDeployed
  <2>2. StreamInv' /\ FollowedInv'
    BY <1>0, <2>1, Unfollowed
  <2>3. CASE UNCHANGED <<gadgetPage, traceTable>> /\ job = "version"
    BY <1>0, <2>1, <2>2, <2>3 DEF PageTypes, JobsInv, EyeInv
  <2>4. ASSUME NEW newPage \in GadgetPages, Shows(newPage), newPage.status \in {"Known", "Failed"},
               newPage.tab # "trace" \/ newPage.tab = gadgetPage.tab
        PROVE  GadgetInv'
    <3>1. gadgetPage' = newPage /\ traceTable' \in Tables /\ EyeInv'
      BY <2>4, Showing
    <3>2. PageTypes' /\ JobsInv'
      BY <2>1, <2>4, <3>1 DEF PageTypes, JobsInv
    <3> QED BY <2>2, <3>1, <3>2
  <2>5. ASSUME NEW version \in {"absent", "valid", "odd"}, updateVersion(version)
        PROVE  GadgetInv'
    <3> DEFINE newPage == [gadgetPage EXCEPT !.status = "Known", !.version = version,
                             !.tab = IF version = "absent" THEN "overview" ELSE @]
    <3>1. newPage \in GadgetPages /\ newPage.status = "Known"
          /\ (newPage.tab = "overview" \/ newPage.tab = gadgetPage.tab)
      BY <1>0 DEF GadgetPages, GadgetTabs
    <3>2. Shows(newPage)
      BY <2>5 DEF updateVersion
    <3> HIDE DEF newPage
    <3> QED BY <2>4, <3>1, <3>2
  <2>6. CASE Shows([gadgetPage EXCEPT !.status = "Failed", !.version = "absent"])
    <3> DEFINE newPage == [gadgetPage EXCEPT !.status = "Failed", !.version = "absent"]
    <3>1. newPage \in GadgetPages /\ newPage.status = "Failed" /\ newPage.tab = gadgetPage.tab
      BY <1>0 DEF GadgetPages
    <3>2. Shows(newPage)
      BY <2>6
    <3> HIDE DEF newPage
    <3> QED BY <2>4, <3>1, <3>2
  <2> QED BY <1>5, <2>3, <2>5, <2>6 DEF GadgetJobEnds, GadgetJobFails
<1> QED BY <1>1, <1>2, <1>3, <1>4, <1>5

\* What a step that keeps the version, the tab and the requests keeps.
LEMMA PageKept ==
    ASSUME GadgetInv, gadgetPage' \in GadgetPages, traceTable' \in Tables,
           gadgetJobs' = gadgetJobs, gadgetPage'.version = gadgetPage.version,
           gadgetPage'.tab = gadgetPage.tab, gadgetPage'.status = gadgetPage.status,
           gadgetPage'.started = gadgetPage.started,
           traceTable'.watching => traceTable.watching \/ (TracesShown /\ isStreamingTrace)
    PROVE  PageTypes' /\ JobsInv' /\ EyeInv'
BY DEF GadgetInv, PageTypes, JobsInv, EyeInv, isDeployed, TracesShown, isStreamingTrace

\* A step that stops the stream, or asks for that of the trace it selects.
LEMMA StopsOrFollows ==
    ASSUME GadgetInv,
           \/ stopWatching
           \/ \E t \in Nat : watch(t) /\ traceTable'.selected = t /\ traceTable'.watching
    PROVE  StreamInv' /\ FollowedInv'
<1>1. CASE stopWatching
  BY <1>1, Stopping DEF GadgetInv, Silent, FollowedInv
<1>2. ASSUME NEW t \in Nat, watch(t), traceTable'.selected = t, traceTable'.watching
      PROVE  StreamInv' /\ FollowedInv'
  <2>1. StreamInv' /\ OnlyFor(t)'
    BY <1>2, Watching DEF GadgetInv
  <2> QED BY <1>2, <2>1 DEF OnlyFor, FollowedInv
<1> QED BY <1>1, <1>2

LEMMA TableSteps ==
    ASSUME GadgetInv,
           \/ handleAdd \/ handleNewTraceDialogCancel \/ handleNewTraceDialogAccept
           \/ \E id \in ListedIds : toggleCheckedTraceId(id) \/ handleRowClick(id)
           \/ toggleIsWatching \/ handleDelete
    PROVE  GadgetInv'
<1> USE DEF GadgetInv
<1>0. /\ gadgetPage \in GadgetPages /\ traceTable \in Tables
      /\ gadgetPage.next \in Nat /\ traceTable.selected \in Nat \cup {NoTrace}
      /\ excused \in SUBSET {"overtaken", "left"}
      /\ NoTrace \notin Nat
  BY GadgetAssumption DEF PageTypes, StreamInv, StreamTypes, GadgetPages, Tables
<1>i. \A id \in ListedIds : id \in Nat
  BY <1>0 DEF ListedIds, Listed, GadgetPages
<1>s. KeepsStreams => UNCHANGED <<watches, currentStream, excused>>
  BY DEF KeepsStreams
<1>1. CASE handleAdd
  <2>1. traceTable' \in Tables /\ traceTable'.watching = traceTable.watching
        /\ traceTable'.selected = traceTable.selected
    BY <1>0, <1>1 DEF handleAdd, Tables
  <2>2. StreamInv' /\ FollowedInv'
    BY <1>0, <1>1, <2>1, Unfollowed DEF handleAdd
  <2> QED BY <1>0, <1>1, <2>1, <2>2, PageKept DEF handleAdd
<1>2. CASE handleNewTraceDialogCancel
  <2>1. traceTable' \in Tables /\ traceTable'.watching = traceTable.watching
        /\ traceTable'.selected = traceTable.selected
    BY <1>0, <1>2 DEF handleNewTraceDialogCancel, Tables
  <2>2. /\ gadgetPage' \in GadgetPages /\ gadgetPage'.version = gadgetPage.version
        /\ gadgetPage'.tab = gadgetPage.tab /\ gadgetPage'.status = gadgetPage.status
        /\ gadgetPage'.started = gadgetPage.started
    BY <1>0, <1>2 DEF handleNewTraceDialogCancel, GadgetPages
  <2>3. StreamInv' /\ FollowedInv'
    BY <1>0, <1>2, <2>1, Unfollowed DEF handleNewTraceDialogCancel
  <2> QED BY <1>2, <2>1, <2>2, <2>3, PageKept DEF handleNewTraceDialogCancel
<1>3. CASE handleNewTraceDialogAccept
  <2> DEFINE id == gadgetPage.next
  <2>1. /\ traceTable' \in Tables /\ traceTable'.selected = id
        /\ traceTable'.watching = (isStreamingTrace \/ traceTable.watching)
    BY <1>0, <1>3 DEF handleNewTraceDialogAccept, Tables, isStreamingTrace
  <2>2. /\ gadgetPage' \in GadgetPages /\ gadgetPage'.version = gadgetPage.version
        /\ gadgetPage'.tab = gadgetPage.tab /\ gadgetPage'.status = gadgetPage.status
        /\ gadgetPage'.started = gadgetPage.started
    <3> DEFINE new == [id |-> id, tab |-> gadgetPage.tab, output |-> FALSE]
    <3>1. new \in [id : Nat, tab : TraceTabs, output : BOOLEAN]
      BY <1>0, <1>3 DEF handleNewTraceDialogAccept, TracesShown
    <3> DEFINE more == gadgetPage.traces \cup {new}
    <3>2. gadgetPage' = [gadgetPage EXCEPT !.next = id + 1, !.preset = "none", !.traces = more]
      BY <1>3 DEF handleNewTraceDialogAccept
    <3>3. more \in SUBSET [id : Nat, tab : TraceTabs, output : BOOLEAN]
      <4> HIDE DEF new
      <4> QED BY <1>0, <3>1 DEF GadgetPages
    <3>4. id + 1 \in Nat
      BY <1>0
    <3> HIDE DEF more, new, id
    <3> QED BY <1>0, <3>2, <3>3, <3>4 DEF GadgetPages
  <2>3. TracesShown /\ gadgetJobs' = gadgetJobs
    BY <1>3 DEF handleNewTraceDialogAccept
  <2>4. StreamInv' /\ FollowedInv'
    <3>1. CASE isStreamingTrace
      <4>1. watch(id) /\ id \in Nat /\ traceTable'.watching
        BY <1>0, <1>3, <2>1, <3>1 DEF handleNewTraceDialogAccept
      <4> QED BY <2>1, <4>1, StopsOrFollows
    <3>2. CASE ~isStreamingTrace
      <4>1. ~traceTable.watching /\ KeepsStreams
        BY <1>3, <3>2 DEF handleNewTraceDialogAccept, EyeInv, isStreamingTrace
      <4> QED BY <1>0, <1>s, <4>1, Unfollowed
    <3> QED BY <3>1, <3>2
  <2> QED BY <2>1, <2>2, <2>3, <2>4, PageKept
<1>4. ASSUME NEW id \in ListedIds, toggleCheckedTraceId(id) PROVE GadgetInv'
  <2>1. traceTable' \in Tables /\ traceTable'.watching = traceTable.watching
        /\ traceTable'.selected = traceTable.selected
    BY <1>0, <1>4, <1>i DEF toggleCheckedTraceId, Tables
  <2>2. StreamInv' /\ FollowedInv'
    BY <1>0, <1>4, <2>1, Unfollowed DEF toggleCheckedTraceId
  <2> QED BY <1>0, <1>4, <2>1, <2>2, PageKept DEF toggleCheckedTraceId
<1>5. CASE toggleIsWatching
  <2>1. traceTable' \in Tables /\ traceTable'.selected = traceTable.selected
        /\ traceTable'.watching = ~traceTable.watching
    BY <1>0, <1>5 DEF toggleIsWatching, Tables
  <2>2. StreamInv' /\ FollowedInv'
    <3>1. CASE traceTable.watching
      BY <1>5, <3>1, StopsOrFollows DEF toggleIsWatching
    <3>2. CASE ~traceTable.watching
      <4>1. traceTable.selected \in Nat
        BY <1>5, <1>i DEF toggleIsWatching
      <4> QED BY <1>5, <2>1, <3>2, <4>1, StopsOrFollows DEF toggleIsWatching
    <3> QED BY <3>1, <3>2
  <2> QED BY <1>0, <1>5, <2>1, <2>2, PageKept DEF toggleIsWatching
<1>6. CASE handleDelete
  <2> DEFINE deselects == traceTable.selected \in traceTable.checked
  <2>1. traceTable' \in Tables /\ traceTable'.watching = traceTable.watching
        /\ (~deselects => traceTable'.selected = traceTable.selected)
    BY <1>0, <1>6 DEF handleDelete, Tables
  <2>2. /\ gadgetPage' \in GadgetPages /\ gadgetPage'.version = gadgetPage.version
        /\ gadgetPage'.tab = gadgetPage.tab /\ gadgetPage'.status = gadgetPage.status
        /\ gadgetPage'.started = gadgetPage.started
    BY <1>0, <1>6 DEF handleDelete, GadgetPages
  <2>3. StreamInv' /\ FollowedInv'
    <3>1. CASE deselects /\ traceTable.watching
      <4>1. stopWatching
        BY <1>6, <3>1 DEF handleDelete, EyeInv, isStreamingTrace
      <4> QED BY <4>1, StopsOrFollows
    <3>2. CASE ~deselects
      <4>1. KeepsStreams
        BY <1>6, <3>2 DEF handleDelete
      <4> QED BY <1>0, <1>s, <2>1, <3>2, <4>1, Unfollowed
    <3>3. CASE ~traceTable.watching
      <4>1. KeepsStreams
        BY <1>6, <3>3 DEF handleDelete
      <4> QED BY <1>0, <1>s, <3>3, <4>1, Unfollowed
    <3> QED BY <3>1, <3>2, <3>3
  <2> QED BY <1>6, <2>1, <2>2, <2>3, PageKept DEF handleDelete
<1>7. ASSUME NEW id \in ListedIds, handleRowClick(id) PROVE GadgetInv'
  <2>1. traceTable' \in Tables /\ traceTable'.watching = traceTable.watching
        /\ (id # traceTable.selected => traceTable'.selected = id)
    BY <1>0, <1>7, <1>i DEF handleRowClick, Tables
  <2>2. StreamInv' /\ FollowedInv'
    <3>1. CASE ~traceTable.watching
      <4>1. KeepsStreams
        BY <1>7, <3>1 DEF handleRowClick
      <4> QED BY <1>0, <1>s, <3>1, <4>1, Unfollowed
    <3>2. CASE traceTable.watching
      <4>1. stopWatching \/ (watch(id) /\ id # traceTable.selected)
        BY <1>7, <3>2 DEF handleRowClick, EyeInv, isStreamingTrace
      <4> QED BY <1>i, <2>1, <3>2, <4>1, StopsOrFollows
    <3> QED BY <3>1, <3>2
  <2> QED BY <1>0, <1>7, <2>1, <2>2, PageKept DEF handleRowClick
<1> QED BY <1>1, <1>2, <1>3, <1>4, <1>5, <1>6, <1>7

LEMMA GadgetStep == GadgetInv /\ [GadgetNext]_gadgetVars => GadgetInv'
<1> SUFFICES ASSUME GadgetInv, [GadgetNext]_gadgetVars PROVE GadgetInv'
  OBVIOUS
<1>0. /\ gadgetPage \in GadgetPages /\ traceTable \in Tables
      /\ excused \in SUBSET {"overtaken", "left"}
  BY DEF GadgetInv, PageTypes, StreamInv, StreamTypes
\* output that arrives changes nothing but that
<1>1. ASSUME NEW id, runTraceResponse(id) \/ UNCHANGED gadgetPage,
             UNCHANGED <<traceTable, gadgetJobs, watches, currentStream, excused>>
      PROVE  GadgetInv'
  <2>1. /\ gadgetPage' \in GadgetPages /\ gadgetPage'.version = gadgetPage.version
        /\ gadgetPage'.tab = gadgetPage.tab /\ gadgetPage'.status = gadgetPage.status
        /\ gadgetPage'.started = gadgetPage.started
    <3> DEFINE Traces == [id : Nat, tab : TraceTabs, output : BOOLEAN]
               heard == {IF t.id = id THEN [t EXCEPT !.output = TRUE] ELSE t :
                             t \in gadgetPage.traces}
    <3>1. \A t \in Traces : [t EXCEPT !.output = TRUE] \in Traces
      OBVIOUS
    <3>2. gadgetPage.traces \in SUBSET Traces
      BY <1>0 DEF GadgetPages
    <3>3. heard \in SUBSET Traces
      BY <3>1, <3>2
    <3>4. runTraceResponse(id) => gadgetPage' = [gadgetPage EXCEPT !.traces = heard]
      BY DEF runTraceResponse
    <3> HIDE DEF heard
    <3> QED BY <1>0, <1>1, <3>3, <3>4 DEF GadgetPages
  <2>2. StreamInv' /\ FollowedInv'
    BY <1>0, <1>1, Unfollowed
  <2>3. PageTypes' /\ JobsInv' /\ EyeInv'
    BY <1>0, <1>1, <2>1, PageKept
  <2> QED BY <2>2, <2>3 DEF GadgetInv
<1>2. ASSUME NEW id \in traceRuns, BlockingTraceEnds(id) PROVE GadgetInv'
  BY <1>1, <1>2 DEF BlockingTraceEnds
<1>3. ASSUME NEW w \in DOMAIN watches, Line(w) PROVE GadgetInv'
  BY <1>1, <1>3 DEF Line
<1>4. CASE PanelIsClosed
  <2> DEFINE newPage == [gadgetPage EXCEPT !.status = "Closed", !.version = "unknown",
                                        !.traces = {}, !.tab = "overview"]
  <2>1. newPage \in GadgetPages /\ newPage.status = "Closed" /\ newPage.version = "unknown"
    BY <1>0 DEF GadgetPages, GadgetTabs
  <2>2. gadgetPage' = newPage /\ traceTable' = NewTable(newPage) /\ gadgetJobs' = {} /\ stopWatching
    BY <1>4 DEF PanelIsClosed
  <2> HIDE DEF newPage
  <2>3. traceTable' \in Tables /\ ~traceTable'.watching
    BY <2>2 DEF NewTable, Tables, isDeployed
  <2>4. PageTypes' /\ JobsInv' /\ EyeInv'
    BY <2>1, <2>2, <2>3 DEF PageTypes, JobsInv, EyeInv
  <2> QED BY <2>2, <2>4, StopsOrFollows DEF GadgetInv
<1>5. CASE UNCHANGED gadgetVars
  <2>1. StreamInv' /\ FollowedInv'
    BY <1>0, <1>5, Unfollowed DEF gadgetVars
  <2>2. PageTypes' /\ JobsInv' /\ EyeInv'
    BY <1>0, <1>5, PageKept DEF gadgetVars
  <2> QED BY <2>1, <2>2 DEF GadgetInv
<1> QED BY <1>2, <1>3, <1>4, <1>5, DeploymentSteps, TableSteps, WatcherStep
        DEF GadgetNext, GadgetUser, GadgetTabs

LEMMA GadgetStart == GadgetInit => GadgetInv
<1> SUFFICES ASSUME GadgetInit PROVE GadgetInv
  OBVIOUS
<1>1. PageTypes /\ JobsInv /\ EyeInv
  BY DEF GadgetInit, PageTypes, JobsInv, EyeInv, NewTable, isDeployed, GadgetPages, Tables,
         TraceTabs, GadgetTabs
<1>2. StreamInv /\ FollowedInv
  BY DEF GadgetInit, StreamInv, StreamTypes, HeldInv, FollowedInv
<1> QED BY <1>1, <1>2 DEF GadgetInv

\* For any number of traces and streams: without an overtaking request the watcher holds what
\* runs, and with the tab never left what runs is the selected trace's.
THEOREM StreamsHeld == GadgetSpec => []StreamsAreHeld
<1>1. GadgetInv => StreamsAreHeld
  BY DEF GadgetInv, StreamInv, HeldInv, FollowedInv, StreamsAreHeld
<1> QED BY <1>1, GadgetStart, GadgetStep, PTL DEF GadgetSpec

\* A page that says it deploys or undeploys has the one request for it at work.
THEOREM DeploymentsBacked == GadgetSpec => []DeploymentIsBacked
<1>1. GadgetInv => DeploymentIsBacked
  BY DEF GadgetInv, JobsInv, DeploymentIsBacked
<1> QED BY <1>1, GadgetStart, GadgetStep, PTL DEF GadgetSpec

-----------------------------------------------------------------------------
(* The properties of a cluster: what a handler does to the page, and what  *)
(* of the cluster a last reading finds.                                    *)

Changing == {"stop", "start", "upgrade"}
ClusterOps == Changing \cup {"reconcile", "abort"}
Asked == ClusterOps \cup {"refresh", "abortPool"}
SomeVersion == KubernetesVersions \cup {NoVersion}
Provs == {"Succeeded", "Canceled", "Failed", "Stopping", "Starting", "Upgrading", "Updating",
          "Canceling"}
Powers == {"Running", "Stopped"}
PoolStates == {"Succeeded", "Scaling", "Canceling", "Canceled", "Failed"}
Infos == [prov : Provs, power : Powers, version : SomeVersion, pool : PoolStates]
Clusters == [prov : Provs, power : Powers, version : SomeVersion, pool : PoolStates,
             op : JobSlots \cup {"none"}]
Views == [info : {"notLoaded", "loading", "loaded"}, shown : Infos, requested : BOOLEAN,
          dialog : SomeVersion, told : BOOLEAN, unread : BOOLEAN]
Jobs == [op : Asked \cup {"none"}, pc : {"idle", "begin", "read", "post", "poll"},
         again : BOOLEAN, version : SomeVersion,
         lro : {"none", "running", "succeeded", "failed", "canceled"}, read : SUBSET Infos]

PropertiesTypes ==
    /\ cluster \in Clusters /\ view \in Views /\ jobs \in [JobSlots -> Jobs]
    /\ asks \in [count : Nat, alone : Asked \cup {"none"}]

\* An operation that runs has a handler that has still to wait for it.
SlotsInv == \A j \in JobSlots :
    /\ jobs[j].lro = "running" => jobs[j].pc \in {"read", "post", "poll"} /\ ~jobs[j].again
    /\ jobs[j].pc = "begin" => jobs[j].lro = "none" /\ ~jobs[j].again
    /\ cluster.op = j => jobs[j].lro = "running" /\ jobs[j].op \in ClusterOps

WillAnswer(j) == jobs[j].pc \in {"begin", "read", "post"}
                 \/ (jobs[j].pc = "poll" /\ jobs[j].op \in Changing)

WaitInv == view.info = "loading" \/ view.requested =>
               view.unread \/ \E j \in JobSlots : WillAnswer(j)

Agrees(info) == /\ info.prov = cluster.prov /\ info.power = cluster.power
                /\ info.version = cluster.version

\* What was asked for alone is the one thing at work, and what it reads last is what it has made.
OutcomeInv == asks.alone \in Changing =>
    /\ \A j \in JobSlots : Active(j) => jobs[j].op = asks.alone
    /\ \A j, k \in JobSlots : Active(j) /\ Active(k) => j = k
    /\ ~view.told => \A j \in JobSlots :
           jobs[j].pc = "post" /\ jobs[j].again => \A info \in jobs[j].read : Agrees(info)
    /\ ~view.told /\ (\A j \in JobSlots : ~Active(j)) =>
           view.info = "loaded" /\ ~view.requested /\ Agrees(view.shown)

PropertiesInv == PropertiesTypes /\ SlotsInv /\ WaitInv /\ OutcomeInv

LEMMA NoJobType == NoJob \in Jobs /\ NoJob.pc = "idle" /\ NoJob.lro = "none" /\ ~NoJob.again
BY DEF NoJob, Jobs, SomeVersion


LEMMA JobFields ==
    ASSUME NEW job \in Jobs
    PROVE  /\ job.op \in Asked \cup {"none"} /\ job.version \in SomeVersion
           /\ job.again \in BOOLEAN /\ job.read \in SUBSET Infos
           /\ job.pc \in {"idle", "begin", "read", "post", "poll"}
           /\ job.lro \in {"none", "running", "succeeded", "failed", "canceled"}
BY DEF Jobs

\* The jobs after those steps that change one of them.
LEMMA OneJob ==
    ASSUME PropertiesTypes, NEW j \in JobSlots, NEW job \in Jobs,
           jobs' = [jobs EXCEPT ![j] = job]
    PROVE  /\ jobs' \in [JobSlots -> Jobs] /\ jobs'[j] = job
           /\ \A k \in JobSlots : k # j => jobs'[k] = jobs[k]
BY DEF PropertiesTypes

\* A handler that answers, or tells of an error, and goes on to its last reading or is done.
Answers(j, job) ==
    /\ Goes(j, job) /\ UNCHANGED <<cluster, asks>>
    /\ view' \in Views /\ view'.info = view.info /\ view'.shown = view.shown
    /\ view'.requested => view.requested
    /\ view.told => view'.told
    /\ view.unread => view'.unread

LEMMA AnswerSteps ==
    ASSUME PropertiesInv, NEW j \in JobSlots, jobs[j].pc \in {"begin", "poll"},
           jobs[j].lro # "running",
           NEW job \in {NoJob, ReadsAgain(j)}, Answers(j, job),
           jobs[j].pc = "begin" => view'.told,
           job = NoJob => (jobs[j].pc = "begin" /\ view'.unread) \/ jobs[j].op \notin Changing,
           job = NoJob /\ jobs[j].pc = "begin" => view'.unread
    PROVE  PropertiesInv'
<1> USE DEF PropertiesInv
<1>0. jobs[j] \in Jobs
  BY DEF PropertiesTypes
<1>1. /\ ReadsAgain(j) \in Jobs /\ ReadsAgain(j).pc = "read" /\ ReadsAgain(j).again
      /\ ReadsAgain(j).op = jobs[j].op /\ ReadsAgain(j).lro = jobs[j].lro
  BY <1>0 DEF ReadsAgain, Jobs
<1>2. /\ job \in Jobs /\ job.pc \in {"idle", "read"} /\ job.lro # "running"
      /\ job.pc = "read" => job.again /\ job.op = jobs[j].op
      /\ job.pc = "idle" => job = NoJob
  BY <1>1, NoJobType
<1>3. /\ jobs' \in [JobSlots -> Jobs] /\ jobs'[j] = job
      /\ \A k \in JobSlots : k # j => jobs'[k] = jobs[k]
  BY <1>2, OneJob DEF Answers, Goes
<1>4. PropertiesTypes'
  BY <1>3 DEF Answers, PropertiesTypes
<1>5. SlotsInv'
  BY <1>2, <1>3 DEF Answers, SlotsInv
<1>6. WaitInv'
  <2> SUFFICES ASSUME view'.info = "loading" \/ view'.requested, ~view'.unread
               PROVE  \E k \in JobSlots : WillAnswer(k)'
    BY DEF WaitInv
  <2>1. PICK k \in JobSlots : WillAnswer(k)
    BY DEF WaitInv, Answers
  <2>2. CASE k # j
    BY <1>3, <2>1, <2>2 DEF WillAnswer
  <2>3. CASE k = j
    <3>1. jobs[j].pc = "begin" \/ jobs[j].op \in Changing
      BY <2>1, <2>3 DEF WillAnswer
    <3>2. job.pc = "read"
      BY <1>2, <3>1
    <3> QED BY <1>3, <3>2 DEF WillAnswer
  <2> QED BY <2>2, <2>3
<1>7. OutcomeInv'
  <2> SUFFICES ASSUME asks.alone \in Changing
               PROVE  /\ \A k \in JobSlots : Active(k)' => jobs'[k].op = asks.alone
                      /\ \A k, l \in JobSlots : Active(k)' /\ Active(l)' => k = l
                      /\ ~view'.told => \A k \in JobSlots :
                             jobs'[k].pc = "post" /\ jobs'[k].again =>
                                 \A info \in jobs'[k].read : Agrees(info)
                      /\ ~view'.told /\ (\A k \in JobSlots : ~Active(k)') =>
                             view'.info = "loaded" /\ ~view'.requested /\ Agrees(view'.shown)
    BY DEF OutcomeInv, Answers, Agrees
  <2>1. Active(j) /\ jobs[j].op = asks.alone
    BY DEF Active, OutcomeInv
  <2>2. \A k \in JobSlots : Active(k)' => Active(k)
    BY <1>3, <2>1 DEF Active
  <2>3. \A k \in JobSlots : Active(k)' => k = j /\ jobs'[k].op = asks.alone /\ jobs'[k].pc = "read"
    BY <1>2, <1>3, <2>1, <2>2 DEF OutcomeInv, Active
  <2>4. view'.told \/ Active(j)'
    BY <1>2, <1>3, <2>1 DEF Active
  <2>5. \A k \in JobSlots : jobs'[k].pc = "post" => Active(k)'
    BY DEF Active
  <2> QED BY <2>3, <2>4, <2>5
<1> QED BY <1>4, <1>5, <1>6, <1>7

LEMMA ViewAnswers ==
    ASSUME view \in Views
    PROVE  /\ GivenUp \in Views /\ GivenUp.told /\ GivenUp.unread
           /\ GivenUp.info = view.info /\ GivenUp.shown = view.shown
           /\ GivenUp.requested = view.requested
           /\ errorNotification(view) \in Views /\ errorNotification(view).told
           /\ errorNotification(view).unread = view.unread
           /\ errorNotification(view).info = view.info
           /\ errorNotification(view).shown = view.shown
           /\ errorNotification(view).requested = view.requested
           /\ \A v \in Views : /\ upgradeClusterVersionResponse(v) \in Views
                              /\ upgradeClusterVersionResponse(v).told = v.told
                              /\ upgradeClusterVersionResponse(v).unread = v.unread
                              /\ upgradeClusterVersionResponse(v).info = v.info
                              /\ upgradeClusterVersionResponse(v).shown = v.shown
                              /\ ~upgradeClusterVersionResponse(v).requested
BY DEF GivenUp, errorNotification, upgradeClusterVersionResponse, Views

\* A reading of the properties.
LEMMA ReadingSteps ==
    ASSUME PropertiesInv, NEW j \in JobSlots, readAndPostClusterProperties(j)
    PROVE  PropertiesInv'
<1> USE DEF PropertiesInv
<1>0. /\ jobs[j] \in Jobs /\ view \in Views /\ cluster \in Clusters
      /\ jobs[j].pc \in {"read", "post"} /\ UNCHANGED <<cluster, asks>>
  BY DEF PropertiesTypes, readAndPostClusterProperties
<1>a. /\ AfterReading(j) \in Jobs
      /\ jobs[j].again => AfterReading(j) = NoJob
      /\ ~jobs[j].again => /\ AfterReading(j).pc = "poll" /\ AfterReading(j).op = jobs[j].op
                           /\ AfterReading(j).lro = jobs[j].lro /\ ~AfterReading(j).again
  BY <1>0, NoJobType DEF AfterReading, Jobs
<1>1. CASE /\ jobs[j].pc = "read"
           /\ Goes(j, [jobs[j] EXCEPT !.pc = "post", !.read = {asClusterInfo(cluster)}])
           /\ UNCHANGED view
  <2> DEFINE job == [jobs[j] EXCEPT !.pc = "post", !.read = {asClusterInfo(cluster)}]
  <2>1. /\ job \in Jobs /\ job.pc = "post" /\ job.op = jobs[j].op /\ job.lro = jobs[j].lro
        /\ job.again = jobs[j].again /\ \A info \in job.read : Agrees(info)
    <3>1. asClusterInfo(cluster) \in Infos /\ Agrees(asClusterInfo(cluster))
      BY <1>0 DEF asClusterInfo, Clusters, Infos, Agrees
    <3> QED BY <1>0, <3>1 DEF Jobs
  <2>2. Goes(j, job)
    BY <1>1
  <2> HIDE DEF job
  <2>3. /\ jobs' \in [JobSlots -> Jobs] /\ jobs'[j] = job
        /\ \A k \in JobSlots : k # j => jobs'[k] = jobs[k]
    BY <2>1, <2>2, OneJob DEF Goes
  <2>4. PropertiesTypes'
    BY <1>0, <1>1, <2>3 DEF PropertiesTypes
  <2>5. SlotsInv'
    BY <1>0, <1>1, <2>1, <2>3 DEF SlotsInv
  <2>6. WaitInv'
    BY <1>1, <2>1, <2>3 DEF WaitInv, WillAnswer
  <2>7. OutcomeInv'
    <3>1. \A k \in JobSlots : /\ Active(k)' <=> Active(k)
                              /\ jobs'[k].op = jobs[k].op
      BY <1>1, <2>1, <2>3 DEF Active
    <3>2. Active(j)
      BY <1>0 DEF Active
    <3>3. asks.alone \in Changing /\ ~view.told => \A k \in JobSlots :
              jobs'[k].pc = "post" /\ jobs'[k].again => \A info \in jobs'[k].read : Agrees(info)
      BY <1>1, <2>1, <2>3 DEF OutcomeInv
    <3> QED BY <1>0, <1>1, <3>1, <3>2, <3>3 DEF OutcomeInv, Agrees
  <2> QED BY <2>4, <2>5, <2>6, <2>7
\* the two ways in which a reading ends
<1>2. ASSUME Goes(j, AfterReading(j)), view' \in Views,
             \/ view'.told /\ view'.unread
             \/ /\ view'.info = "loaded" /\ ~view'.requested
                /\ view'.told = view.told
                /\ jobs[j].pc = "post" /\ view'.shown \in jobs[j].read
      PROVE  PropertiesInv'
  <2>1. /\ jobs' \in [JobSlots -> Jobs] /\ jobs'[j] = AfterReading(j)
        /\ \A k \in JobSlots : k # j => jobs'[k] = jobs[k]
    BY <1>2, <1>a, OneJob DEF Goes
  <2>2. PropertiesTypes'
    BY <1>0, <1>2, <2>1 DEF PropertiesTypes
  <2>3. SlotsInv'
    BY <1>0, <1>a, <2>1, NoJobType DEF SlotsInv
  <2>4. WaitInv'
    BY <1>2 DEF WaitInv
  <2>5. OutcomeInv'
    <3> SUFFICES ASSUME asks.alone \in Changing
                 PROVE  /\ \A k \in JobSlots : Active(k)' => jobs'[k].op = asks.alone
                        /\ \A k, l \in JobSlots : Active(k)' /\ Active(l)' => k = l
                        /\ ~view'.told => \A k \in JobSlots :
                               jobs'[k].pc = "post" /\ jobs'[k].again =>
                                   \A info \in jobs'[k].read : Agrees(info)
                        /\ ~view'.told /\ (\A k \in JobSlots : ~Active(k)') =>
                               view'.info = "loaded" /\ ~view'.requested /\ Agrees(view'.shown)
      BY <1>0 DEF OutcomeInv, Agrees
    <3>1. Active(j)
      BY <1>0 DEF Active
    <3>2. \A k \in JobSlots : Active(k)' => Active(k)
      BY <2>1, <3>1 DEF Active
    <3>3. \A k \in JobSlots : Active(k)' =>
              k = j /\ ~jobs[j].again /\ jobs'[k].op = jobs[k].op /\ jobs'[k].pc = "poll"
      BY <1>a, <2>1, <3>1, <3>2, NoJobType DEF OutcomeInv, Active
    <3>4. \A k \in JobSlots : jobs'[k].pc = "post" => Active(k)'
      BY DEF Active
    <3>5. \A k \in JobSlots : ~Active(k)' => jobs'[k].pc = "idle"
      BY DEF Active
    <3>6. ~view'.told /\ ~Active(j)' =>
              view'.info = "loaded" /\ ~view'.requested /\ Agrees(view'.shown)
      <4> SUFFICES ASSUME ~view'.told, ~Active(j)' PROVE view'.info = "loaded" /\ ~view'.requested
                                                        /\ Agrees(view'.shown)
        OBVIOUS
      <4>1. jobs[j].again
        BY <1>a, <2>1, <3>5
      <4> QED BY <1>2, <4>1 DEF OutcomeInv
    <3> QED BY <3>1, <3>2, <3>3, <3>4, <3>6 DEF OutcomeInv
  <2> QED BY <2>2, <2>3, <2>4, <2>5
<1>3. ASSUME jobs[j].pc = "post", NEW info \in jobs[j].read,
             view' = getPropertiesResponse(view, info), Goes(j, AfterReading(j))
      PROVE  PropertiesInv'
  <2>1. info \in Infos
    BY <1>0, <1>3, JobFields
  <2>2. /\ view' \in Views /\ view'.info = "loaded" /\ ~view'.requested
        /\ view'.told = view.told /\ view'.shown = info
    BY <1>0, <1>3, <2>1 DEF getPropertiesResponse, Views
  <2> QED BY <1>2, <1>3, <2>2
<1>4. CASE view' = GivenUp /\ Goes(j, AfterReading(j))
  <2>1. view' \in Views /\ view'.told /\ view'.unread
    BY <1>0, <1>4, ViewAnswers
  <2> QED BY <1>2, <1>4, <2>1
<1> QED BY <1>1, <1>3, <1>4 DEF readAndPostClusterProperties

\* What a step does to the cluster while the handler of an operation that is under way waits.
LEMMA ClusterSteps ==
    ASSUME PropertiesInv, UNCHANGED <<view, asks>>, cluster' \in Clusters,
           jobs' \in [JobSlots -> Jobs],
           \A k \in JobSlots : /\ Active(k)' <=> Active(k)
                               /\ jobs'[k].op = jobs[k].op /\ jobs'[k].again = jobs[k].again
                               /\ jobs'[k].read = jobs[k].read
                               /\ WillAnswer(k) => WillAnswer(k)'
                               /\ jobs'[k].pc = "post" => jobs[k].pc = "post",
           SlotsInv',
           \/ /\ cluster'.prov = cluster.prov /\ cluster'.power = cluster.power
              /\ cluster'.version = cluster.version
           \/ \E k \in JobSlots : Active(k) /\ ~jobs[k].again
    PROVE  PropertiesInv'
<1> USE DEF PropertiesInv
<1>1. PropertiesTypes'
  BY DEF PropertiesTypes
<1>2. WaitInv'
  BY DEF WaitInv
<1>3. OutcomeInv'
  <2> SUFFICES ASSUME asks.alone \in Changing
               PROVE  /\ \A k \in JobSlots : Active(k)' => jobs'[k].op = asks.alone
                      /\ \A k, l \in JobSlots : Active(k)' /\ Active(l)' => k = l
                      /\ ~view.told => \A k \in JobSlots :
                             jobs'[k].pc = "post" /\ jobs'[k].again =>
                                 \A info \in jobs'[k].read : Agrees(info)'
                      /\ ~view.told /\ (\A k \in JobSlots : ~Active(k)') =>
                             view.info = "loaded" /\ ~view.requested /\ Agrees(view.shown)'
    BY DEF OutcomeInv, Agrees
  <2>1. CASE /\ cluster'.prov = cluster.prov /\ cluster'.power = cluster.power
             /\ cluster'.version = cluster.version
    <3>1. \A info : Agrees(info)' <=> Agrees(info)
      BY <2>1 DEF Agrees
    <3>2. Agrees(view.shown)' <=> Agrees(view.shown)
      BY <2>1 DEF Agrees
    <3> QED BY <2>1, <3>2 DEF OutcomeInv, Agrees
  <2>2. ASSUME NEW k \in JobSlots, Active(k), ~jobs[k].again
        PROVE  /\ \A l \in JobSlots : ~(jobs'[l].pc = "post" /\ jobs'[l].again)
               /\ Active(k)'
    <3>1. \A l \in JobSlots : jobs'[l].pc = "post" => Active(l)
      BY DEF Active
    <3> QED BY <2>2, <3>1 DEF OutcomeInv
  <2> QED BY <2>1, <2>2 DEF OutcomeInv
<1> QED BY <1>1, <1>2, <1>3

\* Azure takes an operation.
LEMMA BeginSteps ==
    ASSUME PropertiesInv, NEW j \in JobSlots, jobs[j].pc = "begin",
           \/ \E prov \in Provs : jobs[j].op \in ClusterOps /\ Begins(j, Free, Carries(j, prov))
           \/ /\ jobs[j].op = "abortPool"
              /\ Begins(j, cluster.pool = "Scaling", [cluster EXCEPT !.pool = "Canceling"])
           \/ /\ jobs[j].op = "abort" /\ cluster.op \in JobSlots
              /\ cluster' = Carries(j, "Canceling")
              /\ jobs' = [jobs EXCEPT ![cluster.op].lro = "canceled",
                                      ![j].pc = "read", ![j].lro = "running"]
              /\ UNCHANGED <<view, asks>>
    PROVE  PropertiesInv'
<1> USE DEF PropertiesInv
<1>0. /\ jobs[j] \in Jobs /\ cluster \in Clusters /\ jobs[j].lro = "none" /\ ~jobs[j].again
      /\ cluster.op # j /\ Active(j) /\ UNCHANGED <<view, asks>>
      /\ jobs \in [JobSlots -> Jobs]
  BY DEF PropertiesTypes, SlotsInv, Active, Begins
<1>1. ASSUME cluster' \in Clusters,
             jobs' = [jobs EXCEPT ![j] = [jobs[j] EXCEPT !.pc = "read", !.lro = "running"]],
             \/ cluster'.op = j /\ cluster.op = "none" /\ jobs[j].op \in ClusterOps
             \/ /\ cluster'.op = cluster.op
                /\ cluster'.prov = cluster.prov /\ cluster'.power = cluster.power
                /\ cluster'.version = cluster.version
      PROVE  PropertiesInv'
  <2> DEFINE job == [jobs[j] EXCEPT !.pc = "read", !.lro = "running"]
  <2>1. /\ job \in Jobs /\ job.pc = "read" /\ job.lro = "running" /\ job.op = jobs[j].op
        /\ job.again = jobs[j].again /\ job.read = jobs[j].read
    BY <1>0 DEF Jobs
  <2>2. jobs' = [jobs EXCEPT ![j] = job]
    BY <1>1
  <2> HIDE DEF job
  <2>3. /\ jobs' \in [JobSlots -> Jobs] /\ jobs'[j] = job
        /\ \A k \in JobSlots : k # j => jobs'[k] = jobs[k]
    BY <2>1, <2>2, OneJob
  <2>4. SlotsInv'
    BY <1>0, <1>1, <2>1, <2>3 DEF SlotsInv
  <2>5. \A k \in JobSlots : /\ Active(k)' <=> Active(k)
                            /\ jobs'[k].op = jobs[k].op /\ jobs'[k].again = jobs[k].again
                            /\ jobs'[k].read = jobs[k].read
                            /\ WillAnswer(k) => WillAnswer(k)'
                            /\ jobs'[k].pc = "post" => jobs[k].pc = "post"
    BY <1>0, <2>1, <2>3 DEF Active, WillAnswer
  <2> QED BY <1>0, <1>1, <2>3, <2>4, <2>5, ClusterSteps
<1>2. ASSUME NEW prov \in Provs, jobs[j].op \in ClusterOps, Begins(j, Free, Carries(j, prov))
      PROVE  PropertiesInv'
  <2>1. cluster' \in Clusters /\ cluster'.op = j /\ cluster.op = "none"
    BY <1>0, <1>2 DEF Begins, Carries, Free, Clusters
  <2> QED BY <1>1, <1>2, <2>1 DEF Begins, Goes
<1>3. CASE Begins(j, cluster.pool = "Scaling", [cluster EXCEPT !.pool = "Canceling"])
  <2>1. /\ cluster' \in Clusters /\ cluster'.op = cluster.op
        /\ cluster'.prov = cluster.prov /\ cluster'.power = cluster.power
        /\ cluster'.version = cluster.version
    BY <1>0, <1>3 DEF Begins, Clusters, PoolStates
  <2> QED BY <1>1, <1>3, <2>1 DEF Begins, Goes
<1>4. CASE /\ jobs[j].op = "abort" /\ cluster.op \in JobSlots
           /\ cluster' = Carries(j, "Canceling")
           /\ jobs' = [jobs EXCEPT ![cluster.op].lro = "canceled",
                                   ![j].pc = "read", ![j].lro = "running"]
           /\ UNCHANGED <<view, asks>>
  <2> DEFINE o == cluster.op
  <2>1. /\ o \in JobSlots /\ o # j /\ jobs[o] \in Jobs /\ jobs[o].lro = "running"
    BY <1>0, <1>4 DEF SlotsInv
  <2>2. cluster' \in Clusters /\ cluster'.op = j
    BY <1>0, <1>4 DEF Carries, Clusters, Provs
  <2>3. /\ [jobs[o] EXCEPT !.lro = "canceled"] \in Jobs
        /\ [jobs[j] EXCEPT !.pc = "read", !.lro = "running"] \in Jobs
    BY <1>0, <2>1 DEF Jobs
  <2>4. jobs' = [k \in JobSlots |-> IF k = o THEN [jobs[o] EXCEPT !.lro = "canceled"]
                                    ELSE IF k = j
                                    THEN [jobs[j] EXCEPT !.pc = "read", !.lro = "running"]
                                    ELSE jobs[k]]
    BY <1>0, <1>4, <2>1, <2>3
  <2> HIDE DEF o
  <2>5. jobs' \in [JobSlots -> Jobs]
    BY <1>0, <2>3, <2>4
  <2>6. /\ jobs'[j].pc = "read" /\ jobs'[j].lro = "running" /\ jobs'[j].op = jobs[j].op
        /\ jobs'[j].again = jobs[j].again /\ jobs'[j].read = jobs[j].read
        /\ jobs'[o].lro = "canceled" /\ jobs'[o].pc = jobs[o].pc /\ jobs'[o].op = jobs[o].op
        /\ jobs'[o].again = jobs[o].again /\ jobs'[o].read = jobs[o].read
        /\ \A k \in JobSlots : k # o /\ k # j => jobs'[k] = jobs[k]
    BY <1>0, <2>1, <2>4 DEF Jobs
  <2>7. SlotsInv'
    <3>1. \A k \in JobSlots : jobs'[k].lro = "running" =>
              jobs'[k].pc \in {"read", "post", "poll"} /\ ~jobs'[k].again
      BY <1>0, <2>6 DEF SlotsInv
    <3>2. \A k \in JobSlots : jobs'[k].pc = "begin" => jobs'[k].lro = "none" /\ ~jobs'[k].again
      BY <2>1, <2>6 DEF SlotsInv
    <3>3. \A k \in JobSlots : cluster'.op = k =>
              jobs'[k].lro = "running" /\ jobs'[k].op \in ClusterOps
      BY <1>4, <2>2, <2>6 DEF ClusterOps
    <3> QED BY <3>1, <3>2, <3>3 DEF SlotsInv
  <2>8. \A k \in JobSlots : /\ Active(k)' <=> Active(k)
                            /\ jobs'[k].op = jobs[k].op /\ jobs'[k].again = jobs[k].again
                            /\ jobs'[k].read = jobs[k].read
                            /\ WillAnswer(k) => WillAnswer(k)'
                            /\ jobs'[k].pc = "post" => jobs[k].pc = "post"
    BY <1>0, <2>6 DEF Active, WillAnswer
  <2> QED BY <1>0, <2>2, <2>5, <2>7, <2>8, ClusterSteps
<1> QED BY <1>2, <1>3, <1>4

LEMMA AzureSteps == ASSUME PropertiesInv, AzureStep PROVE PropertiesInv'
<1> USE DEF PropertiesInv
<1>0. cluster \in Clusters /\ jobs \in [JobSlots -> Jobs]
  BY DEF PropertiesTypes
<1>1. ASSUME NEW j \in JobSlots, NEW outcome \in {"succeeded", "failed"}, jobs[j].lro = "running",
             jobs' = [jobs EXCEPT ![j].lro = outcome], UNCHANGED <<view, asks>>,
             cluster' \in Clusters,
             \/ cluster'.op = "none"
             \/ /\ cluster'.op = cluster.op /\ cluster.op # j
                /\ cluster'.prov = cluster.prov /\ cluster'.power = cluster.power
                /\ cluster'.version = cluster.version
      PROVE  PropertiesInv'
  <2> DEFINE job == [jobs[j] EXCEPT !.lro = outcome]
  <2>0. jobs[j] \in Jobs /\ ~jobs[j].again /\ Active(j) /\ jobs[j].pc # "begin"
    BY <1>0, <1>1 DEF SlotsInv, Active
  <2>1. /\ job \in Jobs /\ job.pc = jobs[j].pc /\ job.lro = outcome /\ job.op = jobs[j].op
        /\ job.again = jobs[j].again /\ job.read = jobs[j].read
    BY <2>0 DEF Jobs
  <2>2. jobs' = [jobs EXCEPT ![j] = job]
    BY <1>1
  <2> HIDE DEF job
  <2>3. /\ jobs' \in [JobSlots -> Jobs] /\ jobs'[j] = job
        /\ \A k \in JobSlots : k # j => jobs'[k] = jobs[k]
    BY <2>1, <2>2, OneJob
  <2>4. SlotsInv'
    BY <1>1, <2>0, <2>1, <2>3, SlotsAssumption DEF SlotsInv
  <2>5. \A k \in JobSlots : /\ Active(k)' <=> Active(k)
                            /\ jobs'[k].op = jobs[k].op /\ jobs'[k].again = jobs[k].again
                            /\ jobs'[k].read = jobs[k].read
                            /\ WillAnswer(k) => WillAnswer(k)'
                            /\ jobs'[k].pc = "post" => jobs[k].pc = "post"
    BY <2>1, <2>3 DEF Active, WillAnswer
  <2> QED BY <1>1, <2>0, <2>3, <2>4, <2>5, ClusterSteps
<1>2. ASSUME NEW j \in JobSlots, NEW outcome \in {"succeeded", "failed"}, OperationEnds(j, outcome)
      PROVE  PropertiesInv'
  <2>1. jobs[j].lro = "running" /\ jobs[j].op \in ClusterOps /\ jobs[j].version \in SomeVersion
    BY <1>0, <1>2, JobFields DEF OperationEnds, SlotsInv
  <2> DEFINE c == IF outcome = "succeeded" THEN Done(cluster, jobs[j])
                  ELSE [cluster EXCEPT !.prov = "Failed"]
  <2>2. c \in Clusters
    <3>1. [cluster EXCEPT !.prov = "Failed"] \in Clusters
      BY <1>0 DEF Clusters, Provs
    <3>2. Done(cluster, jobs[j]) \in Clusters
      BY <1>0, <2>1 DEF Done, Clusters, Provs, Powers, ClusterOps, Changing
    <3> QED BY <3>1, <3>2
  <2>3. cluster' = [c EXCEPT !.op = "none"]
    BY <1>2 DEF OperationEnds
  <2> HIDE DEF c
  <2>4. cluster' \in Clusters /\ cluster'.op = "none"
    BY <2>2, <2>3 DEF Clusters
  <2> QED BY <1>1, <1>2, <2>1, <2>4 DEF OperationEnds
<1>3. ASSUME NEW j \in JobSlots, NEW outcome \in {"succeeded", "failed"}, PoolAborted(j, outcome)
      PROVE  PropertiesInv'
  <2>1. /\ cluster' \in Clusters /\ cluster'.op = cluster.op
        /\ cluster'.prov = cluster.prov /\ cluster'.power = cluster.power
        /\ cluster'.version = cluster.version
    BY <1>0, <1>3 DEF PoolAborted, Clusters, PoolStates
  <2>2. cluster.op # j
    BY <1>3 DEF PoolAborted, SlotsInv, ClusterOps, Changing
  <2> QED BY <1>1, <1>3, <2>1, <2>2 DEF PoolAborted
<1>4. CASE PortalScales
  <2>1. /\ cluster' \in Clusters /\ cluster'.op = cluster.op
        /\ cluster'.prov = cluster.prov /\ cluster'.power = cluster.power
        /\ cluster'.version = cluster.version
    BY <1>0, <1>4 DEF PortalScales, Clusters, PoolStates
  <2>2. UNCHANGED <<view, jobs, asks>>
    BY <1>4 DEF PortalScales
  <2>3. /\ SlotsInv'
        /\ \A k \in JobSlots : (Active(k)' <=> Active(k)) /\ (WillAnswer(k)' <=> WillAnswer(k))
    BY <2>1, <2>2 DEF SlotsInv, Active, WillAnswer
  <2> QED BY <1>0, <2>1, <2>2, <2>3, ClusterSteps
<1> QED BY <1>2, <1>3, <1>4 DEF AzureStep

\* A message that the page posts.
LEMMA PostingStep ==
    ASSUME PropertiesInv, NEW op \in Asked, NEW version \in SomeVersion, NEW newPage \in Views,
           Posts(op, version, newPage)
    PROVE  PropertiesInv'
<1> USE DEF PropertiesInv
<1>1. PICK j \in JobSlots :
          /\ ~Active(j)
          /\ jobs' = [jobs EXCEPT ![j] = [NoJob EXCEPT !.op = op, !.version = version,
                                              !.again = (op = "refresh"),
                                              !.pc = IF op = "refresh" THEN "read" ELSE "begin"]]
          /\ view' = [newPage EXCEPT !.told = FALSE, !.unread = FALSE]
          /\ asks' = [count |-> asks.count + 1,
                      alone |-> IF \A k \in JobSlots : ~Active(k) THEN op ELSE "none"]
          /\ UNCHANGED cluster
  BY DEF Posts
<1> DEFINE job == [NoJob EXCEPT !.op = op, !.version = version, !.again = (op = "refresh"),
                                !.pc = IF op = "refresh" THEN "read" ELSE "begin"]
<1>2. /\ job \in Jobs /\ job.op = op /\ job.lro = "none" /\ job.pc \in {"read", "begin"}
      /\ job.pc = "begin" => ~job.again
  BY DEF NoJob, Jobs
<1>3. jobs' = [jobs EXCEPT ![j] = job]
  BY <1>1
<1> HIDE DEF job
<1>4. /\ jobs' \in [JobSlots -> Jobs] /\ jobs'[j] = job
      /\ \A k \in JobSlots : k # j => jobs'[k] = jobs[k]
  BY <1>2, <1>3, OneJob
<1>5. PropertiesTypes'
  <2>1. view' \in Views
    BY <1>1 DEF Views
  <2>2. asks' \in [count : Nat, alone : Asked \cup {"none"}]
    BY <1>1 DEF PropertiesTypes
  <2> QED BY <1>1, <1>4, <2>1, <2>2 DEF PropertiesTypes
<1>6. SlotsInv'
  <2>1. cluster.op # j
    BY <1>1 DEF SlotsInv, Active
  <2> QED BY <1>1, <1>2, <1>4, <2>1 DEF SlotsInv
<1>7. WaitInv'
  BY <1>2, <1>4 DEF WaitInv, WillAnswer
<1>8. OutcomeInv'
  <2>1. Active(j)' /\ jobs'[j].op = op /\ jobs'[j].pc # "post"
    BY <1>2, <1>4 DEF Active
  <2>2. asks'.alone \in Changing =>
            asks'.alone = op /\ \A k \in JobSlots : k # j => jobs'[k].pc = "idle"
    BY <1>1, <1>4 DEF Active, Changing
  <2> QED BY <2>1, <2>2 DEF OutcomeInv, Active
<1> QED BY <1>5, <1>6, <1>7, <1>8

LEMMA PropertiesUserSteps == ASSUME PropertiesInv, UserStep PROVE PropertiesInv'
<1> USE DEF PropertiesInv
<1>0. /\ view \in Views /\ NoVersion \in SomeVersion /\ view.dialog \in SomeVersion
      /\ ClusterOperationRequested \in Views /\ PropertiesLoading \in Views
      /\ [ClusterOperationRequested EXCEPT !.dialog = NoVersion] \in Views
  BY DEF PropertiesTypes, Views, SomeVersion, ClusterOperationRequested, PropertiesLoading
<1>1. CASE OpenProperties \/ handleRefreshRequest \/ handleStopCluster \/ handleStartCluster
           \/ handleAbortClick \/ handleReconcileClick \/ handlePoolAbortClick
           \/ handleConfirmUpgrade
  <2>1. \E op \in Asked, version \in SomeVersion, newPage \in Views : Posts(op, version, newPage)
    BY <1>0, <1>1 DEF OpenProperties, handleRefreshRequest, handleStopCluster, handleStartCluster,
        handleAbortClick, handleReconcileClick, handlePoolAbortClick, handleConfirmUpgrade,
        Asked, ClusterOps, Changing
  <2> QED BY <2>1, PostingStep
<1>2. ASSUME NEW v \in SomeVersion, view' = [view EXCEPT !.dialog = v],
             UNCHANGED <<cluster, jobs, asks>>
      PROVE  PropertiesInv'
  <2>1. /\ view' \in Views /\ view'.info = view.info /\ view'.requested = view.requested
        /\ view'.told = view.told /\ view'.unread = view.unread /\ view'.shown = view.shown
    BY <1>0, <1>2 DEF Views
  <2>2. \A k \in JobSlots : (Active(k)' <=> Active(k)) /\ (WillAnswer(k)' <=> WillAnswer(k))
    BY <1>2 DEF Active, WillAnswer
  <2> QED BY <1>2, <2>1, <2>2 DEF PropertiesTypes, SlotsInv, WaitInv, OutcomeInv, Agrees
<1> QED BY <1>0, <1>1, <1>2
        DEF UserStep, handleUpgradeVersionChange, handleCancelUpgrade, SomeVersion

\* A handler fails before its operation has begun, or has waited for its end.
LEMMA TellingSteps ==
    ASSUME PropertiesInv, NEW j \in JobSlots, jobs[j].op # "none",
           \/ FailsWith(j, errorNotification(view), ReadsAgain(j))
           \/ FailsWith(j, upgradeClusterVersionResponse(errorNotification(view)), ReadsAgain(j))
           \/ FailsWith(j, GivenUp, NoJob)
           \/ AnswersWhenOver(j, Outcome(j), ReadsAgain(j))
           \/ AnswersWhenOver(j, upgradeClusterVersionResponse(Outcome(j)), ReadsAgain(j))
           \/ AnswersWhenOver(j, Outcome(j), NoJob) /\ jobs[j].op \notin Changing
    PROVE  PropertiesInv'
<1> USE DEF PropertiesInv
<1>0. view \in Views /\ jobs[j] \in Jobs
  BY DEF PropertiesTypes
<1>3. ReadsAgain(j) # NoJob
  BY <1>0 DEF ReadsAgain, NoJob, Jobs
<1>1. ASSUME NEW job \in {NoJob, ReadsAgain(j)}, NEW newView, FailsWith(j, newView, job),
             \/ job # NoJob /\ newView = errorNotification(view)
             \/ job # NoJob /\ newView = upgradeClusterVersionResponse(errorNotification(view))
             \/ newView = GivenUp
      PROVE  PropertiesInv'
  <2>1. jobs[j].pc = "begin" /\ jobs[j].lro # "running"
    BY <1>1 DEF FailsWith, SlotsInv
  <2>2. Answers(j, job) /\ view'.told /\ (job = NoJob => view'.unread)
    BY <1>0, <1>1, ViewAnswers DEF FailsWith, Answers
  <2> QED BY <2>1, <2>2, AnswerSteps
<1>2. ASSUME NEW job \in {NoJob, ReadsAgain(j)}, job = NoJob => jobs[j].op \notin Changing,
             AnswersWhenOver(j, Outcome(j), job)
             \/ AnswersWhenOver(j, upgradeClusterVersionResponse(Outcome(j)), job)
      PROVE  PropertiesInv'
  <2>1. jobs[j].pc = "poll" /\ jobs[j].lro # "running"
    BY <1>2 DEF AnswersWhenOver
  <2>2. \E v \in {view, errorNotification(view)} : view' \in {v, upgradeClusterVersionResponse(v)}
    BY <1>2 DEF AnswersWhenOver, Outcome
  <2>3. Answers(j, job)
    BY <1>0, <1>2, <2>2, ViewAnswers DEF AnswersWhenOver, Answers
  <2> QED BY <1>2, <2>1, <2>3, AnswerSteps
<1> QED BY <1>1, <1>2, <1>3

LEMMA PropertiesHandlers ==
    ASSUME PropertiesInv, NEW j \in JobSlots, HandlerStep(j)
    PROVE  PropertiesInv'
<1>1. CASE readAndPostClusterProperties(j)
  BY <1>1, ReadingSteps
<1>2. CASE handleStopClusterRequest(j)
  BY <1>2, BeginSteps, TellingSteps
  DEF handleStopClusterRequest, Begins, ClusterOps, Changing, Provs
<1>3. CASE handleStartClusterRequest(j)
  BY <1>3, BeginSteps, TellingSteps
  DEF handleStartClusterRequest, Begins, ClusterOps, Changing, Provs
<1>4. CASE handleUpgradeClusterVersion(j)
  BY <1>4, BeginSteps, TellingSteps
  DEF handleUpgradeClusterVersion, Begins, ClusterOps, Changing, Provs
<1>5. CASE handleReconcileClusterOperation(j)
  BY <1>5, BeginSteps, TellingSteps
  DEF handleReconcileClusterOperation, Begins, ClusterOps, Changing, Provs
<1>6. CASE handleAbortClusterOperation(j)
  BY <1>6, BeginSteps, TellingSteps DEF handleAbortClusterOperation, Changing
<1>7. CASE handleAbortAgentPoolOperation(j)
  BY <1>7, BeginSteps, TellingSteps DEF handleAbortAgentPoolOperation, Begins, Changing
<1> QED BY <1>1, <1>2, <1>3, <1>4, <1>5, <1>6, <1>7 DEF HandlerStep

LEMMA PropertiesStep ==
    PropertiesInv /\ [PropertiesNext]_propertiesVars => PropertiesInv'
<1>1. PropertiesInv /\ UNCHANGED propertiesVars => PropertiesInv'
  BY DEF PropertiesInv, PropertiesTypes, SlotsInv, WaitInv, OutcomeInv, WillAnswer, Agrees, Active,
         propertiesVars
<1> QED BY <1>1, PropertiesUserSteps, AzureSteps, PropertiesHandlers DEF PropertiesNext

LEMMA PropertiesStart == PropertiesInit => PropertiesInv
<1> SUFFICES ASSUME PropertiesInit PROVE PropertiesInv
  OBVIOUS
<1>1. PropertiesTypes
  <2>1. cluster \in Clusters
    BY VersionsAssumption DEF PropertiesInit, Clusters, Provs, Powers, PoolStates, SomeVersion
  <2>2. asClusterInfo(cluster) \in Infos
    BY <2>1 DEF asClusterInfo, Clusters, Infos
  <2>3. view \in Views
    BY <2>2 DEF PropertiesInit, Views, SomeVersion
  <2>4. jobs \in [JobSlots -> Jobs]
    BY NoJobType DEF PropertiesInit
  <2> QED BY <2>1, <2>3, <2>4 DEF PropertiesTypes, PropertiesInit
<1>2. \A j \in JobSlots : jobs[j] = NoJob /\ cluster.op # j
  BY SlotsAssumption DEF PropertiesInit
<1>3. SlotsInv
  BY <1>2, NoJobType DEF SlotsInv
<1>4. WaitInv /\ OutcomeInv
  BY DEF PropertiesInit, WaitInv, OutcomeInv, Changing
<1> QED BY <1>1, <1>3, <1>4 DEF PropertiesInv

\* A page that waits has a handler that will answer, unless one has given up reading the
\* properties since: for any number of handlers and requests.
THEOREM WaitsBacked == PropertiesSpec => []WaitIsBacked
<1>1. PropertiesInv => WaitIsBacked
  BY DEF PropertiesInv, WaitInv, WaitIsBacked, WillAnswer, Active
<1> QED BY <1>1, PropertiesStart, PropertiesStep, PTL DEF PropertiesSpec

\* What was asked for alone leaves on the page what it made of the cluster, whatever was read
\* while it was under way.
THEOREM OutcomeShown == PropertiesSpec => []ShowsOutcome
<1>1. PropertiesInv => ShowsOutcome
  BY DEF PropertiesInv, OutcomeInv, ShowsOutcome, Changing, Loaded, Agrees
<1> QED BY <1>1, PropertiesStart, PropertiesStep, PTL DEF PropertiesSpec

-----------------------------------------------------------------------------
(* The panels together: each takes its own steps and leaves the others be. *)

PanelsInv ==
    /\ IInv /\ PropertiesInv /\ CreateInv /\ InstallInv /\ QueryInv
    /\ WorkspaceInv /\ StepsInv /\ DeployedInv /\ FleetInv /\ FleetListsWillCome
    /\ GadgetInv

LEMMA OnePanelAtATime ==
    [PanelsNext]_panelVars =>
        /\ [Next]_vars /\ [PropertiesNext]_propertiesVars /\ [CreateNext]_createVars
        /\ [InstallNext]_installVars /\ [QueryNext]_queryVars /\ [WorkspacesNext]_workspaceVars
        /\ [AsoNext]_asoVars /\ [FleetNext]_fleetVars /\ [GadgetNext]_gadgetVars
<1> SUFFICES ASSUME [PanelsNext]_panelVars
             PROVE  /\ [Next]_vars /\ [PropertiesNext]_propertiesVars /\ [CreateNext]_createVars
                    /\ [InstallNext]_installVars /\ [QueryNext]_queryVars
                    /\ [WorkspacesNext]_workspaceVars /\ [AsoNext]_asoVars
                    /\ [FleetNext]_fleetVars /\ [GadgetNext]_gadgetVars
  OBVIOUS
<1>1. CASE UNCHANGED panelVars
  BY <1>1 DEF panelVars
<1>2. CASE DumpPanel \/ PropertiesPanel \/ CreatePanel \/ InstallPanel \/ TestPanel
  BY <1>2 DEF DumpPanel, PropertiesPanel, CreatePanel, InstallPanel, TestPanel
<1>3. CASE ModelsPanels \/ ManagePanels \/ AsoPanel \/ FleetPanel \/ GadgetPanel
  BY <1>3 DEF ModelsPanels, ManagePanels, AsoPanel, FleetPanel, GadgetPanel
<1> QED BY <1>1, <1>2, <1>3 DEF PanelsNext

LEMMA PanelsKeep == PanelsSpec => []PanelsInv
<1>1. PanelsInit => PanelsInv
  BY Starting, PropertiesStart, CreateStart, InstallStart, QueryStart, WorkspaceStart, AsoStart,
     FleetStart, GadgetStart DEF PanelsInit, PanelsInv
<1>2. PanelsInv /\ [PanelsNext]_panelVars => PanelsInv'
  BY OnePanelAtATime, Stepping, PropertiesStep, CreateStepKeeps, InstallStep, QueryStep,
     WorkspaceStep, AsoStep, FleetStepKeeps, FleetListsStep, GadgetStep DEF PanelsInv
<1> QED BY <1>1, <1>2, PTL DEF PanelsSpec

\* Whatever a page shows as under way has a handler at work that will tell it of the end, but
\* for the failures that BusyIsBacked names, which the code keeps from the page: for any number of
\* handlers, requests, captures, queries, models, names and retries.
THEOREM NoPageWaitsForNobody == PanelsSpec => []BusyIsBacked
<1>1. PanelsInv => BusyIsBacked
  <2> SUFFICES ASSUME PanelsInv PROVE BusyIsBacked
    OBVIOUS
  <2>1. SpinnerIsBacked /\ DownloadIsBacked
    BY DEF PanelsInv, IInv
  <2>2. WaitIsBacked
    BY DEF PanelsInv, PropertiesInv, WaitInv, WaitIsBacked, WillAnswer, Active
  <2>3. CreatingIsBacked
    BY CreateBacks DEF PanelsInv
  <2>4. InstallIsBacked
    BY DEF PanelsInv, InstallInv, InstallIsBacked, Attempting
  <2>5. QueriesCleanUp
    BY DEF PanelsInv, QueryInv, QueriesCleanUp, Idle
  <2>6. ChecksAreBacked
    BY DEF PanelsInv, WorkspaceInv, LockInv, ChecksAreBacked, Checking
  <2>7. FleetIsBacked
    BY FleetBacks DEF PanelsInv
  <2>8. DeploymentIsBacked
    BY DEF PanelsInv, GadgetInv, JobsInv, DeploymentIsBacked
  <2> QED BY <2>1, <2>2, <2>3, <2>4, <2>5, <2>6, <2>7, <2>8 DEF BusyIsBacked
<1> QED BY <1>1, PanelsKeep, PTL
=============================================================================
