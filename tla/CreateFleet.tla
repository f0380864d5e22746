------------------------------- MODULE CreateFleet -------------------------------
(***************************************************************************)
(* The page that creates a fleet: the two lists it waits for, its form,    *)
(* and the handler of its request.  As with the creation of a cluster, the *)
(* form stays until the first post of a handler arrives: setCreating keeps *)
(* the parameters of the last submission and leaves the stage alone.       *)
(*                                                                         *)
(* A fleet is the name it was given; the form holds a name or none, and    *)
(* whether each of the other inputs passed its validation.  A message to   *)
(* the page is delivered when it is posted.                                *)
(***************************************************************************)
EXTENDS Naturals, FiniteSets

CONSTANTS FleetNames, NoFleet,
          FleetHandlers      \* creations that may run at once

ASSUME FleetAssumption == NoFleet \notin FleetNames /\ IsFiniteSet(FleetHandlers)

VARIABLES
    fleetWizard,      \* the page
    fleetLists,       \* the lists that the panel still has to answer
    fleetCreations,   \* the fleet that each handler creates, and how far it is
    fleets            \* the fleets that exist in Azure

fleetVars == <<fleetWizard, fleetLists, fleetCreations, fleets>>

FleetPage == [stage |-> "Uninitialized", lists |-> {}, params |-> NoFleet,
              form |-> [name |-> NoFleet, group |-> FALSE, location |-> FALSE,
                        hub |-> "with", dns |-> FALSE]]
NoFleetCreation == [pc |-> "idle", name |-> NoFleet]

-----------------------------------------------------------------------------
(* The page and its lists.                                                 *)

FleetInitialized(page) ==
    IF page.stage = "Loading" /\ page.lists = {"locations", "groups"}
    THEN [page EXCEPT !.stage = "CollectingInput"] ELSE page

FleetProgress(page, event) ==
    [page EXCEPT !.stage = CASE event = "InProgress" -> "Creating"
                             [] event = "Failed" -> "Failed"
                             [] event = "Success" -> "Succeeded"]

FleetInitializing ==
    /\ fleetWizard.stage = "Uninitialized"
    /\ fleetWizard' = [fleetWizard EXCEPT !.stage = "Loading"]
    /\ fleetLists' = {"locations", "groups"}
    /\ UNCHANGED <<fleetCreations, fleets>>

\* The provider cannot be read, or has no locations: the page is not told.
FleetLocations(found) ==
    /\ "locations" \in fleetLists
    /\ fleetLists' = fleetLists \ {"locations"}
    /\ fleetWizard' = IF found
                      THEN FleetInitialized([fleetWizard EXCEPT !.lists = @ \cup {"locations"}])
                      ELSE fleetWizard
    /\ UNCHANGED <<fleetCreations, fleets>>

FleetResourceGroups(found) ==
    /\ "groups" \in fleetLists
    /\ fleetLists' = fleetLists \ {"groups"}
    /\ fleetWizard' = IF found
                      THEN FleetInitialized([fleetWizard EXCEPT !.lists = @ \cup {"groups"}])
                      ELSE FleetProgress(fleetWizard, "Failed")
    /\ UNCHANGED <<fleetCreations, fleets>>

-----------------------------------------------------------------------------
(* The form.                                                               *)

EditsFleet(form) ==
    /\ fleetWizard.stage = "CollectingInput"
    /\ fleetWizard' = [fleetWizard EXCEPT !.form = form]
    /\ UNCHANGED <<fleetLists, fleetCreations, fleets>>

\* A name that does not pass getValidatedName is none.
NamesFleet(name) == EditsFleet([fleetWizard.form EXCEPT !.name = name])
ChoosesGroup(chosen) == EditsFleet([fleetWizard.form EXCEPT !.group = chosen])
ChoosesLocation(chosen) == EditsFleet([fleetWizard.form EXCEPT !.location = chosen])
\* The prefix of the hub is kept when the hub is given up.
ChoosesHub(hub) == EditsFleet([fleetWizard.form EXCEPT !.hub = hub])
PrefixesHub(valid) ==
    fleetWizard.form.hub = "with" /\ EditsFleet([fleetWizard.form EXCEPT !.dns = valid])

ValidFleet(form) ==
    /\ form.location /\ form.group /\ form.name # NoFleet
    /\ form.hub = "with" => form.dns

SubmitsFleet ==
    /\ fleetWizard.stage = "CollectingInput" /\ ValidFleet(fleetWizard.form)
    /\ \E h \in FleetHandlers :
           /\ fleetCreations[h].pc = "idle"
           /\ fleetCreations' = [fleetCreations EXCEPT
                  ![h] = [pc |-> "start", name |-> fleetWizard.form.name]]
    /\ fleetWizard' = [fleetWizard EXCEPT !.params = fleetWizard.form.name]
    /\ UNCHANGED <<fleetLists, fleets>>

-----------------------------------------------------------------------------
(* The handler of a request.                                               *)

FleetStep(h, from, to, event) ==
    /\ fleetCreations[h].pc = from
    /\ fleetCreations' = [fleetCreations EXCEPT ![h].pc = to]
    /\ fleetWizard' = FleetProgress(fleetWizard, event)
    /\ UNCHANGED fleetLists

handleCreateFleetRequest(h) == FleetStep(h, "start", "create", "InProgress") /\ UNCHANGED fleets

\* Mutant: a creation that does not answer with a fleet is left alone.
EndsSilently(h) ==
    \/ /\ FleetStep(h, "create", "idle", "Success")
       /\ fleets' = fleets \cup {fleetCreations[h].name}
    \/ FleetStep(h, "create", "idle", "InProgress") /\ UNCHANGED fleets

\* The creation ends well and answers with the fleet; or it fails, where a fleet may
\* have come to be, as when the answer has no id.
CreatesFleet(h) ==
    \/ /\ FleetStep(h, "create", "idle", "Success")
       /\ fleets' = fleets \cup {fleetCreations[h].name}
    \/ /\ FleetStep(h, "create", "idle", "Failed")
       /\ fleets' \in {fleets, fleets \cup {fleetCreations[h].name}}

-----------------------------------------------------------------------------
FleetInit ==
    /\ fleetWizard = FleetPage
    /\ fleetLists = {}
    /\ fleetCreations = [h \in FleetHandlers |-> NoFleetCreation]
    /\ fleets = {}

FleetNext ==
    \/ FleetInitializing
    \/ \E found \in BOOLEAN : FleetLocations(found) \/ FleetResourceGroups(found)
    \/ \E name \in FleetNames \cup {NoFleet} : NamesFleet(name)
    \/ \E chosen \in BOOLEAN : ChoosesGroup(chosen) \/ ChoosesLocation(chosen) \/ PrefixesHub(chosen)
    \/ \E hub \in {"with", "without"} : ChoosesHub(hub)
    \/ SubmitsFleet
    \/ \E h \in FleetHandlers : handleCreateFleetRequest(h) \/ CreatesFleet(h)

FleetSpec == FleetInit /\ [][FleetNext]_fleetVars

-----------------------------------------------------------------------------
\* A page that loads waits for a list that is still to come, unless the locations were not
\* found, which it is not told; one that shows a creation in progress has a handler at work
\* that will tell it of the end, and one that shows success has a fleet in Azure, though
\* perhaps not the one it names, which is that of the last submission.
FleetIsBacked ==
    /\ fleetWizard.stage = "Loading" => fleetLists # {} \/ "locations" \notin fleetWizard.lists
    /\ fleetWizard.stage = "Creating" => \E h \in FleetHandlers : fleetCreations[h].pc # "idle"
    /\ fleetWizard.stage = "Succeeded" => fleets # {}
=============================================================================
