-------------------------------- MODULE PanelsMC --------------------------------
(* The panels whose pages follow the handlers of a panel of their own: TCP    *)
(* dump, the properties and the creation of a cluster, the four KAITO panels, *)
(* the Azure Service Operator, the creation of a fleet and Inspektor Gadget.  *)
(* They share no state, so a behaviour is one of one panel, which "opened"    *)
(* names; the two KAITO panels that work on the same workspaces run together, *)
(* once for two models without operations, and once for one model with all of *)
(* them.                                                                      *)
EXTENDS TcpDump, ClusterProperties, CreateCluster, KaitoInstall, KaitoTest, KaitoWorkspaces,
        AsoInstall, CreateFleet, InspektorGadget

VARIABLE opened

panelVars == <<opened, vars, propertiesVars, createVars, installVars, queryVars, workspaceVars,
              asoVars, fleetVars, gadgetVars>>

PanelsInit ==
    /\ opened \in {"tcpdump", "properties", "create", "install", "test", "models", "manage",
                  "aso", "fleet", "gadget"}
    /\ Init /\ PropertiesInit /\ CreateInit /\ InstallInit /\ QueryInit /\ WorkspacesInit
    /\ AsoInit /\ FleetInit /\ GadgetInit
    \* where a panel that is not opened starts does not matter
    /\ opened # "tcpdump" => pod = "absent" /\ drawn = 0
    /\ opened # "properties" => cluster.prov = "Succeeded"
    /\ opened \notin {"models", "manage"} => workspaces = [m \in Models |-> "absent"]
    /\ opened = "manage" => workspaces["b"] = "absent"
    /\ opened # "aso" => deployed.operator = "part" /\ deployed.settings = NoSubscription
                          /\ \A d \in CertManager : deployed.cert[d] = "absent"
    /\ opened # "gadget" => gadgetPage.tab = "overview"

DumpPanel == opened = "tcpdump" /\ Next /\
    UNCHANGED <<opened, propertiesVars, createVars, installVars, queryVars,
                workspaceVars, asoVars, fleetVars, gadgetVars>>
PropertiesPanel == opened = "properties" /\ PropertiesNext /\
    UNCHANGED <<opened, vars, createVars, installVars, queryVars,
                workspaceVars, asoVars, fleetVars, gadgetVars>>
CreatePanel == opened = "create" /\ CreateNext /\
    UNCHANGED <<opened, vars, propertiesVars, installVars, queryVars,
                workspaceVars, asoVars, fleetVars, gadgetVars>>
InstallPanel == opened = "install" /\ InstallNext /\
    UNCHANGED <<opened, vars, propertiesVars, createVars, queryVars,
                workspaceVars, asoVars, fleetVars, gadgetVars>>
TestPanel == opened = "test" /\ QueryNext /\
    UNCHANGED <<opened, vars, propertiesVars, createVars, installVars,
                workspaceVars, asoVars, fleetVars, gadgetVars>>
ModelsPanels == opened = "models" /\ WorkspacesNext /\ operations' = operations /\
    UNCHANGED <<opened, vars, propertiesVars, createVars, installVars,
                queryVars, asoVars, fleetVars, gadgetVars>>
ManagePanels == opened = "manage" /\ WorkspacesNext /\ gallery'.selected # "b" /\
    UNCHANGED <<opened, vars, propertiesVars, createVars, installVars,
                queryVars, asoVars, fleetVars, gadgetVars>>
AsoPanel == opened = "aso" /\ AsoNext /\
    UNCHANGED <<opened, vars, propertiesVars, createVars, installVars,
                queryVars, workspaceVars, fleetVars, gadgetVars>>
FleetPanel == opened = "fleet" /\ FleetNext /\
    UNCHANGED <<opened, vars, propertiesVars, createVars, installVars,
                queryVars, workspaceVars, asoVars, gadgetVars>>
GadgetPanel == opened = "gadget" /\ GadgetNext /\
    UNCHANGED <<opened, vars, propertiesVars, createVars, installVars,
                queryVars, workspaceVars, asoVars, fleetVars>>

PanelsNext == \/ DumpPanel \/ PropertiesPanel \/ CreatePanel \/ InstallPanel
              \/ TestPanel \/ ModelsPanels \/ ManagePanels
              \/ AsoPanel \/ FleetPanel \/ GadgetPanel

\* Nothing of TCP dump is enabled for long in the behaviours of the other panels.
PanelsSpec == PanelsInit /\ [][PanelsNext]_panelVars /\ DumpFairness

-----------------------------------------------------------------------------
\* A page that shows that something is under way, a spinner, a button that is disabled, a
\* stage or a status, has a handler at work that will tell it of the end, whatever the user
\* clicks or others change meanwhile and whichever calls fail, but for the failures that the
\* code itself keeps from the page, and these only: the properties of a cluster cannot be read
\* ("unread"), the locations for a new cluster or fleet are not found, the listing of the
\* versions throws ("threw"), a KAITO installation throws before it begins ("threw"), and the
\* pod has a capture file out of place ("thrown").
BusyIsBacked ==
    /\ SpinnerIsBacked /\ DownloadIsBacked /\ WaitIsBacked /\ CreatingIsBacked
    /\ InstallIsBacked /\ QueriesCleanUp /\ ChecksAreBacked /\ FleetIsBacked
    /\ DeploymentIsBacked
=============================================================================
