----------------------------- MODULE KickstartSetup -----------------------------
(***************************************************************************)
(* The setup page of Kickstart, with its forms for a new cluster           *)
(* (ClusterInput.tsx) and for an existing one (ExistingClusterInput.tsx),  *)
(* and the handlers of KickstartClusterPanel that answer it: lists, the    *)
(* scan of the subscription (RegionScan), the preflight checks, and the    *)
(* readiness of an existing cluster.                                       *)
(*                                                                         *)
(* The page's effects run with the change that causes them, except the     *)
(* preflight's 350 ms timer.  A request is handled at once; what the panel *)
(* posts is delivered later, in order, so an answer posted before a click  *)
(* may be received after it.  Handlers run concurrently.                   *)
(***************************************************************************)
EXTENDS RegionScan, RolePermissions

CONSTANTS
    ClustersOf,     \* the existing clusters of each subscription
    ConnectedTo,    \* whether a registry is connected to the cluster
    NProviders,     \* number of AUTOMATIC_REQUIRED_PROVIDERS
    Worlds,         \* what the user may hold: roles on the subscription and on the group
    MaxEdits,       \* bound on the user's changes of the forms
    MaxPreflights,  \* bound on the preflights requested
    MaxLag,         \* bound on the panel's undelivered messages
    Overlapping     \* does a scan go on while a preflight runs, or an older scan winds up?
                    \* (they share no state)

ASSUME SetupAssumption ==
    /\ MaxEdits \in Nat /\ MaxPreflights \in Nat /\ MaxLag \in Nat /\ NProviders \in Nat
    /\ Overlapping \in BOOLEAN
    \* none of the page's records
    /\ NoChoice \notin [run : Nat, failed : BOOLEAN]
    /\ NoChoice \notin [type : {"complete"}, proceed : BOOLEAN, mayAssign : BOOLEAN]

Preflights == 1 .. MaxPreflights
Providers == 1 .. NProviders
Clusters == UNION {ClustersOf[s] : s \in Subs}

VARIABLES
    page,           \* the webview's state
    edits,          \* changes made so far
    toPage,         \* messages posted by the panel and not yet delivered
    reads,          \* list and readiness requests that the panel is answering
    pre,            \* the preflights, in the order of their requests
    registration,   \* Azure: state of each provider in each subscription
    held            \* Azure: the roles the user holds

setupVars == <<scanVars, page, edits, toPage, reads, pre, registration, held>>
setupAzureVars == <<registration, held>>

FreshForm == [loc |-> NoChoice, rg |-> "new", key |-> NoChoice, timer |-> NoChoice, auto |-> NoChoice]
FreshPage == [mode |-> "create", stage |-> "collecting", sub |-> NoChoice,
              locations |-> NoChoice, scan |-> NoChoice, scanFlow |-> NoChoice, form |-> FreshForm,
              gen |-> 0, flow |-> NoChoice, proceed |-> NoChoice,
              clusters |-> NoChoice, cluster |-> NoChoice, acrs |-> NoChoice, detecting |-> FALSE,
              ready |-> NoChoice, readyKey |-> NoChoice]

-----------------------------------------------------------------------------
(* The forms' effects                                                      *)

\* The preflight effect's key, None while something is missing.
Key(p) ==
    IF p.mode = "create" /\ p.sub # NoChoice /\ p.form.loc # NoChoice /\ p.form.rg # NoChoice
    THEN [sub |-> p.sub, loc |-> p.form.loc, rg |-> p.form.rg, gen |-> p.gen]
    ELSE NoChoice

\* The effect that fills an empty region with the one the scan recommends, once per scan.
AutoSelected(p) ==
    IF p.mode = "create" /\ p.scan # NoChoice /\ p.scan.region # NoChoice /\ p.form.auto # p.scan.run
    THEN [p EXCEPT !.form.auto = p.scan.run,
                   !.form.loc = IF @ = NoChoice THEN p.scan.region ELSE @]
    ELSE p

\* The preflight effect: a changed key restarts the timer.
Scheduled(p) ==
    IF Key(p) = p.form.key THEN p ELSE [p EXCEPT !.form.key = Key(p), !.form.timer = Key(p)]

\* The readiness effect of the existing-cluster form.
ReadyKey(p) ==
    IF p.mode = "existing" /\ p.sub # NoChoice /\ p.cluster # NoChoice /\ ~p.detecting /\ p.acrs # NoChoice
    THEN [sub |-> p.sub, cluster |-> p.cluster, acr |-> p.acrs.connected]
    ELSE NoChoice

ReadinessAsked(p) ==
    IF ReadyKey(p) \in {NoChoice, p.readyKey}
    THEN p
    ELSE [p EXCEPT !.readyKey = ReadyKey(p), !.ready = NoChoice]

Rendered(p) == ReadinessAsked(Scheduled(AutoSelected(p)))

\* The requests that the effects of the existing-cluster form post when p becomes q.
AskedReads(p, q) ==
    {r \in {[kind |-> "clusters", sub |-> q.sub, cluster |-> NoChoice]} :
        /\ q.mode = "existing" /\ q.sub # NoChoice /\ q.clusters = NoChoice
        /\ <<p.mode, p.sub, p.clusters>> # <<q.mode, q.sub, q.clusters>>}
      \cup {r \in {[kind |-> "acrs", sub |-> q.sub, cluster |-> q.cluster]} :
        /\ q.mode = "existing" /\ q.cluster # NoChoice /\ q.detecting
        /\ <<p.mode, p.sub, p.cluster, p.detecting>> # <<q.mode, q.sub, q.cluster, q.detecting>>}
      \cup {r \in {[kind |-> "ready", key |-> q.readyKey]} :
        q.readyKey # NoChoice /\ q.readyKey # p.readyKey}

\* The page becomes p, rendered; its effects post their requests.
Render(p) ==
    /\ page' = Rendered(p)
    /\ reads' = reads \cup AskedReads(page, page')

Post(m) == toPage' = toPage \o m

-----------------------------------------------------------------------------
(* What the user does                                                      *)

\* The first subscription is selected without the user.
Editing ==
    /\ edits < MaxEdits \/ page.sub = NoChoice
    /\ page.stage = "collecting"
    /\ edits' = IF page.sub = NoChoice THEN edits ELSE edits + 1
    /\ UNCHANGED setupAzureVars

\* The create form's effect on a new subscription, also when the form is mounted: the lists
\* are asked for and a scan is started.
LoadSubscription(p) ==
    /\ page' = Rendered(p)
    /\ reads' = reads \cup {[kind |-> "locations", sub |-> p.sub, cluster |-> NoChoice]}
    /\ StartScan(p.sub)
    /\ Post(<<[type |-> "scanStage", run |-> scanToken']>>)
    /\ UNCHANGED pre

\* handleSubscriptionSelect and setSubscriptionSelected.
ForSubscription(p, s) ==
    [p EXCEPT !.sub = s, !.locations = NoChoice, !.scan = NoChoice, !.scanFlow = NoChoice,
              !.flow = NoChoice, !.proceed = NoChoice, !.clusters = NoChoice, !.cluster = NoChoice,
              !.acrs = NoChoice, !.detecting = FALSE, !.ready = NoChoice, !.readyKey = NoChoice,
              !.form = [p.form EXCEPT !.loc = NoChoice,
                                      !.rg = IF p.form.rg = "old" THEN NoChoice ELSE p.form.rg]]

SelectSubscription(s) ==
    /\ Editing
    /\ s # page.sub
    /\ IF page.mode = "create"
       THEN LoadSubscription(ForSubscription(page, s))
       ELSE /\ Render(ForSubscription(page, s))
            /\ UNCHANGED <<scanVars, toPage, pre>>

\* setMode: the other form is mounted afresh.
SetMode ==
    /\ Editing
    /\ IF page.mode = "existing"
       THEN LoadSubscription([page EXCEPT !.mode = "create", !.form = FreshForm])
       ELSE /\ Render([page EXCEPT !.mode = "existing", !.form = FreshForm])
            /\ UNCHANGED <<scanVars, toPage, pre>>

EditForm(p) ==
    /\ Editing
    /\ Render(p)
    /\ UNCHANGED <<scanVars, toPage, pre>>

\* The region list, once loaded, or a chip of the scan.
SelectLocation(l) ==
    /\ page.mode = "create" /\ l # page.form.loc
    /\ \/ page.locations # NoChoice
       \/ page.scan # NoChoice /\ \E i \in DOMAIN page.scan.chips : page.scan.chips[i] = l
    /\ EditForm([page EXCEPT !.form.loc = l])

\* A new group's name, or an existing group, whose list comes with the locations.
EditGroup(g) ==
    /\ page.mode = "create" /\ g # page.form.rg
    /\ g = "old" => page.locations # NoChoice
    /\ EditForm([page EXCEPT !.form.rg = g])

\* "Re-check access" under a role warning: recheckPermissions.
RecheckPermissions ==
    /\ page.mode = "create" /\ page.proceed # NoChoice /\ ~page.proceed.mayAssign
    /\ EditForm([page EXCEPT !.gen = @ + 1, !.flow = NoChoice, !.proceed = NoChoice])

\* handleClusterSelect and setExistingClusterSelected.
SelectCluster(c) ==
    /\ page.mode = "existing" /\ page.clusters # NoChoice /\ c \in ClustersOf[page.clusters]
    /\ EditForm([page EXCEPT !.cluster = c, !.acrs = NoChoice, !.detecting = TRUE,
                             !.ready = NoChoice, !.readyKey = NoChoice])

PreflightRunning(p) == p.flow # NoChoice /\ p.proceed = NoChoice
PreflightHasFailure(p) == p.flow # NoChoice /\ p.flow.failed

\* The request is posted and setProvisioning ends the setup (see KickstartSession).
Submit ==
    /\ page' = [page EXCEPT !.stage = "submitted"]
    /\ UNCHANGED <<scanVars, edits, toPage, reads, pre, setupAzureVars>>

\* submitSelections.
SubmitNew ==
    /\ page.stage = "collecting" /\ Key(page) # NoChoice
    /\ ~PreflightRunning(page) /\ ~PreflightHasFailure(page)
    /\ Submit

\* handleUseConnected, or handleCreateAndUse when no registry is connected.
SubmitExisting ==
    /\ page.stage = "collecting" /\ page.mode = "existing" /\ page.cluster # NoChoice
    /\ ~page.detecting /\ page.acrs # NoChoice
    /\ Submit

\* The 350 ms are over: resetPreflight, then handleRunPreflight and its first stage.
TimerFires ==
    /\ page.stage = "collecting" /\ page.form.timer # NoChoice /\ Len(pre) < MaxPreflights
    /\ page' = [page EXCEPT !.form.timer = NoChoice, !.flow = NoChoice, !.proceed = NoChoice]
    /\ pre' = Append(pre, [pc |-> "region", at |-> page.form.timer, i |-> 1, proceed |-> TRUE,
                           mayAssign |-> FALSE])
    /\ Post(<<[type |-> "stage", run |-> Len(pre) + 1, failed |-> FALSE]>>)
    /\ UNCHANGED <<scanVars, edits, reads, setupAzureVars>>

-----------------------------------------------------------------------------
(* The panel: lists and readiness                                          *)

PanelStep == Len(toPage) <= MaxLag /\ page.stage = "collecting" /\ UNCHANGED edits

\* handleGetLocations, handleGetClusters, handleDetectClusterAcrs: a failure posts only an
\* error message, which changes nothing else on the page.
ReadAnswered(r) ==
    /\ PanelStep
    /\ r \in reads /\ r.kind # "ready"
    /\ reads' = reads \ {r}
    /\ \/ Post(<<[type |-> r.kind, sub |-> r.sub, cluster |-> r.cluster,
                  connected |-> IF r.cluster = NoChoice THEN FALSE ELSE ConnectedTo[r.cluster]]>>)
       \/ UNCHANGED toPage
    /\ UNCHANGED <<scanVars, page, pre, setupAzureVars>>

\* handleRunExistingReadiness: getExistingClusterReadiness never throws, so it always
\* answers, with the probes that UserProbes describes.
ReadinessChecked(r) ==
    /\ PanelStep
    /\ r \in reads /\ r.kind = "ready"
    /\ reads' = reads \ {r}
    /\ Post(<<[type |-> "ready", key |-> r.key]>>)
    /\ UNCHANGED <<scanVars, page, pre, setupAzureVars>>

ScanRuns ==
    /\ PanelStep
    /\ Overlapping \/ \A f \in 1 .. Len(pre) : pre[f].pc = "done"
    /\ \E s \in Scans :
        /\ Overlapping \/ \A t \in Scans : t < s => scans[t].pc \in {"done", "cancelled"}
        /\ ScanStep(s)
    /\ Post(IF scanPosts' = <<>> THEN <<>> ELSE <<[type |-> "scan", answer |-> scanPosts'[1]]>>)
    /\ UNCHANGED <<page, reads, pre, setupAzureVars>>

-----------------------------------------------------------------------------
(* The panel: the preflight checks (runPreflightChecks)                    *)

Snapshot(f, failed) == [type |-> "stage", run |-> f, failed |-> failed]

\* Preflight f goes on at pc; a stage that failed forbids to proceed.
Proceeds(f, pc, failed) ==
    /\ pre' = [pre EXCEPT ![f].pc = pc, ![f].proceed = @ /\ ~failed]
    /\ Post(<<Snapshot(f, failed)>>)
    /\ UNCHANGED <<scanVars, page, reads>>

PreflightAt(f, pc) == PanelStep /\ f \in 1 .. Len(pre) /\ pre[f].pc = pc

\* checkRegionSupportsAks: unsupported, or the read failed.
RegionChecked(f) ==
    /\ PreflightAt(f, "region")
    /\ \E supported \in BOOLEAN : Proceeds(f, "providers", ~supported)
    /\ UNCHANGED setupAzureVars

StateOf(f) == registration[pre[f].at.sub][pre[f].i]

\* ensureProvidersRegistered reads one namespace: done with it, or it is to be registered.
ProviderRead(f) ==
    /\ PreflightAt(f, "providers") /\ pre[f].i \in Providers
    /\ pre' = IF StateOf(f) = "registered" THEN [pre EXCEPT ![f].i = @ + 1]
              ELSE [pre EXCEPT ![f].pc = "registering"]
    /\ UNCHANGED <<scanVars, page, toPage, reads, setupAzureVars>>

\* providers.register, whatever another preflight did since the read (Azure leaves a
\* registered provider registered), before pollUntilRegistered.
ProviderRegisters(f) ==
    /\ PreflightAt(f, "registering")
    /\ registration' = [registration EXCEPT ![pre[f].at.sub][pre[f].i] =
                           IF @ = "registered" THEN @ ELSE "registering"]
    /\ pre' = [pre EXCEPT ![f].pc = "polling"]
    /\ UNCHANGED <<scanVars, page, toPage, reads, held>>

\* Mutant of PollAnswered: a poll that times out counts as done.
PollAnsweredAnyway(f) ==
    /\ PreflightAt(f, "polling")
    /\ pre' = [pre EXCEPT ![f].pc = "providers", ![f].i = @ + 1]
    /\ UNCHANGED <<scanVars, page, toPage, reads, setupAzureVars>>

\* pollUntilRegistered sees the provider registered.
PollAnswered(f) ==
    /\ PreflightAt(f, "polling") /\ StateOf(f) = "registered"
    /\ pre' = [pre EXCEPT ![f].pc = "providers", ![f].i = @ + 1]
    /\ UNCHANGED <<scanVars, page, toPage, reads, setupAzureVars>>

\* The poll times out, or a read or the registration fails: the stage fails, and the
\* providers after this one are not looked at.
ProvidersFail(f) ==
    /\ \/ PreflightAt(f, "registering") \/ PreflightAt(f, "polling")
       \/ PreflightAt(f, "providers") /\ pre[f].i \in Providers
    /\ Proceeds(f, "capacity", TRUE)
    /\ UNCHANGED setupAzureVars

ProvidersRegistered(f) ==
    /\ PreflightAt(f, "providers") /\ pre[f].i \notin Providers
    /\ Proceeds(f, "capacity", FALSE)
    /\ UNCHANGED setupAzureVars

\* The quota stage only warns; the zones stage fails unless the zones suffice or could not
\* be read.
CapacityChecked(f) ==
    /\ PreflightAt(f, "capacity")
    /\ \E zones \in {"succeeded", "failed", "warning"} : Proceeds(f, "role", zones = "failed")
    /\ UNCHANGED setupAzureVars

\* The permissions at the scope of the preflight: a new group has those of the subscription,
\* read role by role; an existing one has its own, read at once.
AtScope(f, readable) ==
    IF pre[f].at.rg = "new" THEN UnionPermissions(held.sub, readable)
    ELSE PermissionsOf(held.group)

\* runRoleStage: known to be able to assign roles, or not.
RoleChecked(f) ==
    /\ PreflightAt(f, "role")
    /\ \E mayAssign \in {FALSE} \cup {RoleSummary(AtScope(f, readable)) = "can" :
                                     readable \in SUBSET RoleNames} :
        pre' = [pre EXCEPT ![f].pc = "permissions", ![f].mayAssign = mayAssign]
    /\ Post(<<Snapshot(f, FALSE)>>)
    /\ UNCHANGED <<scanVars, page, reads, setupAzureVars>>

\* runProvisioningPermissionsStage and runReadinessStage, which only warn (what they show is
\* DeploymentSummary and ReadinessSummary), then preflightComplete, which does not carry the run.
PreflightEnds(f) ==
    /\ PreflightAt(f, "permissions")
    /\ pre' = [pre EXCEPT ![f].pc = "done"]
    /\ Post(<<Snapshot(f, FALSE),
              [type |-> "complete", proceed |-> pre[f].proceed, mayAssign |-> pre[f].mayAssign]>>)
    /\ UNCHANGED <<scanVars, page, reads, setupAzureVars>>

\* Azure finishes a registration.
RegistrationEnds(s, i) ==
    /\ registration[s][i] = "registering" /\ page.stage = "collecting"
    /\ registration' = [registration EXCEPT ![s][i] = "registered"]
    /\ UNCHANGED <<scanVars, page, edits, toPage, reads, pre, held>>

PreflightStep(f) ==
    \/ RegionChecked(f) \/ ProviderRead(f) \/ ProviderRegisters(f) \/ PollAnswered(f)
    \/ ProvidersFail(f) \/ ProvidersRegistered(f)
    \/ CapacityChecked(f) \/ RoleChecked(f) \/ PreflightEnds(f)

-----------------------------------------------------------------------------
(* The reducer's handlers of the panel's messages                          *)

\* Mutant of ApplySnapshot: the last stage replaces the others of its run.
ApplyLastSnapshot(flow, m) ==
    IF flow # NoChoice /\ m.run < flow.run THEN flow ELSE [run |-> m.run, failed |-> m.failed]

\* applySnapshot of the preflight flow.
ApplySnapshot(flow, m) ==
    IF flow = NoChoice \/ m.run > flow.run THEN [run |-> m.run, failed |-> m.failed]
    ELSE IF m.run < flow.run THEN flow
    ELSE [flow EXCEPT !.failed = @ \/ m.failed]

\* Mutant of RegistriesDetected: the subscription and cluster of the answer are not compared.
RegistriesDetectedForAny(p, m) ==
    [p EXCEPT !.acrs = [of |-> <<m.sub, m.cluster>>, connected |-> m.connected],
              !.detecting = FALSE]

\* detectClusterAcrsResponse.
RegistriesDetected(p, m) ==
    IF p.cluster # NoChoice /\ m.sub = p.sub /\ m.cluster = p.cluster
    THEN [p EXCEPT !.acrs = [of |-> <<m.sub, m.cluster>>, connected |-> m.connected],
                   !.detecting = FALSE]
    ELSE p

Received(p, m) ==
    CASE m.type = "locations" -> [p EXCEPT !.locations = m.sub]
      [] m.type = "clusters" -> IF m.sub = p.sub THEN [p EXCEPT !.clusters = m.sub] ELSE p
      [] m.type = "acrs" -> RegistriesDetected(p, m)
      [] m.type = "ready" -> IF m.key = p.readyKey THEN [p EXCEPT !.ready = m] ELSE p
      [] m.type = "scanStage" ->
            IF p.scanFlow # NoChoice /\ m.run < p.scanFlow THEN p ELSE [p EXCEPT !.scanFlow = m.run]
      [] m.type = "scan" ->
            IF p.scanFlow # NoChoice /\ m.answer.run < p.scanFlow THEN p
            ELSE [p EXCEPT !.scan = m.answer]
      [] m.type = "stage" -> [p EXCEPT !.flow = ApplySnapshot(@, m)]
      [] m.type = "complete" -> [p EXCEPT !.proceed = m]

Receive ==
    /\ toPage # <<>> /\ page.stage = "collecting"
    /\ Render(Received(page, Head(toPage)))
    /\ toPage' = Tail(toPage)
    /\ UNCHANGED <<scanVars, edits, pre, setupAzureVars>>

-----------------------------------------------------------------------------
SetupInit ==
    /\ ScanInit
    /\ page \in {[FreshPage EXCEPT !.mode = mode] : mode \in {"create", "existing"}}
    /\ edits = 0 /\ toPage = <<>> /\ reads = {} /\ pre = <<>>
    /\ registration = [s \in Subs |-> [i \in Providers |-> "none"]]
    /\ held \in Worlds

UserStep ==
    \/ \E s \in Subs : SelectSubscription(s)
    \/ page.sub # NoChoice /\ SetMode
    \/ \E l \in Regions \cup {NoChoice} : SelectLocation(l)
    \/ \E g \in {"new", "old", NoChoice} : EditGroup(g)
    \/ RecheckPermissions
    \/ \E c \in Clusters : SelectCluster(c)
    \/ SubmitNew
    \/ SubmitExisting

SetupNext ==
    \/ UserStep
    \/ TimerFires
    \/ \E r \in reads : ReadAnswered(r) \/ ReadinessChecked(r)
    \/ ScanRuns
    \/ \E f \in Preflights : PreflightStep(f)
    \/ \E s \in Subs, i \in Providers : RegistrationEnds(s, i)
    \/ Receive

SetupSpec == SetupInit /\ [][SetupNext]_setupVars

-----------------------------------------------------------------------------
(* Properties                                                              *)

\* "complete" is the latest verdict; the one on the page may be of an older selection, so
\* the gate must hang on the stages.  Once nothing is under way any more, the button lets
\* the selection on the screen through exactly if its own preflight said it may proceed,
\* whatever was changed, rechecked or answered late before.
LastOf(s) == s[Len(s)]
Settled ==
    /\ page.stage = "collecting" /\ Key(page) # NoChoice /\ page.form.timer = NoChoice /\ toPage = <<>>
    /\ \A f \in 1 .. Len(pre) : pre[f].pc = "done"

GateSettles ==
    Settled =>
        /\ pre # <<>> /\ LastOf(pre).at = Key(page)
        /\ LastOf(pre).proceed <=>
              (~PreflightRunning(page) /\ ~PreflightHasFailure(page))

\* A preflight that lets its user proceed has every provider registered in the subscription
\* it checked, although another may have read, registered or given up on the same ones
\* between its steps.
ProceedMeansRegistered ==
    \A m \in 1 .. Len(pre) :
        pre[m].pc \in {"role", "permissions", "done"} /\ pre[m].proceed =>
            \A i \in Providers : registration[pre[m].at.sub][i] = "registered"

\* The registries offered and the readiness shown belong to the cluster selected, in the
\* subscription selected, whatever order the answers for earlier selections arrive in.
RegistriesOfSelection ==
    /\ page.acrs # NoChoice => page.cluster # NoChoice /\ page.acrs.of = <<page.sub, page.cluster>>
    /\ page.ready # NoChoice =>
          page.ready.key = [sub |-> page.sub, cluster |-> page.cluster,
                            acr |-> page.acrs.connected]
=============================================================================
