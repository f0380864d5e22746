--------------------------------- MODULE Draft ---------------------------------
(***************************************************************************)
(* Draft: the pages that write a Dockerfile, deployment files and a GitHub *)
(* workflow.  Each page loads what it lists when it needs it, hands what   *)
(* was selected to the next page, and writes files that it checked not to  *)
(* exist when the user picked their place.  A page that is opened with     *)
(* selections holds them as pending until the answers that list them come. *)
(*                                                                         *)
(* The user works on one page at a time.  A resource group and a name in   *)
(* it are one key; the application name and the ports of a deployment, and *)
(* the Dockerfile, the deployment type, the paths and the Helm overrides   *)
(* of a workflow, are one Boolean: whether they are all valid.  A place is *)
(* a directory of the workspace, or the name of a workflow: names that the *)
(* page tells apart may be of one file, as those that differ in case are   *)
(* where the file system ignores it.  Azure and GitHub do not change while *)
(* a page is open.  A request that fails is one that is not answered.      *)
(***************************************************************************)
EXTENDS Naturals, Sequences, FiniteSets

CONSTANTS Subs, AcrNames, ClusterNames,
          AcrsOf,          \* the registries of a subscription
          ClustersOf,      \* its clusters
          Repos,           \* <<subscription, registry, repository>>
          Namespaces,      \* <<subscription, cluster, namespace>>
          RepoNames, NsNames,
          BranchesOf,      \* of a GitHub repository
          DefaultBranch,
          VersionsOf,      \* the example versions of a language
          Specs,           \* the kinds of deployment files
          Directories,
          WorkflowNames,   \* what the user may call a workflow
          LowerOf,         \* the name in lower case
          FileOf,          \* the file that a workflow of the name is written to
          UsersFiles,      \* <<place, what>> of what the user has written
          Openings,        \* selections that a page may open with
          MaxVersions,     \* the user waits for so many version answers
          MaxWaiting,      \* selects nothing while more requests than these wait
          MaxDrafted,      \* and creates so many files
          None

ASSUME ListsAssumption ==
    /\ AcrsOf \in [Subs -> SUBSET AcrNames]
    /\ ClustersOf \in [Subs -> SUBSET ClusterNames]
    /\ \A g \in DOMAIN BranchesOf : DefaultBranch[g] \in BranchesOf[g]
    /\ Repos \subseteq Subs \X AcrNames \X RepoNames
    /\ Namespaces \subseteq Subs \X ClusterNames \X NsNames
    /\ None \notin AcrNames \cup ClusterNames
ASSUME KindsAssumption ==
    /\ "manifests" \in Specs /\ Specs \cap {"dockerfile", "workflow"} = {}
    /\ UsersFiles \subseteq (Directories \X (Specs \cup {"dockerfile"}))
                          \cup (WorkflowNames \X {"workflow"})
ASSUME NamesAssumption ==
    /\ LowerOf \in [WorkflowNames -> WorkflowNames]
    /\ FileOf \in [WorkflowNames -> (Directories \X (Specs \cup {"dockerfile"}))
                                    \cup (WorkflowNames \X {"workflow"})]
ASSUME OpeningsAssumption ==
    Openings \subseteq [sub : Subs \cup {None}, acr : AcrNames \cup {None},
                      repo : RepoNames \cup {None}, cluster : ClusterNames \cup {None},
                      ns : NsNames \cup {None}]

VARIABLES
    page,      \* the page the user works on
    files,     \* of each place and kind of file, who wrote it
    making,    \* the creation that the panel carries out
    handed     \* what the deployment page handed to this workflow page

vars == <<page, files, making, handed>>

FileKeys == (Directories \X (Specs \cup {"dockerfile"})) \cup (WorkflowNames \X {"workflow"})
GitRepos == DOMAIN BranchesOf
NoSelection == [sub |-> None, acr |-> None, repo |-> None, cluster |-> None, ns |-> None]

Closed == [kind |-> "none", status |-> "Editing",
           place |-> None, free |-> FALSE, existing |-> {}, picking |-> FALSE,
           filled |-> TRUE,
           lang |-> None, version |-> None, tags |-> None, versionAsks |-> <<>>,
           sel |-> NoSelection, tag |-> FALSE, pending |-> NoSelection,
           asked |-> {}, known |-> {},
           git |-> None, branch |-> None, spec |-> "manifests"]

-----------------------------------------------------------------------------
(* Reference data: what a render asks for, once.                           *)

HasLoaded(p, key) == key \in p.known

AcrListed(p) == /\ HasLoaded(p, <<"subs">>) /\ p.sel.sub # None
                /\ HasLoaded(p, <<"acrs", p.sel.sub>>) /\ p.sel.acr # None
ClusterListed(p) == /\ HasLoaded(p, <<"subs">>) /\ p.sel.sub # None
                    /\ HasLoaded(p, <<"clusters", p.sel.sub>>) /\ p.sel.cluster # None

\* getOrThrow: a selection that the subscription's list lacks ends the render.
Throws(p) == \/ AcrListed(p) /\ p.sel.acr \notin AcrsOf[p.sel.sub]
             \/ ClusterListed(p) /\ p.sel.cluster \notin ClustersOf[p.sel.sub]

RepositoriesKey(p) == <<"repos", p.sel.sub, p.sel.acr>>
NamespacesKey(p) == <<"namespaces", p.sel.sub, p.sel.cluster>>
ExistingRepo(p) == p.sel.repo # None /\ ~p.sel.repo.isNew

EnsureAzureLoaded(p) ==
    {<<"subs">>}
    \cup (IF HasLoaded(p, <<"subs">>) /\ p.sel.sub # None
          THEN {<<"acrs", p.sel.sub>>, <<"clusters", p.sel.sub>>} ELSE {})
    \cup (IF AcrListed(p) THEN {RepositoriesKey(p)} ELSE {})
    \cup (IF ClusterListed(p) THEN {NamespacesKey(p)} ELSE {})

\* Each page has loaders of its own; the tags of a repository are asked for by
\* the deployment page alone, and only if it is not a new one.
EnsureDeploymentLoaded(p) ==
    EnsureAzureLoaded(p)
    \cup (IF AcrListed(p) /\ ExistingRepo(p)
          THEN {<<"tags", p.sel.sub, p.sel.acr, p.sel.repo.value>>} ELSE {})

EnsureWorkflowLoaded(p) ==
    EnsureAzureLoaded(p) \cup (IF p.git # None THEN {<<"branches", p.git>>} ELSE {})

prepareData(p) == CASE p.kind = "deployment" -> EnsureDeploymentLoaded(p)
                    [] p.kind = "workflow" -> EnsureWorkflowLoaded(p)
                    [] OTHER -> {}

Render(p) == IF Throws(p) THEN [Closed EXCEPT !.kind = "blank"]
             ELSE [p EXCEPT !.asked = @ \cup prepareData(p)]

-----------------------------------------------------------------------------
(* The fields that a page shows for what is selected so far.               *)

DockerfileFields(p) ==
    {"place", "language", "port"} \cup (IF p.lang = None THEN {} ELSE {"version"})

\* Only the workflow page hides the namespace until there is a cluster.
DeploymentFields(p) ==
    {"subscription"}
    \cup (IF p.sel.sub = None THEN {} ELSE {"acr", "cluster"})
    \cup (IF p.sel.acr = None THEN {} ELSE {"repository"})
    \cup (IF p.sel.repo = None THEN {} ELSE {"tag"})
DeploymentDetails == {"place", "spec", "name", "port", "namespace"}

WorkflowProperties(p) ==
    {"place", "git", "subscription", "paths"} \cup (IF p.git = None THEN {} ELSE {"branch"})
WorkflowFields(p) ==
    (IF p.sel.sub = None THEN {} ELSE {"acr", "cluster"})
    \cup (IF p.sel.acr = None THEN {} ELSE {"repository"})
    \cup (IF p.sel.cluster = None THEN {} ELSE {"namespace"})

Shows(p, field) ==
    field \in CASE p.kind = "dockerfile" -> DockerfileFields(p)
                [] p.kind = "deployment" -> DeploymentFields(p) \cup DeploymentDetails
                [] p.kind = "workflow" -> WorkflowProperties(p) \cup WorkflowFields(p)
                [] OTHER -> {}

-----------------------------------------------------------------------------
(* Places.                                                                 *)

ExistingAt(place, whats) == {w \in whats : files[<<place, w>>] # "absent"}

What(p) == CASE p.kind = "dockerfile" -> "dockerfile"
             [] p.kind = "deployment" -> p.spec
             [] p.kind = "workflow" -> "workflow"

getValidatedLocation(p, place, existing) ==
    [p EXCEPT !.place = place, !.existing = existing, !.free = What(p) \notin existing]

Writes(p) == IF p.kind = "dockerfile" THEN {"dockerfile"} ELSE Specs
At(p, place) == getValidatedLocation(p, place, ExistingAt(place, Writes(p)))

-----------------------------------------------------------------------------
(* The states that pages are created with.                                 *)

DockerfilePage(place) == At([Closed EXCEPT !.kind = "dockerfile"], place)

\* The page of a deployment takes the subscription and the cluster alone.
DeploymentPage(place, initial) ==
    Render(At([Closed EXCEPT !.kind = "deployment", !.filled = FALSE,
                             !.pending = initial], place))

Supposed(value) == IF value = None THEN None ELSE [value |-> value, isNew |-> TRUE]

WorkflowPage(initial, filled) ==
    Render([Closed EXCEPT !.kind = "workflow", !.filled = filled,
                          !.existing = {n \in WorkflowNames : files[<<n, "workflow">>] # "absent"},
                          !.pending = initial,
                          !.sel.repo = Supposed(initial.repo),
                          !.sel.ns = Supposed(initial.ns)])

NamedOnly(initial) == [initial EXCEPT !.acr = None, !.repo = None, !.ns = None]

Init == /\ page = Closed
        /\ files = [k \in FileKeys |-> IF k \in UsersFiles THEN "user" ELSE "absent"]
        /\ making = None
        /\ handed = None

-----------------------------------------------------------------------------
(* Opening a page: from the explorer, from a cluster of the tree, or from  *)
(* the palette.                                                            *)

draftDockerfile(place) ==
    /\ page.kind = "none"
    /\ page' = DockerfilePage(place)
    /\ UNCHANGED <<files, making, handed>>

draftDeployment(place, initial) ==
    /\ page.kind = "none"
    /\ page' = DeploymentPage(place, NamedOnly(initial))
    /\ UNCHANGED <<files, making, handed>>

draftWorkflow(initial) ==
    /\ page.kind = "none"
    /\ page' = WorkflowPage(NamedOnly(initial), FALSE)
    /\ UNCHANGED <<files, making, handed>>

\* A creation goes on when its page is closed, and answers nobody.
ClosePage ==
    /\ page.kind # "none"
    /\ page' = Closed
    /\ making' = IF making = None THEN None ELSE [making EXCEPT !.live = FALSE]
    /\ handed' = None
    /\ UNCHANGED files

-----------------------------------------------------------------------------
(* The user's selections.  The fieldset is enabled while the page edits.   *)

Editing == /\ page.status = "Editing"
           /\ Cardinality(page.asked \ page.known) <= MaxWaiting
Selects(p) == /\ page' = Render(p)
              /\ handed' = None
              /\ UNCHANGED <<files, making>>

\* A list is offered when it is loaded; null deselects.
Offered(key, values) == IF HasLoaded(page, key) THEN values \cup {None} ELSE {}

\* A text field where nothing is loaded or listed, a spinner while it loads,
\* and otherwise a list that a text may be added to.
Typed(key, names, listed) ==
    IF key \in page.asked \ page.known THEN {}
    ELSE {None} \cup {[value |-> n, isNew |-> ~(HasLoaded(page, key) /\ listed[n])] : n \in names}

\* Mutant: a change of subscription keeps the registry.
SubscriptionKeepsAcr(s) ==
    /\ Editing /\ Shows(page, "subscription")
    /\ s \in Offered(<<"subs">>, Subs)
    /\ Selects([page EXCEPT !.pending.sub = None,
                            !.sel = [NoSelection EXCEPT !.sub = s, !.acr = page.sel.acr],
                            !.tag = FALSE])

setSelectedSubscription(s) ==
    /\ Editing /\ Shows(page, "subscription")
    /\ s \in Offered(<<"subs">>, Subs)
    /\ Selects([page EXCEPT !.pending.sub = None,
                            !.sel = [NoSelection EXCEPT !.sub = s],
                            !.tag = FALSE])

setSelectedAcr(a) ==
    /\ Editing /\ Shows(page, "acr")
    /\ a \in Offered(<<"acrs", page.sel.sub>>, AcrsOf[page.sel.sub])
    /\ Selects([page EXCEPT !.pending.acr = None, !.sel.acr = a, !.sel.repo = None,
                            !.tag = FALSE])

setSelectedRepositoryName(r) ==
    /\ Editing /\ Shows(page, "repository")
    /\ r \in Typed(RepositoriesKey(page), RepoNames,
                   [n \in RepoNames |-> <<page.sel.sub, page.sel.acr, n>> \in Repos])
    /\ Selects([page EXCEPT !.pending.repo = None, !.sel.repo = r, !.tag = FALSE])

setSelectedAcrRepoTag(chosen) ==
    /\ Editing /\ Shows(page, "tag")
    /\ \A key \in EnsureDeploymentLoaded(page) : key[1] = "tags" => HasLoaded(page, key)
    /\ Selects([page EXCEPT !.tag = chosen])

setSelectedCluster(c) ==
    /\ Editing /\ Shows(page, "cluster")
    /\ c \in Offered(<<"clusters", page.sel.sub>>, ClustersOf[page.sel.sub])
    /\ Selects([page EXCEPT !.pending.cluster = None, !.sel.cluster = c, !.sel.ns = None])

setSelectedClusterNamespace(n) ==
    /\ Editing /\ Shows(page, "namespace")
    /\ n \in Typed(NamespacesKey(page), NsNames,
                   [x \in NsNames |-> <<page.sel.sub, page.sel.cluster, x>> \in Namespaces])
    /\ Selects([page EXCEPT !.pending.ns = None, !.sel.ns = n])

ValidAzure(p) == p.sel.sub # None /\ p.sel.acr # None /\ p.sel.repo # None /\ p.sel.ns # None

\* The user turns to the other fields when those of Azure are filled in and
\* nothing is loading.
OtherFields(fields) ==
    /\ Editing /\ \E field \in fields : Shows(page, field)
    /\ page.kind = "dockerfile" \/ (ValidAzure(page) /\ page.asked \ page.known \subseteq
                                      {<<"branches", g>> : g \in GitRepos})

\* Where nothing but the user's own fields change, the handed ones stay.
Fills(p) == page' = Render(p) /\ UNCHANGED <<files, making, handed>>

fillIn(valid) ==
    /\ OtherFields({"port", "name", "paths"})
    /\ Fills([page EXCEPT !.filled = valid])

\* Mutant: another kind of files leaves the check of the place as it was.
SpecTypeOnly(spec) ==
    /\ OtherFields({"spec"})
    /\ Fills([page EXCEPT !.spec = spec])

setSelectedDeploymentSpecType(spec) ==
    /\ OtherFields({"spec"})
    /\ Fills([page EXCEPT !.spec = spec, !.free = spec \notin page.existing])

setSelectedWorkflowName(n) ==
    /\ OtherFields({"place"}) /\ page.kind = "workflow"
    /\ Fills([page EXCEPT !.place = n, !.free = n # None /\ n \notin page.existing])

\* Mutant: the branches of any repository select the default branch.
AnyDefaultBranch(repo, of, branches) ==
    IF repo # None /\ branches # {} THEN CHOOSE b \in branches : TRUE ELSE None

getSelectedBranch(repo, of, branches) ==
    IF repo # None /\ repo = of /\ DefaultBranch[repo] \in branches
    THEN DefaultBranch[repo] ELSE None

getKnownBranches(p, g) == IF HasLoaded(p, <<"branches", g>>) THEN BranchesOf[g] ELSE {}

setSelectedGitHubRepo(g) ==
    /\ OtherFields({"git"})
    /\ Fills([page EXCEPT !.git = g,
                          !.branch = IF g = None THEN None
                                     ELSE getSelectedBranch(g, g, getKnownBranches(page, g))])

setSelectedBranchName(b) ==
    /\ OtherFields({"branch"})
    /\ b \in Offered(<<"branches", page.git>>, BranchesOf[page.git])
    /\ Fills([page EXCEPT !.branch = b])

-----------------------------------------------------------------------------
(* The answers to the pages' requests, in any order.                       *)

Wanted(p, key) == key \in p.asked \ p.known
Knowing(p, key) == [p EXCEPT !.known = @ \cup {key}]

\* What was pending, if the answer lists it; the given default otherwise.
getSelectedValue(wanted, listed, default) ==
    IF wanted # None /\ wanted \in listed THEN wanted ELSE default
\* Mutant: what the answer does not list is unset, as for registries.
UnsetUnlessListed(wanted, listed, default) ==
    IF wanted # None /\ wanted \in listed THEN [value |-> wanted, isNew |-> FALSE] ELSE None

getSelectedExisting(wanted, listed, default) ==
    IF wanted # None /\ wanted \in listed THEN [value |-> wanted, isNew |-> FALSE] ELSE default

\* What the panels answer.
NamesOf(key) ==
    CASE key[1] = "subs" -> Subs
      [] key[1] = "acrs" -> AcrsOf[key[2]]
      [] key[1] = "clusters" -> ClustersOf[key[2]]
      [] key[1] = "repos" -> {r \in RepoNames : <<key[2], key[3], r>> \in Repos}
      [] key[1] = "namespaces" -> {n \in NsNames : <<key[2], key[3], n>> \in Namespaces}
      [] OTHER -> {}
WorkflowPanelAnswer(key) ==
    IF key[1] = "branches" THEN BranchesOf[key[2]] ELSE NamesOf(key)

\* A deployment's page selects the subscription and the cluster it opened with.
DeploymentTakes(p, key, names) ==
    CASE key[1] = "subs" -> [p EXCEPT !.sel.sub = getSelectedValue(p.pending.sub, names, None)]
      [] key[1] = "clusters" ->
             [p EXCEPT !.sel.cluster = getSelectedValue(p.pending.cluster, names, None)]
      [] OTHER -> p

WorkflowTakes(p, key, names) ==
    CASE key[1] = "subs" -> [p EXCEPT !.sel.sub = getSelectedValue(p.pending.sub, names, None)]
      [] key[1] = "acrs" -> [p EXCEPT !.sel.acr = getSelectedValue(p.pending.acr, names, None)]
      [] key[1] = "clusters" ->
             [p EXCEPT !.sel.cluster = getSelectedValue(p.pending.cluster, names, None)]
      [] key[1] = "repos" ->
             [p EXCEPT !.sel.repo = getSelectedExisting(p.pending.repo, names, @)]
      [] key[1] = "namespaces" ->
             [p EXCEPT !.sel.ns = getSelectedExisting(p.pending.ns, names, @)]
      [] key[1] = "branches" -> [p EXCEPT !.branch = getSelectedBranch(p.git, key[2], names)]

Response(key) ==
    /\ Wanted(page, key)
    /\ LET p == Knowing(page, key) IN
       page' = Render(IF p.kind = "deployment" THEN DeploymentTakes(p, key, NamesOf(key))
                      ELSE WorkflowTakes(p, key, WorkflowPanelAnswer(key)))
    /\ UNCHANGED <<files, making, handed>>

-----------------------------------------------------------------------------
(* The Dockerfile page.  The panel answers version requests in their order.*)

\* Mutant: another language keeps the version.
LanguageKeepsVersion(l) ==
    /\ Editing /\ Shows(page, "language")
    /\ page' = [page EXCEPT !.lang = l, !.filled = TRUE]
    /\ UNCHANGED <<files, making, handed>>

setSelectedLanguage(l) ==
    /\ Editing /\ Shows(page, "language")
    /\ page' = [page EXCEPT !.lang = l, !.version = None, !.filled = TRUE]
    /\ UNCHANGED <<files, making, handed>>

setSelectedLanguageVersion(v) ==
    /\ Editing /\ Shows(page, "version")
    /\ v \in VersionsOf[page.lang] \cup {None}
    /\ Len(page.versionAsks) < MaxVersions
    /\ page' = [page EXCEPT !.version = v,
                            !.versionAsks = IF v = None THEN @
                                            ELSE Append(@, <<page.lang, v>>)]
    /\ UNCHANGED <<files, making, handed>>

getLanguageVersionInfoResponse ==
    /\ page.versionAsks # <<>>
    /\ LET answer == Head(page.versionAsks) IN
       page' = [page EXCEPT !.versionAsks = Tail(@),
                            !.tags = IF page.lang = answer[1] THEN answer ELSE @]
    /\ UNCHANGED <<files, making, handed>>

-----------------------------------------------------------------------------
(* Creating.  Buttons of a form submit it unless they say otherwise, so    *)
(* that choosing a place and opening a file submit a form that is valid.   *)

validateDockerfile(p) ==
    p.free /\ p.lang # None /\ p.version # None /\ p.tags # None /\ p.filled

validateDeployment(p) == ValidAzure(p) /\ p.free /\ p.filled /\ p.tag

validateDeploymentParams(p) == p.filled
validateWorkflow(p) ==
    /\ p.free /\ p.branch # None /\ ValidAzure(p) /\ p.sel.cluster # None
    /\ validateDeploymentParams(p)

validate(p) == CASE p.kind = "dockerfile" -> validateDockerfile(p)
                 [] p.kind = "deployment" -> validateDeployment(p)
                 [] p.kind = "workflow" -> validateWorkflow(p)
                 [] OTHER -> FALSE

Drafted == {k \in FileKeys : files[k] = "draft"}
KeyOf(p) == <<p.place, What(p)>>
TargetOf(key) == IF key[2] = "workflow" THEN FileOf[key[1]] ELSE key

\* One creation at a time; a form that is not valid ignores its submission.
handleFormSubmit(p) ==
    IF validate(p)
    THEN /\ making = None
         /\ Cardinality(Drafted \cup {TargetOf(KeyOf(p))}) <= MaxDrafted
         /\ making' = [kind |-> p.kind, key |-> KeyOf(p), live |-> TRUE]
         /\ page' = [p EXCEPT !.status = "Creating"]
    ELSE /\ page' = p
         /\ UNCHANGED making

Create == /\ Editing
          /\ validate(page)
          /\ handleFormSubmit(page)
          /\ UNCHANGED <<files, handed>>

Choose ==
    /\ OtherFields({"place", "paths"}) /\ ~page.picking
    /\ handleFormSubmit([page EXCEPT !.picking = TRUE])
    /\ UNCHANGED <<files, handed>>

pickLocationResponse(place) ==
    /\ page.picking /\ page.kind # "workflow"
    /\ page' = At([page EXCEPT !.picking = FALSE], place)
    /\ UNCHANGED <<files, making, handed>>

pickFilesResponse ==
    /\ page.picking /\ page.kind = "workflow"
    /\ \E valid \in {page.filled, TRUE} :
           page' = [page EXCEPT !.picking = FALSE, !.filled = valid]
    /\ UNCHANGED <<files, making, handed>>

CancelPick ==
    /\ page.picking
    /\ page' = [page EXCEPT !.picking = FALSE]
    /\ UNCHANGED <<files, making, handed>>

\* Removing the last path unsets the list; removing one of several submits.
handleDeleteManifestPathClick(last) ==
    /\ OtherFields({"paths"})
    /\ handleFormSubmit([page EXCEPT !.filled = @ /\ ~last])
    /\ UNCHANGED <<files, handed>>

\* Case matters to whether a name is taken, and not to the file that it opens.
getExistingFile(p) == {n \in p.existing \cap WorkflowNames : p.place # None /\ LowerOf[n] = LowerOf[p.place]}

handleOpenFile ==
    /\ \/ page.kind = "dockerfile" /\ page.existing # {}
       \/ page.kind = "workflow" /\ getExistingFile(page) # {}
    /\ handleFormSubmit(page)
    /\ UNCHANGED <<files, handed>>

Written == [files EXCEPT ![TargetOf(making.key)] = "draft"]

\* The answer of a creation that has ended; a page that is gone takes none.
Created(kind, existing) ==
    /\ making # None /\ making.kind = kind
    /\ files' = Written
    /\ page' = IF making.live THEN [page EXCEPT !.status = "Created", !.existing = existing]
               ELSE page
    /\ making' = None
    /\ UNCHANGED handed

\* The draft program writes the files, and the answer lists what is there then.
ThereAfter(place, whats) == {w \in whats : Written[<<place, w>>] # "absent"}

createDockerfileResponse ==
    making # None /\ Created("dockerfile", ThereAfter(making.key[1], {"dockerfile"}))

createDeploymentResponse ==
    making # None /\ Created("deployment", ThereAfter(making.key[1], Specs))

\* A workflow's file is a template that is then edited; that an edit could not be
\* made is not looked at.  The answer adds the name to those known at the opening.
createWorkflowResponse ==
    making # None /\ Created("workflow", page.existing \cup {making.key[1]})

\* A creation that fails, before it wrote or after, answers nothing.
CreateFails ==
    /\ making # None
    /\ files' \in {files, Written}
    /\ making' = None
    /\ UNCHANGED <<page, handed>>

-----------------------------------------------------------------------------
(* From one page to the next.                                              *)

Launches(p, hands) == page' = p /\ handed' = hands /\ UNCHANGED <<files, making>>

launchDraftDeploymentFromDockerfile ==
    /\ page.kind = "dockerfile" /\ page.status = "Created"
    /\ Launches(DeploymentPage(page.place, NoSelection), None)

launchDraftWorkflowFromDockerfile ==
    /\ page.kind = "dockerfile" /\ page.status = "Created"
    /\ Launches(WorkflowPage(NoSelection, FALSE), None)

ValueOf(choice) == IF choice = None THEN None ELSE choice.value

handleLaunchDraftWorkflow ==
    /\ page.kind = "deployment" /\ page.status = "Created"
    /\ LET initial == [page.sel EXCEPT !.repo = ValueOf(@), !.ns = ValueOf(@)]
           has == ExistingAt(page.place, Specs \cup {"dockerfile"})
           \* A list of manifests is handed over, an empty one included.
           paths == page.spec = "helm" => "helm" \in has
       IN Launches(WorkflowPage(initial, "dockerfile" \in has /\ paths), initial)

\* The workflow page links to the two other pages, whatever its status.
launchFromWorkflow(place) ==
    /\ page.kind = "workflow"
    /\ \/ Launches(DockerfilePage(place), None)
       \/ Launches(DeploymentPage(place, NoSelection), None)
    /\ making = None

-----------------------------------------------------------------------------
Opens == \/ \E d \in Directories : draftDockerfile(d)
         \/ \E d \in Directories, o \in Openings : draftDeployment(d, o)
         \/ \E o \in Openings : draftWorkflow(o)
         \/ ClosePage

Chooses == \/ \E s \in Subs \cup {None} : setSelectedSubscription(s)
           \/ \E a \in AcrNames \cup {None} : setSelectedAcr(a)
           \/ \E r \in {None} \cup [value : RepoNames, isNew : BOOLEAN] :
                  setSelectedRepositoryName(r)
           \/ \E chosen \in BOOLEAN : setSelectedAcrRepoTag(chosen)
           \/ \E c \in ClusterNames \cup {None} : setSelectedCluster(c)
           \/ \E n \in {None} \cup [value : NsNames, isNew : BOOLEAN] :
                  setSelectedClusterNamespace(n)

FillsIn == \/ \E valid \in BOOLEAN : fillIn(valid)
           \/ \E spec \in Specs : setSelectedDeploymentSpecType(spec)
           \/ \E n \in WorkflowNames \cup {None} : setSelectedWorkflowName(n)
           \/ \E g \in GitRepos \cup {None} : setSelectedGitHubRepo(g)
           \/ \E b \in (UNION {BranchesOf[g] : g \in GitRepos}) \cup {None} :
                  setSelectedBranchName(b)
           \/ \E l \in DOMAIN VersionsOf \cup {None} : setSelectedLanguage(l)
           \/ \E v \in (UNION {VersionsOf[l] : l \in DOMAIN VersionsOf}) \cup {None} :
                  setSelectedLanguageVersion(v)

Keys == {<<"subs">>} \cup ({"acrs", "clusters"} \X Subs)
        \cup ({"repos"} \X Subs \X AcrNames) \cup ({"tags"} \X Subs \X AcrNames \X RepoNames)
        \cup ({"namespaces"} \X Subs \X ClusterNames) \cup ({"branches"} \X GitRepos)

Answers == \/ \E key \in page.asked \cap Keys : Response(key)
           \/ getLanguageVersionInfoResponse

Creates == \/ Create
           \/ Choose
           \/ \E d \in Directories : pickLocationResponse(d)
           \/ pickFilesResponse
           \/ CancelPick
           \/ \E last \in BOOLEAN : handleDeleteManifestPathClick(last)
           \/ handleOpenFile
           \/ createDockerfileResponse
           \/ createDeploymentResponse
           \/ createWorkflowResponse
           \/ CreateFails

Moves == \/ launchDraftDeploymentFromDockerfile
         \/ launchDraftWorkflowFromDockerfile
         \/ handleLaunchDraftWorkflow
         \/ \E d \in Directories : launchFromWorkflow(d)

Next == Opens \/ Chooses \/ FillsIn \/ Answers \/ Creates \/ Moves

Spec == Init /\ [][Next]_vars

-----------------------------------------------------------------------------
Choice(names) == {None} \cup [value : names, isNew : BOOLEAN]

\* The page's selections are of the right kinds and what is loaded was asked
\* for: the shapes that createState and the reducers of the three pages keep.
DraftTypeOK ==
    /\ files \in [FileKeys -> {"absent", "user", "draft"}]
    /\ page.kind \in {"none", "blank", "dockerfile", "deployment", "workflow"}
    /\ page.status \in {"Editing", "Creating", "Created"}
    /\ page.sel.sub \in Subs \cup {None} /\ page.sel.acr \in AcrNames \cup {None}
    /\ page.sel.repo \in Choice(RepoNames) /\ page.sel.ns \in Choice(NsNames)
    /\ page.known \subseteq page.asked
    /\ making = None \/ making.key \in FileKeys

\* What the user had written is never overwritten, whichever way the kind, the place
\* and the form's several submitting buttons were used: except by a workflow of a name
\* that the page took for another, which the file system does not tell from the file's.
UsersFilesKept ==
    [][\A k \in UsersFiles :
           files'[k] = files[k] \/ (making.kind = "workflow" /\ making.key # k)]_vars

Existing(parent, list, item) == IF parent # None /\ item \in list[parent] THEN item ELSE None

\* A workflow page opened from a deployment, which the user left alone and whose
\* lists have all come, in whatever order, selects what was handed over as far as
\* it exists: and says of a repository and of a namespace whether they are new.
HandoffArrives ==
    (handed # None /\ page.kind = "workflow" /\ page.asked \subseteq page.known)
    => LET acr == Existing(handed.sub, AcrsOf, handed.acr)
           cluster == Existing(handed.sub, ClustersOf, handed.cluster)
       IN /\ page.sel.sub = handed.sub
          /\ page.sel.acr = acr
          /\ page.sel.cluster = cluster
          /\ page.sel.repo = IF handed.repo = None THEN None
                             ELSE [value |-> handed.repo,
                                   isNew |-> <<handed.sub, acr, handed.repo>> \notin Repos]
          /\ page.sel.ns = IF handed.ns = None THEN None
                           ELSE [value |-> handed.ns,
                                 isNew |-> <<handed.sub, cluster, handed.ns>> \notin Namespaces]

\* The workflow is set to run on a branch of the repository that is selected,
\* whatever the order of the branch lists and of the choices of a repository.
BranchOfRepo == page.branch # None => page.git # None /\ page.branch \in BranchesOf[page.git]

\* When no version answer is awaited, the image tags of a page whose language and
\* version are chosen are those of that version.
TagsSettle ==
    (page.kind = "dockerfile" /\ page.versionAsks = <<>> /\ page.version # None)
    => page.tags = <<page.lang, page.version>>

\* The registry and the repository on a deployment's page are of the subscription
\* that is selected, whatever was loaded and selected of other subscriptions before
\* and whichever of their lists are still to come.
RegistryOfSubscription ==
    (page.kind = "deployment" /\ page.sel.acr # None)
    => /\ page.sel.sub # None /\ page.sel.acr \in AcrsOf[page.sel.sub]
       /\ ExistingRepo(page) => <<page.sel.sub, page.sel.acr, page.sel.repo.value>> \in Repos

\* What a page has selected lies in what it was selected from.
SelectionsFit == BranchOfRepo /\ RegistryOfSubscription
=============================================================================
