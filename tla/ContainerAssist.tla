----------------------------- MODULE ContainerAssist -----------------------------
(***************************************************************************)
(* Container Assist (commands/aksContainerAssist): generate a Dockerfile   *)
(* and manifests for each module of a project, and a GitHub workflow that  *)
(* builds and deploys them; then offer the files for review.  A flow is    *)
(* one run of the command.  Flows overlap, and share the project's files   *)
(* with the user, who writes, deletes and commits meanwhile.  The setup of *)
(* the workflow's identity is OidcSetup's.                                 *)
(***************************************************************************)
EXTENDS Naturals, FiniteSets

CONSTANTS
    Flows,    \* runs of the command
    Modules,  \* modules of the project, each with a folder of its own
    Picks,    \* bound on what is picked: flow -> sets of actions
    MaxEdits, \* bound on the files the user writes or deletes
    None

ASSUME MaxEditsAssumption == MaxEdits \in Nat
ASSUME FreshNone == None \notin Modules /\ None \notin Flows
ASSUME FreshValues ==
    Modules \cap {"out", "open", "build"} = {} /\ Flows \cap {"absent", "user"} = {}

\* The analysis of a project yields at least one module.
ASSUME ModulesAssumption == Modules # {}

Kinds == {"dockerfile", "manifests", "workflow"}

ASSUME PicksAssumption == Picks \in [Flows -> SUBSET SUBSET Kinds]

VARIABLES
    disk,      \* file -> "absent", "user", or the flow that wrote it
    index,     \* the files staged
    edits,     \* what the user wrote or deleted so far
    pull,      \* the cluster holds AcrPull on the registry
    at,        \* flow -> the step it is at
    told,      \* flow -> how it ended, or "none"
    wants,     \* flow -> the actions picked
    yes,       \* flow -> what else the user agreed to
    cancelled, \* the flows whose generation was cancelled
    found,     \* flow -> the kinds of file its checks found
    todo,      \* flow -> the files it is to generate yet
    wrote,     \* flow -> the files it wrote
    offered,   \* flow -> the files it offers for review
    own,       \* flow -> module -> it has manifests, as scanned for its workflow
    plan       \* flow -> module -> the module whose manifests its job deploys

world == <<disk, index, edits, pull>>
flow == <<at, told, wants, yes, cancelled, found, todo, wrote, offered, own, plan>>
vars == <<world, flow>>

\* The workflow, and the guide to the setup of its identity that is written beside it.
Workflow == <<"workflow", None>>
Guide == <<"guide", None>>
Files == ({"dockerfile", "manifests"} \X Modules) \cup {Workflow, Guide}
OnDisk == {f \in Files : disk[f] # "absent"}
Of(kind) == {f \in Files : f[1] = kind}

\* The kinds a look at the disk may find.  The scans are bounded in depth, skip folders, read
\* the head of a file only, and take any error for nothing found: they may miss what is there.
Findable == {f[1] : f \in OnDisk}

\* plan: not a container of the workflow, not looked at yet, built and not deployed.
Unplanned == {"out", "open", "build"}

Asking == {"model", "cluster", "listing", "namespace", "image", "pull", "assign", "name", "check"}
Reviewing == {"identity", "stage", "staging", "listening", "commit", "pr"}
Steps == Asking \cup Reviewing \cup
    {"start", "actions", "generate", "generated", "collect", "containers", "share", "overwrite",
     "write", "guide"}
Ends == {"failed", "left", "done"}

TypeOK ==
    /\ disk \in [Files -> {"absent", "user"} \cup Flows]
    /\ index \in SUBSET Files /\ edits \in 0 .. MaxEdits /\ pull \in BOOLEAN
    /\ at \in [Flows -> Steps] /\ told \in [Flows -> Ends \cup {"none"}]
    /\ wants \in [Flows -> SUBSET Kinds]
    /\ yes \in [Flows -> SUBSET {"pull", "overwrite"}]
    /\ cancelled \in SUBSET Flows
    /\ found \in [Flows -> SUBSET (Kinds \cup {"guide"})] /\ todo \in [Flows -> SUBSET Files]
    /\ wrote \in [Flows -> SUBSET Files] /\ offered \in [Flows -> SUBSET Files]
    /\ own \in [Flows -> SUBSET Modules]
    /\ plan \in [Flows -> [Modules -> Modules \cup Unplanned]]

NoPlan == [m \in Modules |-> "out"]
Nothing == [w \in Flows |-> {}]

Init ==
    /\ disk \in [Files -> {"absent", "user"}] /\ pull \in BOOLEAN
    /\ index = {} /\ edits = 0
    /\ at = [w \in Flows |-> "start"] /\ told = [w \in Flows |-> "none"]
    /\ wants = Nothing /\ yes = Nothing /\ cancelled = {}
    /\ found = Nothing /\ todo = Nothing /\ wrote = Nothing /\ offered = Nothing
    /\ own = Nothing /\ plan = [w \in Flows |-> NoPlan]

At(w, p) == told[w] = "none" /\ at[w] = p
Go(w, p, q) == At(w, p) /\ at' = [at EXCEPT ![w] = q] /\ UNCHANGED told
End(w, p, how) == At(w, p) /\ told' = [told EXCEPT ![w] = how] /\ UNCHANGED at
\* A prompt that the user leaves, after the confirmation, or a call that fails.
Quit(w, p) == End(w, p, "left") \/ End(w, p, "failed")

asked == <<wants, yes>>
made == <<cancelled, found, todo, wrote, offered>>
config == <<own, plan>>

-----------------------------------------------------------------------------
(* What to do, and where.                                                  *)

\* The target, the workspace folder, the availability and the project root.
Start(w) ==
    /\ Go(w, "start", "actions") \/ Quit(w, "start")
    /\ UNCHANGED <<world, asked, made, config>>

\* After the actions and after the model: Azure is asked about for the manifests and the workflow.
ContextStep(picked) ==
    IF picked \cap {"manifests", "workflow"} # {} THEN "cluster" ELSE "check"

PickActions(w) ==
    /\ \/ \E picked \in Picks[w] \ {{}} :
             /\ Go(w, "actions", IF picked = {"workflow"} THEN "cluster" ELSE "model")
             /\ wants' = [wants EXCEPT ![w] = picked]
       \/ End(w, "actions", "left") /\ UNCHANGED wants
    /\ UNCHANGED <<world, yes, made, config>>

PickModel(w) ==
    /\ Go(w, "model", ContextStep(wants[w])) \/ Quit(w, "model")
    /\ UNCHANGED <<world, asked, made, config>>

\* The sign-in, the subscription and the cluster, unless the command came from the tree.
PickCluster(w) ==
    /\ Go(w, "cluster", "listing") \/ Quit(w, "cluster")
    /\ UNCHANGED <<world, asked, made, config>>

\* A user who may not list the namespaces is offered the managed ones, if these can be listed.
\* A failure ends nothing: the picker that follows lists them again.
ListNamespaces(w) ==
    /\ Go(w, "listing", "namespace") \/ Go(w, "listing", "listing")
    /\ UNCHANGED <<world, asked, made, config>>

PickNamespace(w) ==
    /\ Go(w, "namespace", "image") \/ Quit(w, "namespace")
    /\ UNCHANGED <<world, asked, made, config>>

AfterImage(w) ==
    IF "workflow" \in wants[w] THEN "name" ELSE "check"

\* getAttachedAcrs: any lookup that fails hides that the registry is attached.
AttachedListed == {pull, FALSE}

\* A workflow needs a registry; manifests alone may name an image that exists.  Where a registry
\* is listed as attached only such are listed, and they need no role.
PickImage(w) ==
    /\ \/ \E attached \in AttachedListed : Go(w, "image", IF attached THEN AfterImage(w) ELSE "pull")
       \/ "workflow" \notin wants[w] /\ Go(w, "image", AfterImage(w))
       \/ Quit(w, "image")
    /\ UNCHANGED <<world, asked, made, config>>

\* ensureAcrPullForKubelet: the role is there, cannot be looked up, or is offered.
OfferPull(w) ==
    /\ \/ Go(w, "pull", AfterImage(w)) /\ UNCHANGED yes
       \/ ~pull /\ Go(w, "pull", "assign") /\ yes' = [yes EXCEPT ![w] = @ \cup {"pull"}]
    /\ UNCHANGED <<world, wants, made, config>>

AssignPull(w) ==
    /\ Go(w, "assign", AfterImage(w))
    /\ pull' \in {pull, TRUE}
    /\ UNCHANGED <<disk, index, edits, asked, made, config>>

\* A workflow with nothing to generate for it goes straight to its configuration.
NameWorkflow(w) ==
    /\ \/ Go(w, "name", IF wants[w] = {"workflow"} THEN "collect" ELSE "check")
       \/ End(w, "name", "left")
    /\ UNCHANGED <<world, asked, made, config>>

-----------------------------------------------------------------------------
(* Dockerfiles and manifests.                                              *)

\* Mutant of Preserved: the Dockerfiles are looked at only where manifests are wanted too.
PreservedTogether(w, kinds) ==
    IF wants[w] \subseteq {"dockerfile", "workflow"} THEN {}
    ELSE kinds \cap (wants[w] \ {"workflow"})

\* The kinds that are not generated, for any module, because a file of theirs was found.
Preserved(w, kinds) == kinds \cap (wants[w] \ {"workflow"})

\* service.generateDeploymentFiles: what exists is looked up once, then the project analyzed.
CheckFiles(w) ==
    \E kinds \in SUBSET (Findable \cap {"dockerfile", "manifests"}) :
        LET missing == (wants[w] \ {"workflow"}) \ Preserved(w, kinds) IN
        /\ \/ /\ Go(w, "check", IF missing = {} THEN "generated" ELSE "generate")
              /\ todo' = [todo EXCEPT ![w] = UNION {Of(k) : k \in missing}]
           \/ missing # {} /\ End(w, "check", "failed") /\ UNCHANGED todo
        /\ found' = [found EXCEPT ![w] = kinds]
        /\ UNCHANGED <<world, asked, cancelled, wrote, offered, config>>

Writes(w, f) ==
    /\ disk' = [disk EXCEPT ![f] = w]
    /\ wrote' = [wrote EXCEPT ![w] = @ \cup {f}]

\* The Dockerfiles come first, of one module after the other.
NextFiles(w) ==
    IF todo[w] \cap Of("dockerfile") # {} THEN todo[w] \cap Of("dockerfile") ELSE todo[w]

GenerateFile(w, f) ==
    /\ Writes(w, f) /\ todo' = [todo EXCEPT ![w] = @ \ {f}]
    /\ Go(w, "generate", "generate")
    /\ UNCHANGED <<index, edits, pull, asked, cancelled, found, offered, config>>

GenerateDockerfile(w) == \E f \in NextFiles(w) \cap Of("dockerfile") : GenerateFile(w, f)
GenerateManifests(w) == \E f \in NextFiles(w) \cap Of("manifests") : GenerateFile(w, f)

\* Mutant of Generated: a cancelled generation is taken for one that is done.
GeneratedAnyway(w) ==
    /\ \/ todo[w] = {} /\ Go(w, "generate", "generated")
       \/ w \in cancelled /\ Go(w, "generate", "generated")
       \/ w \notin cancelled /\ todo[w] # {} /\ End(w, "generate", "failed")
    /\ UNCHANGED <<world, asked, made, config>>

\* A file fails, which ends the generation; or all are done; or the user had cancelled, and
\* whatever was written is left where it is.
Generated(w) ==
    /\ \/ w \notin cancelled /\ todo[w] = {} /\ Go(w, "generate", "generated")
       \/ w \notin cancelled /\ todo[w] # {} /\ End(w, "generate", "failed")
       \/ w \in cancelled /\ End(w, "generate", "left")
    /\ UNCHANGED <<world, asked, made, config>>

Cancel(w) ==
    /\ At(w, "generate") /\ cancelled' = cancelled \cup {w}
    /\ UNCHANGED <<world, at, told, asked, found, todo, wrote, offered, config>>

\* Mutant of Offer: what the deployment generated is not passed on.
OfferLast(w, files) == offered' = [offered EXCEPT ![w] = files \cap Of("workflow")]

Offer(w, files) == offered' = [offered EXCEPT ![w] = files]

\* Without a workflow the files are offered now.  A workflow for no new file needs both kinds,
\* as another scan finds them.
AfterGeneration(w) ==
    /\ \/ /\ "workflow" \notin wants[w] /\ wrote[w] # {}
          /\ Go(w, "generated", "stage") /\ Offer(w, wrote[w])
       \/ /\ "workflow" \notin wants[w] /\ wrote[w] = {}
          /\ End(w, "generated", "done") /\ UNCHANGED offered
       \/ /\ "workflow" \in wants[w] /\ UNCHANGED offered
          /\ \/ /\ wrote[w] # {} \/ {"dockerfile", "manifests"} \subseteq Findable
                /\ Go(w, "generated", "collect")
             \/ wrote[w] = {} /\ End(w, "generated", "failed")
    /\ UNCHANGED <<world, asked, cancelled, found, todo, wrote, config>>

-----------------------------------------------------------------------------
(* The workflow.                                                           *)

Detected == {m \in Modules : <<"dockerfile", m>> \in OnDisk}
WithManifests == {m \in Modules : <<"manifests", m>> \in OnDisk}

\* One container: its Dockerfile, and manifests generated, detected or browsed for.
CollectSingle(w) ==
    /\ Go(w, "collect", "overwrite")
    /\ \E m \in Detected, n \in Modules :
          plan' = [plan EXCEPT ![w] = [NoPlan EXCEPT ![m] = n]]
    /\ UNCHANGED own

\* Several: the Dockerfiles selected are scanned for manifests beside them.
CollectMulti(w) ==
    /\ Cardinality(Detected) >= 2 /\ Go(w, "collect", "containers")
    /\ \E scanned \in SUBSET WithManifests : own' = [own EXCEPT ![w] = scanned]
    /\ \E picked \in SUBSET Detected \ {{}} :
          plan' = [plan EXCEPT ![w] =
                      [m \in Modules |-> IF m \in picked THEN "open" ELSE "out"]]

Collect(w) ==
    /\ \/ CollectSingle(w)
       \/ CollectMulti(w)
       \/ Quit(w, "collect") /\ UNCHANGED config
    /\ UNCHANGED <<world, asked, made>>

Open(w) == {m \in Modules : plan[w][m] = "open"}
Planned(w) == {m \in Modules : plan[w][m] \notin Unplanned}

\* A container with manifests of its own deploys them.  For another, the user browses to some,
\* or skips it.  The first that is settled may be offered to the rest that have none.
Settle(w) ==
    /\ \E m \in Open(w), n \in Modules \cup {"build"} :
          /\ m \in own[w] => n = m
          /\ plan' = [plan EXCEPT ![w][m] = n]
          /\ Go(w, "containers",
                IF n # "build" /\ Planned(w) = {} /\ Open(w) \ ({m} \cup own[w]) # {}
                THEN "share" ELSE "containers")
    /\ UNCHANGED <<world, asked, made, own>>

Sharing(w) == Open(w) \ own[w]

\* "Apply to all remaining services", "Choose individually", or cancel.
Share(w) ==
    /\ \/ /\ Go(w, "share", "containers")
          /\ \E n \in {plan[w][m] : m \in Planned(w)} :
                plan' = [plan EXCEPT ![w] =
                            [m \in Modules |-> IF m \in Sharing(w) THEN n ELSE plan[w][m]]]
       \/ Go(w, "share", "containers") /\ UNCHANGED plan
       \/ End(w, "share", "left") /\ UNCHANGED plan
    /\ UNCHANGED <<world, asked, made, own>>

\* Mutant of Settled: a container with manifests of its own needs no settling.
SettledButOwn(w) ==
    /\ \/ Open(w) \subseteq own[w] /\ Go(w, "containers", "overwrite")
       \/ Open(w) \ own[w] # {} /\ End(w, "containers", "left")
    /\ UNCHANGED <<world, asked, made, config>>

Settled(w) ==
    /\ \/ Open(w) = {} /\ Go(w, "containers", "overwrite")
       \/ Open(w) \ own[w] # {} /\ End(w, "containers", "left")
    /\ UNCHANGED <<world, asked, made, config>>

MayOverwrite(w) == yes' = [yes EXCEPT ![w] = @ \cup {"overwrite"}]

\* doGenerateGitHubWorkflow: whether the file exists, as far as one can tell, and whether to
\* overwrite it.
CheckWorkflow(w) ==
    /\ \/ /\ found' = [found EXCEPT ![w] = @ \ {"workflow"}]
          /\ Go(w, "overwrite", "write") /\ UNCHANGED yes
       \/ /\ Workflow \in OnDisk /\ found' = [found EXCEPT ![w] = @ \cup {"workflow"}]
          /\ \/ Go(w, "overwrite", "write") /\ MayOverwrite(w)
             \/ End(w, "overwrite", "left") /\ UNCHANGED yes
    /\ UNCHANGED <<world, wants, cancelled, todo, wrote, offered, config>>

\* writeWorkflowFile: the workflow first.
WriteWorkflow(w) ==
    /\ \/ Go(w, "write", "guide") /\ Writes(w, Workflow)
       \/ End(w, "write", "failed") /\ UNCHANGED <<disk, wrote>>
    /\ UNCHANGED <<index, edits, pull, asked, cancelled, found, todo, offered, config>>

\* Mutant of WriteGuide: the guide is written whether there is one or not.
WriteGuideAgain(w) ==
    /\ \/ Go(w, "guide", "identity") /\ Writes(w, Guide) /\ Offer(w, wrote[w])
       \/ End(w, "guide", "failed") /\ UNCHANGED <<disk, wrote, offered>>
    /\ found' = [found EXCEPT ![w] = @ \cup (Findable \cap {"guide"})]
    /\ UNCHANGED <<index, edits, pull, asked, cancelled, todo, config>>

\* Then the guide, unless one is found: nobody is asked about it and it is not offered.  The
\* flow that cannot write it ends as failed, and the workflow stays where it was written.
WriteGuide(w) ==
    /\ \/ /\ Go(w, "guide", "identity") /\ Offer(w, wrote[w])
          /\ \/ Guide \in OnDisk /\ found' = [found EXCEPT ![w] = @ \cup {"guide"}]
                                 /\ UNCHANGED <<disk, wrote>>
             \/ Writes(w, Guide) /\ UNCHANGED found
       \/ End(w, "guide", "failed") /\ UNCHANGED <<disk, wrote, offered, found>>
    /\ UNCHANGED <<index, edits, pull, asked, cancelled, todo, config>>

-----------------------------------------------------------------------------
(* The offer to review.                                                    *)

\* promptOIDCSetup: set up, which never fails the flow, or skip.
PromptIdentity(w) ==
    /\ Go(w, "identity", "stage")
    /\ UNCHANGED <<world, asked, made, config>>

\* Stage & Review, at once or after the files were opened.
Stage(w) ==
    /\ Go(w, "stage", "staging") \/ End(w, "stage", "left")
    /\ UNCHANGED <<world, asked, made, config>>

\* Those deleted since are skipped.
StageFiles(w) ==
    /\ \/ /\ Go(w, "staging", "listening")
          /\ offered[w] \cap OnDisk # {}
          /\ index' = index \cup (offered[w] \cap OnDisk)
       \/ End(w, "staging", "failed") /\ UNCHANGED index
    /\ UNCHANGED <<disk, edits, pull, asked, made, config>>

\* After the commit: a pull request, if the user wants one and may.
OfferPullRequest(w) ==
    /\ Go(w, "commit", "pr") \/ End(w, "commit", "done")
    /\ UNCHANGED <<world, asked, made, config>>

CreatePullRequest(w) ==
    /\ End(w, "pr", "done") \/ End(w, "pr", "failed")
    /\ UNCHANGED <<world, asked, made, config>>

\* The user commits what is staged: every flow that listens takes it for its own.
Commit ==
    /\ index # {} /\ index' = {}
    /\ at' = [w \in Flows |-> IF At(w, "listening") THEN "commit" ELSE at[w]]
    /\ UNCHANGED <<disk, edits, pull, told, asked, made, config>>

Edit ==
    /\ edits < MaxEdits /\ edits' = edits + 1
    /\ \E f \in Files :
          \/ disk' = [disk EXCEPT ![f] = "user"] /\ UNCHANGED index
          \/ disk' = [disk EXCEPT ![f] = "absent"] /\ index' = index \ {f}
    /\ UNCHANGED <<pull, flow>>

Next ==
    \/ \E w \in Flows :
        \/ Start(w) \/ PickActions(w) \/ PickModel(w)
        \/ PickCluster(w) \/ ListNamespaces(w) \/ PickNamespace(w) \/ PickImage(w)
        \/ OfferPull(w) \/ AssignPull(w) \/ NameWorkflow(w)
        \/ CheckFiles(w) \/ GenerateDockerfile(w) \/ GenerateManifests(w)
        \/ Generated(w) \/ Cancel(w) \/ AfterGeneration(w)
        \/ Collect(w) \/ Settle(w) \/ Share(w) \/ Settled(w)
        \/ CheckWorkflow(w) \/ WriteWorkflow(w) \/ WriteGuide(w)
        \/ PromptIdentity(w) \/ Stage(w) \/ StageFiles(w) \/ OfferPullRequest(w)
        \/ CreatePullRequest(w)
    \/ Commit \/ Edit

Spec == Init /\ [][Next]_vars

-----------------------------------------------------------------------------

\* What a flow finds it keeps, to the end and for every module: it overwrites a file of the user
\* only if its look found no file of that kind, or if it is the workflow and the user said to
\* overwrite it.  No promise is made of files that the look misses, or that come after it:
\* those are overwritten, and nobody is asked.
UsersFilesKept ==
    [][\A f \in Files : disk[f] = "user" /\ disk'[f] \in Flows =>
          LET w == disk'[f] IN f[1] \notin found'[w] \/ (f = Workflow /\ "overwrite" \in yes[w])]_vars

\* A flow offers for review exactly what it wrote, with the Dockerfiles and manifests of the
\* actions picked that were not preserved, and stages nothing of another flow's.  The guide
\* alone is written and not offered.
OfferedIsWritten ==
    \A w \in Flows :
        at[w] \in Reviewing =>
            /\ offered[w] = wrote[w] \ {Guide}
            /\ "workflow" \in wants[w] => Workflow \in offered[w]

\* In a workflow of several containers, one that has manifests beside its Dockerfile deploys
\* them, whatever was shared with the others, and no other is left undecided.
OwnManifestsWin ==
    \A w \in Flows :
        /\ \A m \in own[w] : plan[w][m] \in {"out", "open", m}
        /\ at[w] \in {"overwrite", "write", "guide"} => Open(w) = {}

\* The promise: each kind is written for every module, or for none.  The guide counts as part
\* of the workflow that was picked.
Changes == Kinds \cup {"guide", "pull"}
KindOf == [c \in Changes |-> IF c = "guide" THEN "workflow" ELSE c]

\* Not picked, or found on disk and preserved; the role is only ever offered.
Excused(w) ==
    {"pull"}
        \cup (IF at[w] \in {"start", "actions"} THEN {} ELSE {c \in Changes : KindOf[c] \notin wants[w]})
        \cup (IF at[w] \in Asking \cup {"start", "actions"} THEN {} ELSE Preserved(w, found[w]))
        \cup (found[w] \cap {"guide"})

Promise ==
    INSTANCE ConsentedChanges WITH
        Commands <- Flows,
        agreed <- [w \in Flows |-> wants[w] \cup yes[w]],
        made <- [w \in Flows |-> {k \in Kinds \cup {"guide"} : Of(k) \subseteq wrote[w]}],
        excused <- [w \in Flows |-> Excused(w)],
        outcome <- [w \in Flows |->
            IF at[w] \in Reviewing THEN "complete"
            ELSE IF told[w] = "none" THEN "open" ELSE "stopped"]

\* The flows keep the promise of ConsentedChanges: what is offered is all of what was asked.
KeepsPromise == Promise!Spec
=============================================================================
