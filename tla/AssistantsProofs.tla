--------------------------- MODULE AssistantsProofs ---------------------------
(***************************************************************************)
(* What holds of the assistants that prepare a project for GitHub Actions, *)
(* for any number of modules, flows, setups, repositories and identities.  *)
(***************************************************************************)
EXTENDS AssistantsMC, TLAPS

(* What a flow has come to, by the step it is at.                          *)
NotAsked == {"start", "actions"}
NotChecked == NotAsked \cup Asking
NotConfigured == NotChecked \cup {"generate", "generated", "collect"}
OfWorkflow == {"name", "collect", "containers", "share", "overwrite", "write", "guide",
               "identity"}

(* Every file of a kind that is not preserved is written, or is to be.     *)
Generates(w) ==
    \A k \in wants[w] \ ({"workflow"} \cup Preserved(w, found[w])) : Of(k) \subseteq wrote[w] \cup todo[w]

(* The guide comes last, and there it is written or found.                 *)
GuideOK(w) ==
    /\ at[w] \notin Reviewing => Guide \notin wrote[w] /\ "guide" \notin found[w]
    /\ at[w] = "guide" => Workflow \in wrote[w]
    /\ at[w] \in Reviewing /\ "workflow" \in wants[w] => Guide \in wrote[w] \/ "guide" \in found[w]

FlowOK(w) ==
    /\ at[w] \in NotAsked => wants[w] = {}
    /\ at[w] \in OfWorkflow => "workflow" \in wants[w]
    /\ at[w] \in NotConfigured => own[w] = {}
    /\ at[w] # "generate" => todo[w] = {}
    /\ \A f \in todo[w] : f[1] \in wants[w] \ {"workflow"} /\ f[1] \notin found[w]
    /\ at[w] \notin NotChecked => Generates(w)
    /\ at[w] = "write" => "workflow" \notin found[w] \/ "overwrite" \in yes[w]
    /\ GuideOK(w)
    /\ at[w] \in Reviewing =>
        /\ offered[w] = wrote[w] \ {Guide}
        /\ "workflow" \in wants[w] => Workflow \in offered[w]
    /\ \A m \in own[w] : plan[w][m] \in {"out", "open", m}
    /\ at[w] \in {"overwrite", "write", "guide"} => Open(w) = {}

FlowInv == TypeOK /\ \A w \in Flows : FlowOK(w)

-----------------------------------------------------------------------------
(* The setup of the identity                                               *)

ManagedTargets == {"managed", "managedAcr"}

(* What a setup has still to do, by the step it is at.                     *)
LeftAt(s) ==
    LET c == targets[s]
        rest == {"identity", "clusterUser"} \cup Together(c)
    IN
    /\ setupAt[s] \in {"repo", "config", "confirm", "identity"} => left[s] = Plan(c)
    /\ setupAt[s] = "user" => c \in {"user", "userAcr"} /\ left[s] = Plan(c) \ {"identity"}
    /\ setupAt[s] = "roles" =>
        /\ c \in {"userAcr", "managedAcr"}
        /\ left[s] \subseteq Plan(c) \ {"identity", "clusterUser"}
        /\ Plan(c) \ rest \subseteq left[s]
    /\ setupAt[s] \in {"probe", "writer"} => c = "userAcr" /\ left[s] = Plan(c) \ rest
    /\ setupAt[s] = "trust" => left[s] = Plan(c) \ ({"identity"} \cup Roles)
    /\ setupAt[s] \in {"read", "annotate"} =>
        c \in ManagedTargets /\ left[s] = {"annotation"} \cup Secrets
    /\ setupAt[s] \in {"results", "access", "key", "clientId"} => left[s] = Secrets
    /\ setupAt[s] = "tenantId" => left[s] = Secrets \ {"clientId"}
    /\ setupAt[s] = "subscriptionId" =>
        left[s] = IF setupTold[s] = "none" THEN {"subscriptionId"} ELSE {}

(* Who it is doing it for, and with whose consent.                         *)
SetupKnows(s) ==
    /\ setupAt[s] # "repo" => repoInfo[s] \in SetupRepos
    /\ setupAt[s] \notin {"repo", "config"} => id[s] \in Identities
    /\ setupAt[s] \notin {"repo", "config", "confirm"} => "setup" \in agreedTo[s]
    /\ setupAt[s] \in {"access", "key"} \cup Secrets => "secrets" \in agreedTo[s]
    /\ left[s] \cap (failed[s] \cup skipped[s]) = {}
    /\ "trust" \notin failed[s] /\ skipped[s] \subseteq {"clusterWriter"}
    /\ failed[s] \cup skipped[s] \subseteq Plan(targets[s])
    /\ setupTold[s] = "ready" => left[s] = {} /\ failed[s] \cap Secrets = {}

(* Each change that is neither left, failed nor skipped was made, unless   *)
(* another setup has been there.                                           *)
RolesMade(s) ==
    \A r \in RolesFor(targets[s]) :
        r \in left[s] \cup failed[s] \cup skipped[s] \/ <<id[s], r>> \in holds

SecretsMade(s) ==
    \A n \in Secrets :
        n \in left[s] \cup failed[s] \cup skipped[s]
        \/ secret[repoInfo[s]][n] = id[s]
        \/ \E t \in Setups \ {s} : HasSet(t) /\ repoInfo[t] = repoInfo[s] /\ id[t] # id[s]

TrustMade(s) ==
    \/ "trust" \in left[s]
    \/ trusts[id[s]] = repoInfo[s]
    \/ \E t \in Setups \ {s} : HasTrusted(t) /\ id[t] = id[s] /\ repoInfo[t] # repoInfo[s]

SetupInv ==
    /\ OidcTypeOK
    /\ \A s \in Setups :
        LeftAt(s) /\ SetupKnows(s) /\ RolesMade(s) /\ SecretsMade(s) /\ TrustMade(s)

-----------------------------------------------------------------------------
(* Container Assist: the steps of a flow                                   *)

Same(v) ==
    /\ at'[v] = at[v] /\ wants'[v] = wants[v] /\ yes'[v] = yes[v]
    /\ found'[v] = found[v] /\ todo'[v] = todo[v] /\ wrote'[v] = wrote[v]
    /\ offered'[v] = offered[v] /\ own'[v] = own[v] /\ plan'[v] = plan[v]

LEMMA SameKeeps ==
    ASSUME NEW v \in Flows, FlowOK(v), Same(v)
    PROVE  FlowOK(v)'
BY DEF Same, FlowOK, GuideOK, Generates, Preserved, Open

(* The step of flow w leaves the others alone and has its own invariant.   *)
Keeps(w) == TypeOK' /\ FlowOK(w)' /\ \A v \in Flows \ {w} : Same(v)

LEMMA KeepsAll ==
    ASSUME FlowInv, NEW w \in Flows, Keeps(w)
    PROVE  FlowInv'
BY SameKeeps DEF FlowInv, Keeps

(* A step that moves flow w on, and may add to its agreements, but changes *)
(* none of its files.                                                      *)
Quiet(w) ==
    /\ UNCHANGED <<found, todo, wrote, offered, own, plan>>
    /\ wants'[w] = wants[w] /\ yes[w] \subseteq yes'[w]

(* Where such a step may lead.                                             *)
Fits(w, p, q) ==
    /\ q \in NotAsked => p \in NotAsked
    /\ q \in OfWorkflow => "workflow" \in wants[w]
    /\ q \in NotConfigured => p \in NotConfigured
    /\ q # "generate" => p # "generate" \/ todo[w] = {}
    /\ q \notin NotChecked => p \notin NotChecked \/ Generates(w)
    /\ q \in {"write", "guide"} => p = q
    /\ q \in Reviewing <=> p \in Reviewing
    /\ q \in {"overwrite", "write", "guide"} => p = q \/ Open(w) = {}

LEMMA QuietKeeps ==
    ASSUME NEW w \in Flows, FlowOK(w), Quiet(w), Fits(w, at[w], at'[w])
    PROVE  FlowOK(w)'
<1>1. Generates(w)' <=> Generates(w)
  BY DEF Quiet, Generates, Preserved
<1>2. Open(w)' = Open(w)
  BY DEF Quiet, Open
<1>3. GuideOK(w)'
  BY DEF Quiet, Fits, FlowOK, GuideOK
<1> QED BY <1>1, <1>2, <1>3 DEF Quiet, Fits, FlowOK


(* Steps that only ask, or choose the way.                                 *)
LEMMA AskingStep ==
    ASSUME FlowInv, NEW w \in Flows,
           \/ Start(w) \/ PickModel(w) \/ PickCluster(w) \/ ListNamespaces(w)
           \/ PickNamespace(w) \/ PickImage(w) \/ OfferPull(w) \/ AssignPull(w)
           \/ NameWorkflow(w)
    PROVE  Keeps(w)
<1> USE DEF FlowInv, TypeOK, world, asked, made, config, Go, Quit, End, At
<1>1. CASE Start(w)
  <2>1. TypeOK'
    BY <1>1 DEF Start, Steps, Asking, Reviewing, Ends
  <2>2. \A v \in Flows \ {w} : Same(v)
    BY <1>1 DEF Start, Same
  <2>3. Quiet(w) /\ Fits(w, at[w], at'[w])
    BY <1>1 DEF Start, Quiet, Fits, FlowOK, NotAsked, NotChecked, NotConfigured,
       OfWorkflow, Asking, Reviewing
  <2> QED BY <2>1, <2>2, <2>3, QuietKeeps DEF Keeps
<1>2. CASE PickModel(w)
  <2>1. TypeOK'
    BY <1>2 DEF PickModel, ContextStep, Steps, Asking, Reviewing, Ends
  <2>2. \A v \in Flows \ {w} : Same(v)
    BY <1>2 DEF PickModel, ContextStep, Same
  <2>3. Quiet(w) /\ Fits(w, at[w], at'[w])
    BY <1>2 DEF PickModel, ContextStep, Quiet, Fits, FlowOK, NotAsked, NotChecked, NotConfigured,
       OfWorkflow, Asking, Reviewing
  <2> QED BY <2>1, <2>2, <2>3, QuietKeeps DEF Keeps
<1>3. CASE PickCluster(w)
  <2>1. TypeOK'
    BY <1>3 DEF PickCluster, Steps, Asking, Reviewing, Ends
  <2>2. \A v \in Flows \ {w} : Same(v)
    BY <1>3 DEF PickCluster, Same
  <2>3. Quiet(w) /\ Fits(w, at[w], at'[w])
    BY <1>3 DEF PickCluster, Quiet, Fits, FlowOK, NotAsked, NotChecked, NotConfigured,
       OfWorkflow, Asking, Reviewing
  <2> QED BY <2>1, <2>2, <2>3, QuietKeeps DEF Keeps
<1>4. CASE ListNamespaces(w)
  <2>1. TypeOK'
    BY <1>4 DEF ListNamespaces, Steps, Asking, Reviewing, Ends
  <2>2. \A v \in Flows \ {w} : Same(v)
    BY <1>4 DEF ListNamespaces, Same
  <2>3. Quiet(w) /\ Fits(w, at[w], at'[w])
    BY <1>4 DEF ListNamespaces, Quiet, Fits, FlowOK, NotAsked, NotChecked, NotConfigured,
       OfWorkflow, Asking, Reviewing
  <2> QED BY <2>1, <2>2, <2>3, QuietKeeps DEF Keeps
<1>5. CASE PickNamespace(w)
  <2>1. TypeOK'
    BY <1>5 DEF PickNamespace, Steps, Asking, Reviewing, Ends
  <2>2. \A v \in Flows \ {w} : Same(v)
    BY <1>5 DEF PickNamespace, Same
  <2>3. Quiet(w) /\ Fits(w, at[w], at'[w])
    BY <1>5 DEF PickNamespace, Quiet, Fits, FlowOK, NotAsked, NotChecked, NotConfigured,
       OfWorkflow, Asking, Reviewing
  <2> QED BY <2>1, <2>2, <2>3, QuietKeeps DEF Keeps
<1>6. CASE PickImage(w)
  <2>1. TypeOK'
    BY <1>6 DEF PickImage, AfterImage, Steps, Asking, Reviewing, Ends
  <2>2. \A v \in Flows \ {w} : Same(v)
    BY <1>6 DEF PickImage, AfterImage, Same
  <2>3. Quiet(w) /\ Fits(w, at[w], at'[w])
    BY <1>6 DEF PickImage, AfterImage, Quiet, Fits, FlowOK, NotAsked, NotChecked, NotConfigured,
       OfWorkflow, Asking, Reviewing
  <2> QED BY <2>1, <2>2, <2>3, QuietKeeps DEF Keeps
<1>7. CASE OfferPull(w)
  <2>0. yes' \in [Flows -> SUBSET {"pull", "overwrite"}]
    BY <1>7 DEF OfferPull
  <2>1. TypeOK'
    <3>1. at' \in [Flows -> Steps] /\ told' = told
      BY <1>7 DEF OfferPull, AfterImage, Steps, Asking
    <3> QED BY <1>7, <2>0, <3>1 DEF OfferPull
  <2>2. \A v \in Flows \ {w} : Same(v)
    BY <1>7 DEF OfferPull, AfterImage, Same
  <2>3. Quiet(w) /\ Fits(w, at[w], at'[w])
    BY <1>7 DEF OfferPull, AfterImage, Quiet, Fits, FlowOK, NotAsked, NotChecked, NotConfigured,
       OfWorkflow, Asking, Reviewing
  <2> QED BY <2>1, <2>2, <2>3, QuietKeeps DEF Keeps
<1>8. CASE AssignPull(w)
  <2>1. TypeOK'
    BY <1>8 DEF AssignPull, AfterImage, Steps, Asking, Reviewing, Ends
  <2>2. \A v \in Flows \ {w} : Same(v)
    BY <1>8 DEF AssignPull, AfterImage, Same
  <2>3. Quiet(w) /\ Fits(w, at[w], at'[w])
    BY <1>8 DEF AssignPull, AfterImage, Quiet, Fits, FlowOK, NotAsked, NotChecked, NotConfigured,
       OfWorkflow, Asking, Reviewing
  <2> QED BY <2>1, <2>2, <2>3, QuietKeeps DEF Keeps
<1>9. CASE NameWorkflow(w)
  <2>1. TypeOK'
    BY <1>9 DEF NameWorkflow, Generates, Steps, Asking, Reviewing, Ends
  <2>2. \A v \in Flows \ {w} : Same(v)
    BY <1>9 DEF NameWorkflow, Generates, Same
  <2>3. Quiet(w) /\ Fits(w, at[w], at'[w])
    BY <1>9 DEF NameWorkflow, Generates, Quiet, Fits, FlowOK, NotAsked, NotChecked, NotConfigured,
       OfWorkflow, Asking, Reviewing
  <2> QED BY <2>1, <2>2, <2>3, QuietKeeps DEF Keeps
<1> QED BY <1>1, <1>2, <1>3, <1>4, <1>5, <1>6, <1>7, <1>8, <1>9

(* Steps that wait for what goes on to end.                                *)
LEMMA WaitingStep ==
    ASSUME FlowInv, NEW w \in Flows,
           \/ Generated(w) \/ Cancel(w) \/ Settled(w)
    PROVE  Keeps(w)
<1> USE DEF FlowInv, TypeOK, world, asked, made, config, Go, Quit, End, At
<1>1. CASE Generated(w)
  <2>1. TypeOK'
    BY <1>1 DEF Generated, Steps, Asking, Reviewing, Ends
  <2>2. \A v \in Flows \ {w} : Same(v)
    BY <1>1 DEF Generated, Same
  <2>3. Quiet(w) /\ Fits(w, at[w], at'[w])
    BY <1>1 DEF Generated, Quiet, Fits, FlowOK, NotAsked, NotChecked, NotConfigured,
       OfWorkflow, Asking, Reviewing
  <2> QED BY <2>1, <2>2, <2>3, QuietKeeps DEF Keeps
<1>2. CASE Cancel(w)
  <2>1. TypeOK'
    BY <1>2 DEF Cancel, Steps, Asking, Reviewing, Ends
  <2>2. \A v \in Flows \ {w} : Same(v)
    BY <1>2 DEF Cancel, Same
  <2>3. Quiet(w) /\ Fits(w, at[w], at'[w])
    BY <1>2 DEF Cancel, Quiet, Fits, FlowOK, NotAsked, NotChecked, NotConfigured,
       OfWorkflow, Asking, Reviewing
  <2> QED BY <2>1, <2>2, <2>3, QuietKeeps DEF Keeps
<1>3. CASE Settled(w)
  <2>1. TypeOK'
    BY <1>3 DEF Settled, Steps, Asking, Reviewing, Ends
  <2>2. \A v \in Flows \ {w} : Same(v)
    BY <1>3 DEF Settled, Same
  <2>3. Quiet(w) /\ Fits(w, at[w], at'[w])
    BY <1>3 DEF Settled, Quiet, Fits, FlowOK, NotAsked, NotChecked, NotConfigured,
       OfWorkflow, Asking, Reviewing
  <2> QED BY <2>1, <2>2, <2>3, QuietKeeps DEF Keeps
<1> QED BY <1>1, <1>2, <1>3

(* Steps of the review.                                                    *)
LEMMA ReviewStep ==
    ASSUME FlowInv, NEW w \in Flows,
           \/ PromptIdentity(w) \/ Stage(w) \/ StageFiles(w) \/ OfferPullRequest(w)
           \/ CreatePullRequest(w)
    PROVE  Keeps(w)
<1> USE DEF FlowInv, TypeOK, world, asked, made, config, Go, Quit, End, At
<1>1. CASE PromptIdentity(w)
  <2>1. TypeOK'
    BY <1>1 DEF PromptIdentity, Steps, Asking, Reviewing, Ends
  <2>2. \A v \in Flows \ {w} : Same(v)
    BY <1>1 DEF PromptIdentity, Same
  <2>3. Quiet(w) /\ Fits(w, at[w], at'[w])
    BY <1>1 DEF PromptIdentity, Quiet, Fits, FlowOK, NotAsked, NotChecked, NotConfigured,
       OfWorkflow, Asking, Reviewing
  <2> QED BY <2>1, <2>2, <2>3, QuietKeeps DEF Keeps
<1>2. CASE Stage(w)
  <2>1. TypeOK'
    BY <1>2 DEF Stage, Steps, Asking, Reviewing, Ends
  <2>2. \A v \in Flows \ {w} : Same(v)
    BY <1>2 DEF Stage, Same
  <2>3. Quiet(w) /\ Fits(w, at[w], at'[w])
    BY <1>2 DEF Stage, Quiet, Fits, FlowOK, NotAsked, NotChecked, NotConfigured,
       OfWorkflow, Asking, Reviewing
  <2> QED BY <2>1, <2>2, <2>3, QuietKeeps DEF Keeps
<1>3. CASE StageFiles(w)
  <2>1. TypeOK'
    BY <1>3 DEF StageFiles, OnDisk, Steps, Asking, Reviewing, Ends
  <2>2. \A v \in Flows \ {w} : Same(v)
    BY <1>3 DEF StageFiles, OnDisk, Same
  <2>3. Quiet(w) /\ Fits(w, at[w], at'[w])
    BY <1>3 DEF StageFiles, OnDisk, Quiet, Fits, FlowOK, NotAsked, NotChecked, NotConfigured,
       OfWorkflow, Asking, Reviewing
  <2> QED BY <2>1, <2>2, <2>3, QuietKeeps DEF Keeps
<1>4. CASE OfferPullRequest(w)
  <2>1. TypeOK'
    BY <1>4 DEF OfferPullRequest, Steps, Asking, Reviewing, Ends
  <2>2. \A v \in Flows \ {w} : Same(v)
    BY <1>4 DEF OfferPullRequest, Same
  <2>3. Quiet(w) /\ Fits(w, at[w], at'[w])
    BY <1>4 DEF OfferPullRequest, Quiet, Fits, FlowOK, NotAsked, NotChecked, NotConfigured,
       OfWorkflow, Asking, Reviewing
  <2> QED BY <2>1, <2>2, <2>3, QuietKeeps DEF Keeps
<1>5. CASE CreatePullRequest(w)
  <2>1. TypeOK'
    BY <1>5 DEF CreatePullRequest, Steps, Asking, Reviewing, Ends
  <2>2. \A v \in Flows \ {w} : Same(v)
    BY <1>5 DEF CreatePullRequest, Same
  <2>3. Quiet(w) /\ Fits(w, at[w], at'[w])
    BY <1>5 DEF CreatePullRequest, Quiet, Fits, FlowOK, NotAsked, NotChecked, NotConfigured,
       OfWorkflow, Asking, Reviewing
  <2> QED BY <2>1, <2>2, <2>3, QuietKeeps DEF Keeps
<1> QED BY <1>1, <1>2, <1>3, <1>4, <1>5

LEMMA PickActionsStep ==
    ASSUME FlowInv, NEW w \in Flows, PickActions(w)
    PROVE  Keeps(w)
<1> USE DEF FlowInv, world, made, config, Go, End, At
<1>1. CASE End(w, "actions", "left") /\ UNCHANGED <<wants, world, yes, made, config>>
  <2>1. TypeOK'
    BY <1>1 DEF TypeOK, Ends
  <2>2. Quiet(w) /\ Fits(w, at[w], at'[w]) /\ \A v \in Flows \ {w} : Same(v)
    BY <1>1 DEF Quiet, Fits, FlowOK, Same
  <2> QED BY <2>1, <2>2, QuietKeeps DEF Keeps
<1>2. ASSUME NEW picked \in Picks[w] \ {{}},
             Go(w, "actions", IF picked = {"workflow"} THEN "cluster" ELSE "model"),
             wants' = [wants EXCEPT ![w] = picked], UNCHANGED <<world, yes, made, config>>
      PROVE  Keeps(w)
  <2>1. picked \in SUBSET Kinds
    BY PicksAssumption
  <2>2. at' \in [Flows -> Steps] /\ wants' \in [Flows -> SUBSET Kinds]
    BY <1>2, <2>1 DEF TypeOK, Steps, Asking
  <2>3. TypeOK'
    BY <1>2, <2>2 DEF TypeOK
  <2>4. at'[w] \in {"cluster", "model"} /\ at[w] = "actions"
    BY <1>2 DEF TypeOK
  <2>5. own'[w] = {} /\ todo'[w] = {} /\ plan' = plan
    BY <1>2, <2>4 DEF FlowOK, NotAsked, NotConfigured, NotChecked
  <2>g. GuideOK(w)'
    BY <1>2, <2>4 DEF FlowOK, GuideOK, Reviewing
  <2>6. FlowOK(w)'
    BY <2>4, <2>5, <2>g DEF FlowOK, NotAsked, OfWorkflow, NotChecked, Asking, Reviewing
  <2>7. \A v \in Flows \ {w} : Same(v)
    BY <1>2 DEF TypeOK, Same
  <2> QED BY <2>3, <2>6, <2>7 DEF Keeps
<1> QED BY <1>1, <1>2 DEF PickActions

(* What the check finds is not generated, for the module that has it or    *)
(* for any other.                                                          *)
LEMMA CheckFilesStep ==
    ASSUME FlowInv, NEW w \in Flows, CheckFiles(w)
    PROVE  Keeps(w)
<1> USE DEF FlowInv, world, asked, config, Go, End, At
<1>1. PICK kinds \in SUBSET {"dockerfile", "manifests"} :
        LET missing == (wants[w] \ {"workflow"}) \ Preserved(w, kinds) IN
        /\ \/ /\ Go(w, "check", IF missing = {} THEN "generated" ELSE "generate")
              /\ todo' = [todo EXCEPT ![w] = UNION {Of(k) : k \in missing}]
           \/ missing # {} /\ End(w, "check", "failed") /\ UNCHANGED todo
        /\ found' = [found EXCEPT ![w] = kinds]
        /\ UNCHANGED <<world, asked, cancelled, wrote, offered, config>>
  BY DEF CheckFiles
<1> DEFINE missing == (wants[w] \ {"workflow"}) \ Preserved(w, kinds)
<1>2. at[w] = "check" /\ own'[w] = {} /\ todo[w] = {} /\ at[w] \notin NotAsked
  BY <1>1 DEF FlowOK, NotConfigured, NotChecked, NotAsked, Asking
<1>3. found' \in [Flows -> SUBSET (Kinds \cup {"guide"})] /\ found'[w] = kinds /\ wants' = wants
  BY <1>1 DEF TypeOK, Kinds
<1>4. \A k : Of(k) \subseteq Files
  BY DEF Of
<1>g. at'[w] \in {"check", "generated", "generate"} => GuideOK(w)'
  BY <1>1, <1>2, <1>3 DEF FlowOK, GuideOK, Reviewing
<1>5. CASE /\ Go(w, "check", IF missing = {} THEN "generated" ELSE "generate")
           /\ todo' = [todo EXCEPT ![w] = UNION {Of(k) : k \in missing}]
  <2>1. todo' \in [Flows -> SUBSET Files] /\ todo'[w] = UNION {Of(k) : k \in missing}
    BY <1>4, <1>5 DEF TypeOK
  <2>2. at' \in [Flows -> Steps] /\ told' = told
        /\ at'[w] = IF missing = {} THEN "generated" ELSE "generate"
    BY <1>5 DEF TypeOK, Steps
  <2>3. TypeOK'
    BY <1>1, <1>3, <2>1, <2>2 DEF TypeOK
  <2>4. \A f \in todo'[w] : f[1] \in wants[w] \ {"workflow"} /\ f[1] \notin kinds
    BY <2>1 DEF Of, Preserved
  <2>5. Generates(w)'
    BY <1>3, <2>1 DEF Generates, Preserved
  <2>6. missing = {} => todo'[w] = {}
    BY <2>1
  <2>7. FlowOK(w)'
    BY <1>2, <1>3, <1>g, <2>2, <2>4, <2>5, <2>6
    DEF FlowOK, NotAsked, OfWorkflow, Reviewing
  <2>8. \A v \in Flows \ {w} : Same(v)
    BY <1>1, <1>5 DEF TypeOK, Same
  <2> QED BY <2>3, <2>7, <2>8 DEF Keeps
<1>6. CASE End(w, "check", "failed") /\ UNCHANGED todo
  <2>1. TypeOK'
    BY <1>1, <1>3, <1>6 DEF TypeOK, Ends
  <2>2. FlowOK(w)'
    BY <1>1, <1>2, <1>3, <1>6, <1>g
    DEF FlowOK, NotAsked, OfWorkflow, NotChecked, Asking, Reviewing
  <2>3. \A v \in Flows \ {w} : Same(v)
    BY <1>1, <1>6 DEF TypeOK, Same
  <2> QED BY <2>1, <2>2, <2>3 DEF Keeps
<1> QED BY <1>1, <1>5, <1>6

LEMMA GenerateFileStep ==
    ASSUME FlowInv, NEW w \in Flows, NEW f \in todo[w], GenerateFile(w, f)
    PROVE  Keeps(w)
<1> USE DEF FlowInv, asked, config, Go, At
<1>1. /\ disk' = [disk EXCEPT ![f] = w] /\ UNCHANGED <<index, edits, pull>>
      /\ wrote' = [wrote EXCEPT ![w] = @ \cup {f}] /\ todo' = [todo EXCEPT ![w] = @ \ {f}]
      /\ at[w] = "generate" /\ at' = [at EXCEPT ![w] = "generate"]
      /\ UNCHANGED <<told, asked, cancelled, found, offered, config>>
  BY DEF GenerateFile, Writes
<1>2. f \in Files
  BY DEF TypeOK
<1>3. TypeOK'
  BY <1>1, <1>2 DEF TypeOK
<1>4. at'[w] = "generate" /\ wrote'[w] = wrote[w] \cup {f} /\ todo'[w] = todo[w] \ {f}
  BY <1>1 DEF TypeOK
<1>5. Generates(w) => Generates(w)'
  BY <1>1, <1>4 DEF Generates, Preserved
<1>g. GuideOK(w)'
  <2>1. f[1] \in Kinds
    BY DEF FlowOK, TypeOK
  <2> QED BY <1>1, <1>4, <2>1 DEF FlowOK, GuideOK, Guide, Kinds, Reviewing
<1>6. FlowOK(w)'
  BY <1>1, <1>4, <1>5, <1>g DEF FlowOK, NotAsked, NotConfigured, NotChecked, OfWorkflow, Asking, Reviewing
<1>7. \A v \in Flows \ {w} : Same(v)
  BY <1>1 DEF TypeOK, Same
<1> QED BY <1>3, <1>6, <1>7 DEF Keeps

LEMMA AfterGenerationStep ==
    ASSUME FlowInv, NEW w \in Flows, AfterGeneration(w)
    PROVE  Keeps(w)
<1> USE DEF FlowInv, world, asked, config, Go, End, At
<1>1. at[w] = "generated" /\ UNCHANGED <<world, asked, cancelled, found, todo, wrote, config>>
  BY DEF AfterGeneration
<1>2. CASE /\ "workflow" \notin wants[w]
           /\ Go(w, "generated", "stage") /\ Offer(w, wrote[w])
  <2>1. offered' \in [Flows -> SUBSET Files] /\ offered'[w] = wrote[w]
    BY <1>2 DEF TypeOK, Offer
  <2>2. at' \in [Flows -> Steps] /\ told' = told /\ at'[w] = "stage"
    BY <1>2 DEF TypeOK, Steps, Reviewing
  <2>3. TypeOK'
    BY <1>1, <2>1, <2>2 DEF TypeOK
  <2>4. Generates(w) => Generates(w)'
    BY <1>1 DEF Generates, Preserved
  <2>g. Guide \notin wrote[w] /\ GuideOK(w)'
    BY <1>1, <1>2, <2>2 DEF FlowOK, GuideOK, Reviewing
  <2>5. FlowOK(w)'
    BY <1>1, <1>2, <2>1, <2>2, <2>4, <2>g
    DEF FlowOK, NotAsked, NotConfigured, NotChecked, OfWorkflow, Asking, Reviewing
  <2>6. \A v \in Flows \ {w} : Same(v)
    BY <1>1, <1>2 DEF TypeOK, Same, Offer
  <2> QED BY <2>3, <2>5, <2>6 DEF Keeps
<1>3. CASE /\ UNCHANGED offered
           /\ \/ "workflow" \in wants[w] /\ Go(w, "generated", "collect")
              \/ End(w, "generated", "done") \/ End(w, "generated", "failed")
  <2>1. TypeOK'
    BY <1>1, <1>3 DEF TypeOK, Steps, Ends
  <2>2. Quiet(w) /\ \A v \in Flows \ {w} : Same(v)
    BY <1>1, <1>3 DEF TypeOK, Quiet, Same
  <2>3. Fits(w, at[w], at'[w])
    BY <1>1, <1>3 DEF TypeOK, Fits, FlowOK, NotAsked, NotConfigured, NotChecked, OfWorkflow,
       Asking, Reviewing
  <2> QED BY <2>1, <2>2, <2>3, QuietKeeps DEF Keeps
<1> QED BY <1>1, <1>2, <1>3 DEF AfterGeneration

LEMMA CollectStep ==
    ASSUME FlowInv, NEW w \in Flows, Collect(w)
    PROVE  Keeps(w)
<1> USE DEF FlowInv, world, asked, made, config, Go, End, At
<1>1. at[w] = "collect" /\ UNCHANGED <<world, asked, made>>
  BY DEF Collect, CollectSingle, CollectMulti, Quit
<1>2. own[w] = {} /\ todo[w] = {} /\ "workflow" \in wants[w]
  BY <1>1 DEF FlowOK, NotConfigured, OfWorkflow
<1>3. ASSUME plan' \in [Flows -> [Modules -> Modules \cup Unplanned]],
             own' \in [Flows -> SUBSET Modules],
             \A v \in Flows \ {w} : plan'[v] = plan[v] /\ own'[v] = own[v],
             NEW q \in {"overwrite", "containers"}, Go(w, "collect", q),
             \A m \in own'[w] : plan'[w][m] \in {"out", "open", m},
             q = "overwrite" => Open(w)' = {}
      PROVE  Keeps(w)
  <2>1. at' \in [Flows -> Steps] /\ told' = told /\ at'[w] = q
    BY <1>3 DEF TypeOK, Steps
  <2>2. TypeOK'
    BY <1>1, <1>3, <2>1 DEF TypeOK
  <2>3. Generates(w) => Generates(w)'
    BY <1>1 DEF Generates, Preserved
  <2>g. GuideOK(w)'
    BY <1>1, <2>1 DEF FlowOK, GuideOK, Reviewing
  <2>4. FlowOK(w)'
    BY <1>1, <1>2, <1>3, <2>1, <2>3, <2>g
    DEF FlowOK, NotAsked, NotConfigured, NotChecked, OfWorkflow, Asking, Reviewing
  <2>5. \A v \in Flows \ {w} : Same(v)
    BY <1>1, <1>3 DEF TypeOK, Same
  <2> QED BY <2>2, <2>4, <2>5 DEF Keeps
<1>4. CASE CollectSingle(w)
  <2>1. PICK m \in Modules, n \in Modules : plan' = [plan EXCEPT ![w] = [NoPlan EXCEPT ![m] = n]]
    BY <1>4 DEF CollectSingle, Detected
  <2>2. [NoPlan EXCEPT ![m] = n] \in [Modules -> Modules \cup Unplanned]
    BY DEF NoPlan, Unplanned
  <2>3. /\ plan' \in [Flows -> [Modules -> Modules \cup Unplanned]]
        /\ plan'[w] = [NoPlan EXCEPT ![m] = n] /\ \A v \in Flows \ {w} : plan'[v] = plan[v]
    BY <2>1, <2>2 DEF TypeOK
  <2>4. Open(w)' = {}
    BY <2>3, FreshValues DEF Open, NoPlan
  <2>5. own' = own /\ Go(w, "collect", "overwrite")
    BY <1>4 DEF CollectSingle
  <2>6. own' \in [Flows -> SUBSET Modules] /\ own'[w] = {}
    BY <1>2, <2>5 DEF TypeOK
  <2> QED BY <1>3, <2>3, <2>4, <2>5, <2>6
<1>5. CASE CollectMulti(w)
  <2>1. PICK picked \in SUBSET Detected :
            plan' = [plan EXCEPT ![w] = [m \in Modules |-> IF m \in picked THEN "open" ELSE "out"]]
    BY <1>5 DEF CollectMulti
  <2>2. /\ plan' \in [Flows -> [Modules -> Modules \cup Unplanned]]
        /\ plan'[w] = [m \in Modules |-> IF m \in picked THEN "open" ELSE "out"]
        /\ \A v \in Flows \ {w} : plan'[v] = plan[v]
    BY <2>1 DEF TypeOK, Unplanned
  <2>3. Go(w, "collect", "containers")
        /\ \E scanned \in SUBSET WithManifests : own' = [own EXCEPT ![w] = scanned]
    BY <1>5 DEF CollectMulti
  <2>4. /\ own' \in [Flows -> SUBSET Modules]
        /\ \A v \in Flows \ {w} : own'[v] = own[v]
    <3>1. PICK scanned \in SUBSET Modules : own' = [own EXCEPT ![w] = scanned]
      BY <2>3 DEF WithManifests
    <3> QED BY <3>1 DEF TypeOK
  <2>5. \A m \in own'[w] : plan'[w][m] \in {"out", "open", m}
    BY <2>2, <2>4
  <2> QED BY <1>3, <2>2, <2>3, <2>4, <2>5
<1>6. CASE Quit(w, "collect") /\ UNCHANGED config
  <2>1. TypeOK'
    BY <1>1, <1>6 DEF TypeOK, Quit, Ends
  <2>2. Quiet(w) /\ Fits(w, at[w], at'[w]) /\ \A v \in Flows \ {w} : Same(v)
    BY <1>1, <1>6 DEF Quit, Quiet, Fits, FlowOK, Same
  <2> QED BY <2>1, <2>2, QuietKeeps DEF Keeps
<1> QED BY <1>4, <1>5, <1>6 DEF Collect

(* While its containers are settled, nothing but the plan of a flow and    *)
(* its step change.                                                        *)
LEMMA PlanKeeps ==
    ASSUME FlowInv, NEW w \in Flows, NEW p \in {"containers", "share"},
           NEW q \in {"containers", "share"}, Go(w, p, q),
           NEW new \in [Modules -> Modules \cup Unplanned], plan' = [plan EXCEPT ![w] = new],
           \A m \in own[w] : new[m] \in {"out", "open", m},
           UNCHANGED <<world, asked, made, own>>
    PROVE  Keeps(w)
<1> USE DEF FlowInv, world, asked, made, Go, At
<1>1. /\ plan' \in [Flows -> [Modules -> Modules \cup Unplanned]]
      /\ plan'[w] = new /\ \A v \in Flows \ {w} : plan'[v] = plan[v]
  BY DEF TypeOK
<1>2. at' \in [Flows -> Steps] /\ told' = told /\ at'[w] = q /\ at[w] = p
  BY DEF TypeOK, Steps
<1>3. TypeOK'
  BY <1>1, <1>2 DEF TypeOK
<1>4. Generates(w) => Generates(w)'
  BY DEF Generates, Preserved
<1>g. GuideOK(w)'
  BY <1>2 DEF FlowOK, GuideOK, Reviewing
<1>5. FlowOK(w)'
  BY <1>1, <1>2, <1>4, <1>g
  DEF FlowOK, NotAsked, NotConfigured, NotChecked, OfWorkflow, Asking, Reviewing
<1>6. \A v \in Flows \ {w} : Same(v)
  BY DEF TypeOK, Same
<1> QED BY <1>3, <1>5, <1>6 DEF Keeps

LEMMA SettleStep ==
    ASSUME FlowInv, NEW w \in Flows, Settle(w)
    PROVE  Keeps(w)
<1>1. PICK m \in Open(w), n \in Modules \cup {"build"} :
          /\ m \in own[w] => n = m
          /\ plan' = [plan EXCEPT ![w][m] = n]
          /\ Go(w, "containers",
                IF n # "build" /\ Planned(w) = {} /\ Open(w) \ ({m} \cup own[w]) # {}
                THEN "share" ELSE "containers")
  BY DEF Settle
<1> DEFINE new == [plan[w] EXCEPT ![m] = n]
<1>2. plan' = [plan EXCEPT ![w] = new]
  BY <1>1
<1>3. new \in [Modules -> Modules \cup Unplanned]
  BY <1>1 DEF FlowInv, TypeOK, Open, Unplanned
<1>4. \A k \in own[w] : plan[w][k] \in {"out", "open", k}
  BY DEF FlowInv, FlowOK
<1>5. own[w] \subseteq Modules /\ m \in Modules /\ plan[w] \in [Modules -> Modules \cup Unplanned]
  BY <1>1 DEF FlowInv, TypeOK, Open
<1>6. \A k \in own[w] : new[k] \in {"out", "open", k}
  BY <1>1, <1>4, <1>5
<1>7. UNCHANGED <<world, asked, made, own>>
  BY DEF Settle
<1> QED BY <1>1, <1>2, <1>3, <1>6, <1>7, PlanKeeps

LEMMA ShareStep ==
    ASSUME FlowInv, NEW w \in Flows, Share(w)
    PROVE  Keeps(w)
<1>1. plan[w] \in [Modules -> Modules \cup Unplanned] /\ own[w] \subseteq Modules
  BY DEF FlowInv, TypeOK
<1>2. \A k \in own[w] : plan[w][k] \in {"out", "open", k}
  BY DEF FlowInv, FlowOK
<1>3. UNCHANGED <<world, asked, made, own>>
  BY DEF Share
<1>4. CASE /\ Go(w, "share", "containers")
           /\ \E n \in {plan[w][m] : m \in Planned(w)} :
                 plan' = [plan EXCEPT ![w] =
                             [m \in Modules |-> IF m \in Sharing(w) THEN n ELSE plan[w][m]]]
  <2>1. PICK n \in {plan[w][m] : m \in Planned(w)} :
            plan' = [plan EXCEPT ![w] =
                        [m \in Modules |-> IF m \in Sharing(w) THEN n ELSE plan[w][m]]]
    BY <1>4
  <2> DEFINE new == [m \in Modules |-> IF m \in Sharing(w) THEN n ELSE plan[w][m]]
  <2>2. new \in [Modules -> Modules \cup Unplanned]
    BY <1>1, <2>1 DEF Planned
  <2>3. \A k \in own[w] : new[k] = plan[w][k]
    BY <1>1 DEF Sharing
  <2> HIDE DEF new
  <2> QED BY <1>2, <1>3, <1>4, <2>1, <2>2, <2>3, PlanKeeps DEF new
<1>5. CASE Go(w, "share", "containers") /\ UNCHANGED plan
  <2>1. plan' = [plan EXCEPT ![w] = plan[w]]
    BY <1>5 DEF FlowInv, TypeOK
  <2> QED BY <1>1, <1>2, <1>3, <1>5, <2>1, PlanKeeps
<1>6. CASE End(w, "share", "left") /\ UNCHANGED plan
  <2> USE DEF FlowInv, world, asked, made, End, At
  <2>1. TypeOK'
    BY <1>3, <1>6 DEF TypeOK, Ends
  <2>2. Quiet(w) /\ Fits(w, at[w], at'[w]) /\ \A v \in Flows \ {w} : Same(v)
    BY <1>3, <1>6 DEF Quiet, Fits, FlowOK, Same
  <2> QED BY <2>1, <2>2, QuietKeeps DEF Keeps
<1> QED BY <1>4, <1>5, <1>6 DEF Share

(* The workflow that is found is noted, and overwritten with consent.      *)
LEMMA CheckWorkflowStep ==
    ASSUME FlowInv, NEW w \in Flows, CheckWorkflow(w)
    PROVE  Keeps(w)
<1> USE DEF FlowInv, world, config, Go, End, At
<1>1. /\ at[w] = "overwrite" /\ UNCHANGED <<world, wants, cancelled, todo, wrote, offered, config>>
      /\ \/ found' = [found EXCEPT ![w] = @ \ {"workflow"}]
         \/ found' = [found EXCEPT ![w] = @ \cup {"workflow"}]
  BY DEF CheckWorkflow
<1>2. /\ found' \in [Flows -> SUBSET (Kinds \cup {"guide"})]
      /\ found'[w] \ {"workflow"} = found[w] \ {"workflow"}
  BY <1>1 DEF TypeOK, Kinds
<1>3. todo[w] = {} /\ todo'[w] = {} /\ Open(w)' = {}
  BY <1>1 DEF FlowOK, Open
<1>4. Generates(w) => Generates(w)'
  BY <1>1, <1>2 DEF Generates, Preserved
<1>5. "workflow" \in wants[w] /\ at[w] \notin Reviewing /\ Guide \notin wrote'[w] /\ "guide" \notin found'[w]
  BY <1>1, <1>2 DEF FlowOK, GuideOK, OfWorkflow, Reviewing
<1>6. CASE /\ Go(w, "overwrite", "write")
           /\ \/ found' = [found EXCEPT ![w] = @ \ {"workflow"}] /\ UNCHANGED yes
              \/ MayOverwrite(w)
  <2>1. /\ yes' \in [Flows -> SUBSET {"pull", "overwrite"}]
        /\ \A v \in Flows \ {w} : yes'[v] = yes[v]
        /\ "workflow" \notin found'[w] \/ "overwrite" \in yes'[w]
    BY <1>6 DEF TypeOK, MayOverwrite
  <2>2. at' \in [Flows -> Steps] /\ told' = told /\ at'[w] = "write"
    BY <1>6 DEF TypeOK, Steps
  <2>3. TypeOK'
    BY <1>1, <1>2, <2>1, <2>2 DEF TypeOK
  <2>4. FlowOK(w)'
    BY <1>1, <1>3, <1>4, <1>5, <2>1, <2>2
    DEF FlowOK, GuideOK, NotAsked, NotConfigured, NotChecked, OfWorkflow, Asking, Reviewing
  <2>5. \A v \in Flows \ {w} : Same(v)
    BY <1>1, <1>6, <2>1 DEF TypeOK, Same
  <2> QED BY <2>3, <2>4, <2>5 DEF Keeps
<1>7. CASE End(w, "overwrite", "left") /\ UNCHANGED yes
  <2>1. TypeOK'
    BY <1>1, <1>2, <1>7 DEF TypeOK, Ends
  <2>2. FlowOK(w)'
    BY <1>1, <1>3, <1>4, <1>5, <1>7
    DEF FlowOK, GuideOK, NotAsked, NotConfigured, NotChecked, OfWorkflow, Asking, Reviewing
  <2>3. \A v \in Flows \ {w} : Same(v)
    BY <1>1, <1>7 DEF TypeOK, Same
  <2> QED BY <2>1, <2>2, <2>3 DEF Keeps
<1> QED BY <1>6, <1>7 DEF CheckWorkflow

LEMMA WriteWorkflowStep ==
    ASSUME FlowInv, NEW w \in Flows, WriteWorkflow(w)
    PROVE  Keeps(w)
<1> USE DEF FlowInv, asked, config, Go, End, At
<1>1. at[w] = "write"
      /\ UNCHANGED <<index, edits, pull, asked, cancelled, found, todo, offered, config>>
  BY DEF WriteWorkflow
<1>2. CASE Go(w, "write", "guide") /\ Writes(w, Workflow)
  <2>1. disk' \in [Files -> {"absent", "user"} \cup Flows]
    BY <1>2 DEF TypeOK, Writes
  <2>2. /\ wrote' \in [Flows -> SUBSET Files] /\ wrote'[w] = wrote[w] \cup {Workflow}
        /\ \A v \in Flows \ {w} : wrote'[v] = wrote[v]
    BY <1>2 DEF TypeOK, Writes, Files
  <2>3. at' \in [Flows -> Steps] /\ told' = told /\ at'[w] = "guide"
    BY <1>2 DEF TypeOK, Steps
  <2>4. TypeOK'
    BY <1>1, <2>1, <2>2, <2>3 DEF TypeOK
  <2>5. (Generates(w) => Generates(w)') /\ Open(w)' = Open(w)
    BY <1>1, <2>2 DEF Generates, Preserved, Open
  <2>6. GuideOK(w)'
    BY <1>1, <2>2, <2>3 DEF FlowOK, GuideOK, Reviewing, Workflow, Guide
  <2>7. FlowOK(w)'
    BY <1>1, <2>2, <2>3, <2>5, <2>6
    DEF FlowOK, NotAsked, NotConfigured, NotChecked, OfWorkflow, Asking, Reviewing
  <2>8. \A v \in Flows \ {w} : Same(v)
    BY <1>1, <1>2, <2>2 DEF TypeOK, Same
  <2> QED BY <2>4, <2>7, <2>8 DEF Keeps
<1>3. CASE End(w, "write", "failed") /\ UNCHANGED <<disk, wrote>>
  <2>1. TypeOK'
    BY <1>1, <1>3 DEF TypeOK, Ends
  <2>2. Quiet(w) /\ Fits(w, at[w], at'[w]) /\ \A v \in Flows \ {w} : Same(v)
    BY <1>1, <1>3 DEF Quiet, Fits, FlowOK, Same
  <2> QED BY <2>1, <2>2, QuietKeeps DEF Keeps
<1> QED BY <1>2, <1>3 DEF WriteWorkflow

(* The flow that comes to the review has offered what it wrote but the     *)
(* guide.                                                                  *)
LEMMA WriteGuideStep ==
    ASSUME FlowInv, NEW w \in Flows, WriteGuide(w)
    PROVE  Keeps(w)
<1> USE DEF FlowInv, asked, config, Go, End, At
<1>1. at[w] = "guide" /\ UNCHANGED <<index, edits, pull, asked, cancelled, todo, config>>
  BY DEF WriteGuide
<1>2. CASE /\ Go(w, "guide", "identity") /\ Offer(w, wrote[w])
           /\ \/ found' = [found EXCEPT ![w] = @ \cup {"guide"}] /\ UNCHANGED <<disk, wrote>>
              \/ Writes(w, Guide) /\ UNCHANGED found
  <2>1. disk' \in [Files -> {"absent", "user"} \cup Flows]
    BY <1>2 DEF TypeOK, Writes
  <2>2. /\ wrote' \in [Flows -> SUBSET Files] /\ wrote[w] \subseteq wrote'[w]
        /\ wrote'[w] \ {Guide} = wrote[w] /\ Workflow \in wrote[w]
        /\ \A v \in Flows \ {w} : wrote'[v] = wrote[v]
    <3>1. Guide \notin wrote[w] /\ Workflow \in wrote[w] /\ Guide \in Files
      BY <1>1 DEF FlowOK, GuideOK, Files, Reviewing
    <3>2. wrote \in [Flows -> SUBSET Files] /\ wrote[w] \subseteq Files
      BY DEF TypeOK
    <3>3. CASE Writes(w, Guide)
      BY <3>1, <3>2, <3>3 DEF Writes
    <3>4. CASE UNCHANGED wrote
      BY <3>1, <3>2, <3>4
    <3> QED BY <1>2, <3>3, <3>4
  <2>3. /\ found' \in [Flows -> SUBSET (Kinds \cup {"guide"})]
        /\ found'[w] \ {"guide"} = found[w] \ {"guide"}
        /\ \A v \in Flows \ {w} : found'[v] = found[v]
        /\ Guide \in wrote'[w] \/ "guide" \in found'[w]
    BY <1>2 DEF TypeOK, Writes
  <2>4. /\ offered' \in [Flows -> SUBSET Files] /\ offered'[w] = wrote[w]
        /\ \A v \in Flows \ {w} : offered'[v] = offered[v]
    BY <1>2 DEF TypeOK, Offer
  <2>5. at' \in [Flows -> Steps] /\ told' = told /\ at'[w] = "identity"
    BY <1>2 DEF TypeOK, Steps, Reviewing
  <2>6. TypeOK'
    BY <1>1, <2>1, <2>2, <2>3, <2>4, <2>5 DEF TypeOK
  <2>7. Generates(w) => Generates(w)'
    BY <1>1, <2>2, <2>3 DEF Generates, Preserved, TypeOK, Kinds
  <2>8. FlowOK(w)'
    BY <1>1, <2>2, <2>3, <2>4, <2>5, <2>7
    DEF FlowOK, GuideOK, NotAsked, NotConfigured, NotChecked, OfWorkflow, Asking, Reviewing
  <2>9. \A v \in Flows \ {w} : Same(v)
    BY <1>1, <1>2, <2>2, <2>3, <2>4 DEF TypeOK, Same
  <2> QED BY <2>6, <2>8, <2>9 DEF Keeps
<1>3. CASE End(w, "guide", "failed") /\ UNCHANGED <<disk, wrote, offered, found>>
  <2>1. TypeOK'
    BY <1>1, <1>3 DEF TypeOK, Ends
  <2>2. Quiet(w) /\ Fits(w, at[w], at'[w]) /\ \A v \in Flows \ {w} : Same(v)
    BY <1>1, <1>3 DEF Quiet, Fits, FlowOK, Same
  <2> QED BY <2>1, <2>2, QuietKeeps DEF Keeps
<1> QED BY <1>2, <1>3 DEF WriteGuide

(* What the user does to the project: a commit moves the flows that listen. *)
LEMMA ProjectStep ==
    ASSUME FlowInv, Commit \/ Edit
    PROVE  FlowInv'
<1> USE DEF FlowInv
<1>1. CASE Commit
  <2>1. TypeOK'
    BY <1>1 DEF Commit, TypeOK, At, asked, made, config, Steps, Reviewing
  <2>2. ASSUME NEW w \in Flows PROVE FlowOK(w)'
    BY <1>1, <2>2 DEF Commit, TypeOK, At, asked, made, config, FlowOK, GuideOK, Generates, Preserved,
       Open, NotAsked, NotChecked, NotConfigured, OfWorkflow, Asking, Reviewing
  <2> QED BY <2>1, <2>2
<1>2. CASE Edit
  <2>1. TypeOK'
    BY <1>2, MaxEditsAssumption DEF Edit, TypeOK, flow
  <2>2. ASSUME NEW w \in Flows PROVE FlowOK(w)'
    BY <1>2, <2>2, SameKeeps DEF Edit, flow, Same
  <2> QED BY <2>1, <2>2
<1> QED BY <1>1, <1>2

LEMMA FlowInit == Init => FlowInv
<1> SUFFICES ASSUME Init PROVE FlowInv
  OBVIOUS
<1>1. \A w \in Flows : at[w] = "start" /\ wants[w] = {} /\ found[w] = {} /\ todo[w] = {} /\ own[w] = {}
      /\ wrote[w] = {}
  BY DEF Init, Nothing
<1>2. TypeOK
  <2>1. disk \in [Files -> {"absent", "user"} \cup Flows]
    BY DEF Init
  <2>2. index \in SUBSET Files /\ edits \in 0 .. MaxEdits /\ pull \in BOOLEAN
    BY MaxEditsAssumption DEF Init
  <2>3. at \in [Flows -> Steps] /\ told \in [Flows -> Ends \cup {"none"}]
    BY DEF Init, Steps
  <2>4. plan \in [Flows -> [Modules -> Modules \cup Unplanned]]
    BY DEF Init, NoPlan, Unplanned
  <2> QED BY <2>1, <2>2, <2>3, <2>4 DEF Init, TypeOK, Nothing
<1>3. ASSUME NEW w \in Flows PROVE FlowOK(w)
  BY <1>1 DEF FlowOK, GuideOK, OfWorkflow, NotAsked, NotChecked, Reviewing
<1> QED BY <1>2, <1>3 DEF FlowInv

LEMMA FlowNext == FlowInv /\ [Next]_vars => FlowInv'
<1> SUFFICES ASSUME FlowInv, [Next]_vars PROVE FlowInv'
  OBVIOUS
<1>1. CASE UNCHANGED vars
  BY <1>1, SameKeeps DEF vars, world, flow, FlowInv, TypeOK, Same
<1>2. ASSUME NEW w \in Flows, GenerateDockerfile(w) \/ GenerateManifests(w) PROVE Keeps(w)
  <2>1. PICK f \in todo[w] : GenerateFile(w, f)
    BY <1>2 DEF GenerateDockerfile, GenerateManifests, NextFiles
  <2> QED BY <2>1, GenerateFileStep
<1> QED
  BY <1>1, <1>2, KeepsAll, AskingStep, PickActionsStep, CheckFilesStep, WaitingStep,
     AfterGenerationStep, CollectStep, SettleStep, ShareStep, CheckWorkflowStep,
     WriteWorkflowStep, WriteGuideStep, ReviewStep, ProjectStep DEF Next

LEMMA FlowInvariance == Spec => []FlowInv
BY FlowInit, FlowNext, PTL DEF Spec

\* What a flow offers for review is what it wrote but the guide, whatever the user and other flows
\* write to the same files.
THEOREM ReviewIsTrue == Spec => []OfferedIsWritten
<1>1. FlowInv => OfferedIsWritten
  BY DEF FlowInv, FlowOK, OfferedIsWritten
<1> QED BY <1>1, FlowInvariance, PTL

\* No choice for several containers takes the manifests of one away, for any number of modules.
THEOREM ManifestsKept == Spec => []OwnManifestsWin
<1>1. FlowInv => OwnManifestsWin
  BY DEF FlowInv, FlowOK, OwnManifestsWin
<1> QED BY <1>1, FlowInvariance, PTL

\* A file the user wrote is overwritten only if the look at the disk found no file of its kind, or
\* by the consent to overwrite the workflow, whatever the user and the other flows do between the
\* look and the writing.
THEOREM FilesKept == Spec => UsersFilesKept
<1>1. ASSUME FlowInv, [Next]_vars, NEW f \in Files, disk[f] = "user", disk'[f] \in Flows
      PROVE  LET w == disk'[f] IN f[1] \notin found'[w] \/ (f = Workflow /\ "overwrite" \in yes[w])
  <2>1. disk'[f] # disk[f]
    BY <1>1, FreshValues
  <2>2. ASSUME NEW w \in Flows, NEW g \in todo[w], GenerateFile(w, g)
        PROVE  f[1] \notin found'[disk'[f]]
    <3>1. f = g /\ disk'[f] = w /\ found' = found
      BY <1>1, <2>1, <2>2 DEF FlowInv, TypeOK, GenerateFile, Writes
    <3> QED BY <1>1, <2>2, <3>1 DEF FlowInv, FlowOK
  <2>3. ASSUME NEW w \in Flows, WriteWorkflow(w)
        PROVE  f = Workflow /\ (f[1] \notin found'[disk'[f]] \/ "overwrite" \in yes[disk'[f]])
    <3>1. f = Workflow /\ disk'[f] = w /\ at[w] = "write" /\ found' = found
      BY <1>1, <2>1, <2>3 DEF FlowInv, TypeOK, WriteWorkflow, Writes, Go, At
    <3> QED BY <1>1, <2>3, <3>1 DEF FlowInv, FlowOK, Workflow
  <2>g. ASSUME NEW w \in Flows, WriteGuide(w)
        PROVE  f[1] \notin found'[disk'[f]]
    <3>1. f = Guide /\ disk'[f] = w /\ at[w] = "guide" /\ found' = found
      BY <1>1, <2>1, <2>g DEF FlowInv, TypeOK, WriteGuide, Writes, Go, At
    <3> QED BY <1>1, <2>g, <3>1 DEF FlowInv, FlowOK, GuideOK, Guide, Reviewing
  <2>4. CASE Edit
    BY <1>1, <2>1, <2>4, FreshValues DEF Edit, FlowInv, TypeOK
  <2>5. ASSUME NEW w \in Flows, GenerateDockerfile(w) \/ GenerateManifests(w)
        PROVE  \E g \in todo[w] : GenerateFile(w, g)
    BY <2>5 DEF GenerateDockerfile, GenerateManifests, NextFiles
  <2>6. \/ \E w \in Flows : GenerateDockerfile(w) \/ GenerateManifests(w) \/ WriteWorkflow(w)
                              \/ WriteGuide(w)
        \/ Edit
    BY <1>1, <2>1 DEF Next, vars, world, Start, PickActions, PickModel, PickCluster,
       ListNamespaces, PickNamespace, PickImage, OfferPull, AssignPull, NameWorkflow, CheckFiles,
       Generated, Cancel, AfterGeneration, Collect, Settle, Share, Settled, CheckWorkflow,
       PromptIdentity, Stage, StageFiles, OfferPullRequest, CreatePullRequest, Commit
  <2> QED BY <2>2, <2>3, <2>g, <2>4, <2>5, <2>6
<1>2. FlowInv /\ [Next]_vars =>
          [\A f \in Files : disk[f] = "user" /\ disk'[f] \in Flows =>
              LET w == disk'[f] IN
              f[1] \notin found'[w] \/ (f = Workflow /\ "overwrite" \in yes[w])]_vars
  BY <1>1
<1> QED BY <1>2, FlowInvariance, PTL DEF Spec, UsersFilesKept

-----------------------------------------------------------------------------
(* Container Assist: the promise                                           *)

(* A flow goes on: what it has to do and what it may do does not change    *)
(* once it is settled, and it writes only files of the actions picked.     *)
Onward(w) ==
    /\ at[w] \notin Reviewing => told[w] = "none"
    /\ at'[w] \in NotAsked => at[w] \in NotAsked
    /\ at'[w] \in NotChecked => at[w] \in NotChecked
    /\ wants[w] \subseteq wants'[w] /\ yes[w] \subseteq yes'[w] /\ wrote[w] \subseteq wrote'[w]
    /\ at[w] \notin NotAsked => wants'[w] = wants[w]
    /\ at[w] \notin NotChecked => Preserved(w, found[w])' = Preserved(w, found[w])
    /\ found[w] \cap {"guide"} \subseteq found'[w]
    /\ at[w] \in Reviewing => found'[w] = found[w]
    /\ at[w] \in Reviewing => at'[w] \in Reviewing /\ yes'[w] = yes[w] /\ wrote'[w] = wrote[w]
    /\ at'[w] \in Reviewing \/ told'[w] # "none" => wants'[w] = wants[w] /\ yes'[w] = yes[w]
    /\ \A f \in wrote'[w] \ wrote[w] : f[1] \in wants[w] \/ (f = Guide /\ "workflow" \in wants[w])
    /\ \A v \in Flows \ {w} : Same(v) /\ told'[v] = told[v]

LEMMA GoesOnward ==
    ASSUME FlowInv, NEW w \in Flows,
           \/ Start(w) \/ PickActions(w) \/ PickModel(w) \/ PickCluster(w) \/ ListNamespaces(w)
           \/ PickNamespace(w) \/ PickImage(w) \/ OfferPull(w) \/ AssignPull(w) \/ NameWorkflow(w)
           \/ Generated(w) \/ Cancel(w) \/ AfterGeneration(w)
           \/ Collect(w) \/ Settle(w) \/ Share(w) \/ Settled(w)
           \/ PromptIdentity(w) \/ Stage(w) \/ StageFiles(w) \/ OfferPullRequest(w)
           \/ CreatePullRequest(w)
    PROVE  Onward(w)
<1> USE DEF FlowInv, TypeOK, FlowOK, Onward, Same, Preserved, world, asked, made, config, Go, Quit,
    End, At, NotAsked, NotChecked, Asking, Reviewing
<1>1. CASE Start(w)
  BY <1>1 DEF Start
<1>2. CASE PickActions(w)
  BY <1>2 DEF PickActions
<1>3. CASE PickModel(w)
  BY <1>3 DEF PickModel, ContextStep
<1>4. CASE PickCluster(w)
  BY <1>4 DEF PickCluster
<1>5. CASE ListNamespaces(w)
  BY <1>5 DEF ListNamespaces
<1>6. CASE PickNamespace(w)
  BY <1>6 DEF PickNamespace
<1>7. CASE PickImage(w)
  BY <1>7 DEF PickImage, AfterImage
<1>8. CASE OfferPull(w)
  BY <1>8 DEF OfferPull, AfterImage
<1>9. CASE AssignPull(w)
  BY <1>9 DEF AssignPull, AfterImage
<1>10. CASE NameWorkflow(w)
  BY <1>10 DEF NameWorkflow
<1>11. CASE Generated(w)
  BY <1>11 DEF Generated
<1>12. CASE Cancel(w)
  BY <1>12 DEF Cancel
<1>13. CASE AfterGeneration(w)
  BY <1>13 DEF AfterGeneration, Offer
<1>14. CASE Collect(w)
  BY <1>14 DEF Collect, CollectSingle, CollectMulti
<1>15. CASE Settle(w)
  BY <1>15 DEF Settle
<1>16. CASE Share(w)
  BY <1>16 DEF Share
<1>17. CASE Settled(w)
  BY <1>17 DEF Settled
<1>18. CASE PromptIdentity(w)
  BY <1>18 DEF PromptIdentity
<1>19. CASE Stage(w)
  BY <1>19 DEF Stage
<1>20. CASE StageFiles(w)
  BY <1>20 DEF StageFiles
<1>21. CASE OfferPullRequest(w)
  BY <1>21 DEF OfferPullRequest
<1>22. CASE CreatePullRequest(w)
  BY <1>22 DEF CreatePullRequest
<1> QED BY <1>1, <1>2, <1>3, <1>4, <1>5, <1>6, <1>7, <1>8, <1>9, <1>10, <1>11, <1>12, <1>13, <1>14,
    <1>15, <1>16, <1>17, <1>18, <1>19, <1>20, <1>21, <1>22

(* A check notes what it finds; only the workflow's is made after others.   *)
LEMMA ChecksOnward ==
    ASSUME FlowInv, NEW w \in Flows, CheckFiles(w) \/ CheckWorkflow(w)
    PROVE  Onward(w)
<1> USE DEF FlowInv, TypeOK, world, asked, config, Go, End, At, NotAsked, NotChecked, Asking,
    Reviewing
<1>1. CASE CheckFiles(w)
  BY <1>1 DEF CheckFiles, FlowOK, GuideOK, Onward, Same
<1>2. CASE CheckWorkflow(w)
  BY <1>2 DEF CheckWorkflow, MayOverwrite, Preserved, Onward, Same
<1> QED BY <1>1, <1>2

LEMMA WritesOnward ==
    ASSUME FlowInv, NEW w \in Flows,
           WriteWorkflow(w) \/ WriteGuide(w) \/ \E f \in todo[w] : GenerateFile(w, f)
    PROVE  Onward(w)
<1> USE DEF FlowInv, TypeOK, FlowOK, Onward, Same, Preserved, asked, config, Go, End, At, Writes,
    NotAsked, NotChecked, Asking, Reviewing
<1>1. CASE WriteWorkflow(w)
  BY <1>1 DEF WriteWorkflow, Offer, Workflow, OfWorkflow
<1>2. ASSUME NEW f \in todo[w], GenerateFile(w, f) PROVE Onward(w)
  BY <1>2 DEF GenerateFile
<1>3. CASE WriteGuide(w)
  <2>1. "workflow" \in wants[w] /\ wants' = wants /\ yes' = yes /\ told[w] = "none" /\ at[w] = "guide"
    BY <1>3 DEF WriteGuide, OfWorkflow
  <2>2. /\ found'[w] \in {found[w], found[w] \cup {"guide"}}
        /\ wrote'[w] \in {wrote[w], wrote[w] \cup {Guide}}
        /\ \A v \in Flows \ {w} : Same(v) /\ told'[v] = told[v]
    BY <1>3 DEF WriteGuide, Offer
  <2>3. Preserved(w, found[w])' = Preserved(w, found[w])
    BY <2>1, <2>2 DEF Kinds
  <2>4. at'[w] \in {"guide", "identity"}
    BY <1>3 DEF WriteGuide
  <2> HIDE DEF Preserved, Same
  <2> QED BY <2>1, <2>2, <2>3, <2>4
<1> QED BY <1>1, <1>2, <1>3

(* What the promise says of a flow.                                        *)
Agreed(w) == wants[w] \cup yes[w]
Made(w) == {k \in Kinds \cup {"guide"} : Of(k) \subseteq wrote[w]}
EndOf(w) ==
    IF at[w] \in Reviewing THEN "complete" ELSE IF told[w] = "none" THEN "open" ELSE "stopped"

(* Nothing that the promise is about changes for flow v.                   *)
Rests(v) ==
    /\ Agreed(v)' = Agreed(v) /\ Made(v)' = Made(v)
    /\ Excused(v)' = Excused(v) /\ EndOf(v)' = EndOf(v)

LEMMA SameRests ==
    ASSUME NEW v \in Flows, Same(v), told'[v] = told[v]
    PROVE  Rests(v)
BY DEF Same, Rests, Agreed, Made, EndOf, Excused, Preserved

LEMMA OnwardExcuses ==
    ASSUME NEW w \in Flows, FlowInv, FlowInv', Onward(w)
    PROVE  Excused(w) \subseteq Excused(w)'
<1>1. CASE at[w] \in NotAsked
  <2>1. at[w] \notin Reviewing
    BY <1>1 DEF NotAsked, Reviewing
  <2>2. Excused(w) = {"pull"}
    BY <1>1, <2>1 DEF FlowInv, FlowOK, GuideOK, Excused, NotAsked, Asking
  <2> QED BY <2>2 DEF Excused
<1>2. CASE at[w] \in NotChecked \ NotAsked
  BY <1>2 DEF Onward, Excused, NotChecked, NotAsked
<1>3. CASE at[w] \notin NotChecked
  BY <1>3 DEF Onward, Excused, NotChecked, NotAsked
<1> QED BY <1>1, <1>2, <1>3 DEF NotChecked

(* A flow that comes to the review has written all that it was to write.   *)
LEMMA ReviewedIsComplete ==
    ASSUME NEW w \in Flows, FlowInv, at[w] \in Reviewing
    PROVE  Changes \subseteq Made(w) \cup Excused(w)
<1>1. at[w] \notin NotChecked /\ todo[w] = {} /\ FlowOK(w)
  BY DEF FlowInv, FlowOK, NotChecked, NotAsked, Asking, Reviewing
<1>2. ASSUME NEW c \in Changes, c \notin Excused(w)
      PROVE  c \in Made(w)
  <2>1. c # "pull" /\ KindOf[c] \in wants[w] /\ c \notin Preserved(w, found[w])
        /\ (c = "guide" => "guide" \notin found[w])
    BY <1>1, <1>2 DEF Excused, NotChecked, NotAsked
  <2>2. CASE c = "guide"
    <3>1. "workflow" \in wants[w]
      BY <2>1, <2>2 DEF KindOf
    <3>2. Guide \in wrote[w]
      BY <1>1, <2>1, <2>2, <3>1 DEF FlowOK, GuideOK
    <3> QED BY <2>2, <3>2 DEF Made, Of, Files, Guide, Workflow
  <2>3. CASE c = "workflow"
    <3>1. Workflow \in wrote[w]
      BY <1>1, <2>1, <2>3 DEF FlowOK, KindOf
    <3> QED BY <2>3, <3>1 DEF Made, Kinds, Of, Files, Guide, Workflow
  <2>4. CASE c \in {"dockerfile", "manifests"}
    <3>1. c \in wants[w]
      BY <2>1, <2>4 DEF KindOf
    <3> QED BY <1>1, <2>1, <2>4, <3>1 DEF FlowOK, Generates, Made, Kinds
  <2> QED BY <2>1, <2>2, <2>3, <2>4 DEF Changes, Kinds
<1> QED BY <1>2

LEMMA OnwardKeepsPromise ==
    ASSUME NEW w \in Flows, FlowInv, FlowInv', Onward(w)
    PROVE  [Promise!Next]_<<[v \in Flows |-> Agreed(v)], [v \in Flows |-> Made(v)],
                            [v \in Flows |-> Excused(v)], [v \in Flows |-> EndOf(v)]>>
<1>1. \A v \in Flows \ {w} : Rests(v)
  BY SameRests DEF Onward
<1>2. CASE at[w] \in Reviewing
  <2>1. Rests(w)
    BY <1>2 DEF Onward, Rests, Agreed, Made, EndOf, Excused, NotChecked, NotAsked, Asking, Reviewing
  <2> QED BY <1>1, <2>1 DEF Rests
<1>3. CASE at[w] \notin Reviewing
  <2>1. EndOf(w) = "open" /\ EndOf(w)' \in {"open", "complete", "stopped"}
    BY <1>3 DEF EndOf, Onward
  <2>2. Agreed(w) \subseteq Agreed(w)' /\ Made(w) \subseteq Made(w)' /\ Excused(w) \subseteq Excused(w)'
    BY OnwardExcuses DEF Onward, Agreed, Made
  <2>3. \A e \in Made(w)' \ Made(w) : e \in Changes /\ KindOf[e] \in Agreed(w)
    <3> SUFFICES ASSUME NEW e \in Made(w)', e \notin Made(w)
                 PROVE  e \in Changes /\ KindOf[e] \in Agreed(w)
      OBVIOUS
    <3>1. PICK f \in wrote'[w] \ wrote[w] : f[1] = e
      BY DEF Made, Of
    <3>2. e \in Kinds \cup {"guide"}
      BY DEF Made
    <3>3. e \in wants[w] \/ (f = Guide /\ "workflow" \in wants[w])
      BY <3>1 DEF Onward
    <3>4. CASE f = Guide /\ "workflow" \in wants[w]
      BY <3>1, <3>4 DEF Guide, KindOf, Changes, Agreed
    <3>5. CASE e \in wants[w]
      BY <3>2, <3>5 DEF FlowInv, TypeOK, Kinds, KindOf, Changes, Agreed
    <3> QED BY <3>3, <3>4, <3>5
  <2>4. EndOf(w)' # "open" => Agreed(w)' = Agreed(w)
    BY DEF Onward, EndOf, Agreed
  <2>5. EndOf(w)' = "complete" => Changes \subseteq Made(w)' \cup Excused(w)'
    <3>1. EndOf(w)' = "complete" => at'[w] \in Reviewing
      BY DEF EndOf
    <3>2. (at[w] \in Reviewing => Changes \subseteq Made(w) \cup Excused(w))'
      BY ReviewedIsComplete, PTL
    <3> QED BY <3>1, <3>2
  <2>6. Promise!Others(w)
    BY <1>1 DEF Promise!Others, Rests, Agreed, Made, EndOf
  <2>7. CASE EndOf(w)' = "open"
    <3>1. Promise!Work(w)
      BY <1>1, <2>1, <2>2, <2>3, <2>7 DEF Promise!Work, Rests, Agreed, Made, EndOf
    <3> QED BY <2>6, <3>1 DEF Promise!Next
  <2>8. CASE EndOf(w)' # "open"
    <3>1. Promise!End(w)
      BY <2>1, <2>2, <2>3, <2>4, <2>5, <2>8 DEF Promise!End, Agreed, Made, EndOf
    <3> QED BY <2>6, <3>1 DEF Promise!Next
  <2> QED BY <2>7, <2>8
<1> QED BY <1>2, <1>3

\* A flow changes only what was agreed to, and offers its files for review only when each kind it
\* was asked for is written for every module, or was
\* found and preserved; the guide comes with the workflow.
THEOREM FlowsKeepPromise == Spec => KeepsPromise
<1>1. Init => Promise!Init
  <2> SUFFICES ASSUME Init PROVE Promise!Init
    OBVIOUS
  <2>1. \A w \in Flows : Excused(w) \in SUBSET Changes
    BY DEF Init, Excused, Changes
  <2>2. /\ [w \in Flows |-> wants[w] \cup yes[w]] = [w \in Flows |-> {}]
        /\ [w \in Flows |-> EndOf(w)] = [w \in Flows |-> "open"]
    BY DEF Init, Nothing, EndOf, Reviewing
  <2>3. \A w \in Flows : Made(w) = {}
    <3>1. PICK m : m \in Modules
      BY ModulesAssumption
    <3>2. /\ <<"dockerfile", m>> \in Of("dockerfile") /\ <<"manifests", m>> \in Of("manifests")
          /\ Workflow \in Of("workflow") /\ Guide \in Of("guide")
      BY <3>1 DEF Of, Files, Workflow, Guide
    <3> QED BY <3>2 DEF Init, Nothing, Made, Kinds
  <2> QED BY <2>1, <2>2, <2>3 DEF Promise!Init, Made, EndOf
<1>2. ASSUME FlowInv, [Next]_vars
      PROVE  [Promise!Next]_<<[v \in Flows |-> Agreed(v)], [v \in Flows |-> Made(v)],
                              [v \in Flows |-> Excused(v)], [v \in Flows |-> EndOf(v)]>>
  <2>1. FlowInv'
    BY <1>2, FlowNext
  <2>2. CASE (Commit \/ Edit) \/ UNCHANGED vars
    <3>1. ASSUME NEW v \in Flows PROVE Rests(v)
      BY <1>2, <2>2 DEF Commit, Edit, vars, world, flow, asked, made, FlowInv, TypeOK, Rests,
         Agreed, Made, EndOf, Excused, Preserved, At, Asking, Reviewing
    <3> QED BY <3>1 DEF Rests
  <2>3. ASSUME NEW w \in Flows, GenerateDockerfile(w) \/ GenerateManifests(w)
        PROVE  \E f \in todo[w] : GenerateFile(w, f)
    BY <2>3 DEF GenerateDockerfile, GenerateManifests, NextFiles
  <2>4. (\E w \in Flows : Onward(w)) \/ Commit \/ Edit \/ UNCHANGED vars
    BY <1>2, <2>3, GoesOnward, ChecksOnward, WritesOnward DEF Next
  <2> QED BY <1>2, <2>1, <2>2, <2>4, OnwardKeepsPromise
<1>3. FlowInv /\ [Next]_vars =>
          [Promise!Next]_<<[w \in Flows |-> wants[w] \cup yes[w]],
                           [w \in Flows |-> {k \in Kinds \cup {"guide"} : Of(k) \subseteq wrote[w]}],
                           [w \in Flows |-> Excused(w)],
                           [w \in Flows |-> IF at[w] \in Reviewing THEN "complete"
                                            ELSE IF told[w] = "none" THEN "open" ELSE "stopped"]>>
  BY <1>2 DEF Agreed, Made, EndOf
<1> QED
  BY <1>1, <1>3, FlowInvariance, PTL DEF Spec, KeepsPromise, Promise!Spec

-----------------------------------------------------------------------------
(* The setup of the identity: the steps of a setup                         *)

LEMMA SecretNames == Secrets = {"clientId", "tenantId", "subscriptionId"}
<1>1. 1 .. 3 = {1, 2, 3}
  OBVIOUS
<1> QED BY <1>1 DEF Secrets, SecretOrder

LEMMA PlanOf ==
    ASSUME NEW c \in TargetKinds
    PROVE  /\ Together(c) = IF c = "managedAcr" THEN {"nsWriter", "nsContributor", "acrPush", "acrTasks"}
                            ELSE IF c = "userAcr" THEN {"acrPush", "acrTasks"} ELSE {}
           /\ RolesFor(c) = IF c = "managedAcr" THEN Together(c)
                            ELSE IF c = "userAcr" THEN Together(c) \cup {"clusterUser", "clusterWriter"}
                            ELSE IF c = "user" THEN {"clusterUser"} ELSE {}
           /\ RolesFor(c) \subseteq Roles /\ Plan(c) \subseteq SetupChanges
           /\ Plan(c) = RolesFor(c) \cup Secrets \cup {"identity", "trust"}
                            \cup IF c \in ManagedTargets THEN {"annotation"} ELSE {}
<1>1. RolesFor(c) \subseteq Roles
  BY DEF Roles
<1> QED BY <1>1 DEF TargetKinds, Together, RolesFor, Plan, ManagedTargets, SetupChanges

LEMMA RoleNames ==
    Roles = {"nsWriter", "nsContributor", "acrPush", "acrTasks", "clusterUser", "clusterWriter"}
<1>1. Roles = RolesFor("none") \cup RolesFor("user") \cup RolesFor("userAcr")
                \cup RolesFor("managed") \cup RolesFor("managedAcr")
  BY DEF Roles, TargetKinds
<1> QED BY <1>1 DEF RolesFor, Together

(* What a step of setup s does to what all setups share.                   *)
SetupEffect(s) ==
    /\ targets' = targets /\ holds \subseteq holds'
    /\ \A r \in SetupRepos, n \in Secrets :
          \/ secret'[r][n] = secret[r][n]
          \/ r = repoInfo[s] /\ secret'[r][n] = id[s] /\ HasSet(s)
    /\ \A i \in Identities :
          \/ trusts'[i] = trusts[i]
          \/ i = id[s] /\ trusts'[i] = repoInfo[s] /\ HasTrusted(s)
    /\ HasSet(s) \/ HasTrusted(s) => repoInfo'[s] = repoInfo[s] /\ id'[s] = id[s]
    /\ HasSet(s) => HasSet(s)'
    /\ HasTrusted(s) => HasTrusted(s)'
    /\ \A t \in Setups \ {s} :
          /\ setupAt'[t] = setupAt[t] /\ setupTold'[t] = setupTold[t] /\ agreedTo'[t] = agreedTo[t]
          /\ repoInfo'[t] = repoInfo[t] /\ id'[t] = id[t]
          /\ left'[t] = left[t] /\ failed'[t] = failed[t] /\ skipped'[t] = skipped[t]

SetupOK(s) == LeftAt(s) /\ SetupKnows(s) /\ RolesMade(s) /\ SecretsMade(s) /\ TrustMade(s)

LEMMA OtherSetups ==
    ASSUME NEW s \in Setups, OidcTypeOK, SetupEffect(s), NEW t \in Setups \ {s}, SetupOK(t)
    PROVE  SetupOK(t)'
<1> USE DEF SetupEffect
<1>1. LeftAt(t)'
  BY DEF SetupOK, LeftAt
<1>2. SetupKnows(t)'
  BY DEF SetupOK, SetupKnows
<1>3. RolesMade(t)'
  BY DEF SetupOK, RolesMade
<1>4. SecretsMade(t)'
  <2> SUFFICES ASSUME NEW n \in Secrets, n \notin left[t] \cup failed[t] \cup skipped[t]
               PROVE  \/ secret'[repoInfo[t]][n] = id[t]
                      \/ \E u \in Setups \ {t} :
                            HasSet(u)' /\ repoInfo'[u] = repoInfo[t] /\ id'[u] # id[t]
    BY DEF SecretsMade
  <2>1. repoInfo[t] \in SetupRepos
    BY SecretNames DEF SetupOK, LeftAt, SetupKnows, Plan
  <2>2. CASE secret[repoInfo[t]][n] = id[t]
    BY <2>1, <2>2
  <2>3. ASSUME NEW u \in Setups \ {t}, HasSet(u), repoInfo[u] = repoInfo[t], id[u] # id[t]
        PROVE  HasSet(u)' /\ repoInfo'[u] = repoInfo[t] /\ id'[u] # id[t]
    BY <2>3 DEF HasSet
  <2> QED BY <2>2, <2>3 DEF SetupOK, SecretsMade
<1>5. TrustMade(t)'
  <2> SUFFICES ASSUME "trust" \notin left[t]
               PROVE  \/ trusts'[id[t]] = repoInfo[t]
                      \/ \E u \in Setups \ {t} :
                            HasTrusted(u)' /\ id'[u] = id[t] /\ repoInfo'[u] # repoInfo[t]
    BY DEF TrustMade
  <2>1. id[t] \in Identities
    BY DEF SetupOK, LeftAt, SetupKnows, Plan
  <2>2. CASE trusts[id[t]] = repoInfo[t]
    BY <2>1, <2>2
  <2>3. ASSUME NEW u \in Setups \ {t}, HasTrusted(u), id[u] = id[t], repoInfo[u] # repoInfo[t]
        PROVE  HasTrusted(u)' /\ id'[u] = id[t] /\ repoInfo'[u] # repoInfo[t]
    BY <2>3 DEF HasTrusted
  <2> QED BY <2>2, <2>3 DEF SetupOK, TrustMade
<1> QED BY <1>1, <1>2, <1>3, <1>4, <1>5 DEF SetupOK

LEMMA Accounting ==
    ASSUME NEW s \in Setups, OidcTypeOK, NEW c \in SetupChanges,
           Done(s, c) \/ Warned(s, c) \/ Waived(s, c)
    PROVE  /\ left' \in [Setups -> SUBSET SetupChanges] /\ failed' \in [Setups -> SUBSET SetupChanges]
           /\ skipped' \in [Setups -> SUBSET SetupChanges]
BY DEF OidcTypeOK, Done, Warned, Waived

LEMMA SetupStep ==
    ASSUME NEW s \in Setups, OidcTypeOK, SetupOK(s),
           \/ FindRepo(s) \/ Configure(s) \/ ConfirmSetup(s) \/ ProvideIdentity(s)
           \/ AssignClusterUser(s) \/ AssignRole(s) \/ RolesAnswered(s) \/ ProbeRoles(s)
           \/ AssignWriter(s) \/ TrustRepo(s) \/ ReadNamespace(s) \/ Annotate(s) \/ ShowResults(s)
           \/ CheckAccess(s) \/ FetchKey(s)
    PROVE  OidcTypeOK' /\ SetupEffect(s) /\ SetupOK(s)'
<1> USE TargetsAssumption, FreshAnswer, PlanOf, SecretNames, RoleNames
    DEF OidcTypeOK, SetupOK, SetupGoes, EndSetup, NoChange, identities
<1>1. CASE FindRepo(s)
  <2>1. OidcTypeOK'
    BY <1>1 DEF FindRepo, SetupSteps, SetupEnds
  <2>2. SetupEffect(s)
    BY <1>1 DEF FindRepo, SetupEffect, HasSet, HasTrusted, LeftAt
  <2>3. LeftAt(s)'
    BY <1>1 DEF FindRepo, LeftAt, ManagedTargets
  <2>4. SetupKnows(s)'
    BY <1>1 DEF FindRepo, SetupKnows, LeftAt
  <2>5. RolesMade(s)'
    BY <1>1 DEF FindRepo, RolesMade, SetupKnows, LeftAt
  <2>6. SecretsMade(s)'
    BY <1>1 DEF FindRepo, SecretsMade, SetupKnows, HasSet, LeftAt
  <2>7. TrustMade(s)'
    BY <1>1 DEF FindRepo, TrustMade, SetupKnows, HasTrusted, LeftAt
  <2> QED BY <2>1, <2>2, <2>3, <2>4, <2>5, <2>6, <2>7
<1>2. CASE Configure(s)
  <2>1. OidcTypeOK'
    <3>1. id' \in [Setups -> Identities \cup {NoAnswer}]
      BY <1>2 DEF Configure
    <3>2. setupAt' \in [Setups -> SetupSteps] /\ setupTold' \in [Setups -> SetupEnds \cup {"none"}]
      BY <1>2 DEF Configure, SetupSteps, SetupEnds
    <3> QED BY <1>2, <3>1, <3>2 DEF Configure
  <2>2. SetupEffect(s)
    BY <1>2 DEF Configure, SetupEffect, HasSet, HasTrusted, LeftAt
  <2>3. LeftAt(s)'
    BY <1>2 DEF Configure, LeftAt, ManagedTargets
  <2>4. SetupKnows(s)'
    BY <1>2 DEF Configure, SetupKnows, LeftAt
  <2>5. RolesMade(s)'
    BY <1>2 DEF Configure, RolesMade, SetupKnows, LeftAt
  <2>6. SecretsMade(s)'
    BY <1>2 DEF Configure, SecretsMade, SetupKnows, HasSet, LeftAt
  <2>7. TrustMade(s)'
    BY <1>2 DEF Configure, TrustMade, SetupKnows, HasTrusted, LeftAt
  <2> QED BY <2>1, <2>2, <2>3, <2>4, <2>5, <2>6, <2>7
<1>3. CASE ConfirmSetup(s)
  <2>1. OidcTypeOK'
    BY <1>3 DEF ConfirmSetup, Ask, SetupSteps, SetupEnds
  <2>2. SetupEffect(s)
    BY <1>3 DEF ConfirmSetup, Ask, SetupEffect, HasSet, HasTrusted, LeftAt
  <2>3. LeftAt(s)'
    BY <1>3 DEF ConfirmSetup, Ask, LeftAt, ManagedTargets
  <2>4. SetupKnows(s)'
    BY <1>3 DEF ConfirmSetup, Ask, SetupKnows, LeftAt
  <2>5. RolesMade(s)'
    BY <1>3 DEF ConfirmSetup, Ask, RolesMade, SetupKnows, LeftAt
  <2>6. SecretsMade(s)'
    BY <1>3 DEF ConfirmSetup, Ask, SecretsMade, SetupKnows, HasSet, LeftAt
  <2>7. TrustMade(s)'
    BY <1>3 DEF ConfirmSetup, Ask, TrustMade, SetupKnows, HasTrusted, LeftAt
  <2> QED BY <2>1, <2>2, <2>3, <2>4, <2>5, <2>6, <2>7
<1>4. CASE ProvideIdentity(s)
  <2>1. OidcTypeOK'
    <3>1. left' \in [Setups -> SUBSET SetupChanges] /\ failed' \in [Setups -> SUBSET SetupChanges]
          /\ skipped' \in [Setups -> SUBSET SetupChanges]
      BY <1>4, Accounting DEF ProvideIdentity, SetupChanges
    <3>2. setupAt' \in [Setups -> SetupSteps] /\ setupTold' \in [Setups -> SetupEnds \cup {"none"}]
      BY <1>4 DEF ProvideIdentity, AssignStep, SetupSteps, SetupEnds
    <3>3. UNCHANGED identities
      BY <1>4 DEF ProvideIdentity, AssignStep, Done, LeftAt, SetupKnows
    <3> QED BY <1>4, <3>1, <3>2, <3>3 DEF ProvideIdentity
  <2>2. SetupEffect(s)
    BY <1>4 DEF ProvideIdentity, AssignStep, Done, SetupEffect, HasSet, HasTrusted, LeftAt
  <2>3. LeftAt(s)'
    <3>1. CASE SetupGoes(s, "identity", AssignStep(targets[s])) /\ Done(s, "identity")
      <4>1. left'[s] = left[s] \ {"identity"} /\ setupAt'[s] = AssignStep(targets[s])
            /\ targets'[s] = targets[s] /\ setupTold'[s] = "none" /\ setupAt[s] = "identity"
        BY <3>1 DEF Done
      <4>2. targets[s] \in TargetKinds
        OBVIOUS
      <4> HIDE DEF OidcTypeOK
      <4>3. CASE targets[s] \in ManagedTargets
        BY <4>1, <4>2, <4>3 DEF LeftAt, ManagedTargets, AssignStep
      <4>4. CASE targets[s] \notin ManagedTargets
        BY <4>1, <4>2, <4>4 DEF LeftAt, ManagedTargets, AssignStep, TargetKinds
      <4> QED BY <4>3, <4>4
    <3>2. CASE EndSetup(s, "identity", "failed") /\ NoChange
      BY <3>2 DEF LeftAt
    <3> QED BY <1>4, <3>1, <3>2 DEF ProvideIdentity
  <2>4. SetupKnows(s)'
    BY <1>4 DEF ProvideIdentity, AssignStep, Done, SetupKnows, LeftAt
  <2>5. RolesMade(s)'
    BY <1>4 DEF ProvideIdentity, AssignStep, Done, RolesMade, SetupKnows, LeftAt
  <2>6. SecretsMade(s)'
    BY <1>4 DEF ProvideIdentity, AssignStep, Done, SecretsMade, SetupKnows, HasSet, LeftAt
  <2>7. TrustMade(s)'
    BY <1>4 DEF ProvideIdentity, AssignStep, Done, TrustMade, SetupKnows, HasTrusted, LeftAt
  <2> QED BY <2>1, <2>2, <2>3, <2>4, <2>5, <2>6, <2>7
<1>5. CASE AssignClusterUser(s)
  <2>1. OidcTypeOK'
    <3>1. left' \in [Setups -> SUBSET SetupChanges] /\ failed' \in [Setups -> SUBSET SetupChanges]
          /\ skipped' \in [Setups -> SUBSET SetupChanges]
      BY <1>5, Accounting DEF AssignClusterUser, SetupChanges
    <3>2. setupAt' \in [Setups -> SetupSteps] /\ setupTold' \in [Setups -> SetupEnds \cup {"none"}]
      BY <1>5 DEF AssignClusterUser, SetupSteps, SetupEnds
    <3>3. holds' \in SUBSET (Identities \X Roles)
      BY <1>5 DEF AssignClusterUser, Assigned, Done, LeftAt, SetupKnows
    <3> QED BY <1>5, <3>1, <3>2, <3>3 DEF AssignClusterUser
  <2>2. SetupEffect(s)
    BY <1>5 DEF AssignClusterUser, Assigned, Done, SetupEffect, HasSet, HasTrusted, LeftAt
  <2>3. LeftAt(s)'
    <3>1. CASE /\ SetupGoes(s, "user", IF targets[s] = "userAcr" THEN "roles" ELSE "trust")
               /\ Done(s, "clusterUser")
      <4>1. /\ left'[s] = left[s] \ {"clusterUser"}
            /\ setupAt'[s] = IF targets[s] = "userAcr" THEN "roles" ELSE "trust"
            /\ targets'[s] = targets[s] /\ setupTold'[s] = "none" /\ setupAt[s] = "user"
        BY <3>1 DEF Done
      <4>2. targets[s] \in TargetKinds
        OBVIOUS
      <4> HIDE DEF OidcTypeOK
      <4>3. CASE targets[s] \in ManagedTargets
        BY <4>1, <4>2, <4>3 DEF LeftAt, ManagedTargets, AssignStep
      <4>4. CASE targets[s] \notin ManagedTargets
        BY <4>1, <4>2, <4>4 DEF LeftAt, ManagedTargets, AssignStep, TargetKinds
      <4> QED BY <4>3, <4>4
    <3>2. CASE EndSetup(s, "user", "failed") /\ NoChange
      BY <3>2 DEF LeftAt
    <3> QED BY <1>5, <3>1, <3>2 DEF AssignClusterUser
  <2>4. SetupKnows(s)'
    BY <1>5 DEF AssignClusterUser, Assigned, Done, SetupKnows, LeftAt
  <2>5. RolesMade(s)'
    BY <1>5 DEF AssignClusterUser, Assigned, Done, RolesMade, SetupKnows, LeftAt
  <2>6. SecretsMade(s)'
    BY <1>5 DEF AssignClusterUser, Assigned, Done, SecretsMade, SetupKnows, HasSet, LeftAt
  <2>7. TrustMade(s)'
    BY <1>5 DEF AssignClusterUser, Assigned, Done, TrustMade, SetupKnows, HasTrusted, LeftAt
  <2> QED BY <2>1, <2>2, <2>3, <2>4, <2>5, <2>6, <2>7
<1>6. CASE AssignRole(s)
  <2>1. OidcTypeOK'
    <3>1. left' \in [Setups -> SUBSET SetupChanges] /\ failed' \in [Setups -> SUBSET SetupChanges]
          /\ skipped' \in [Setups -> SUBSET SetupChanges]
      BY <1>6, Accounting DEF AssignRole, Together, SetupChanges
    <3>2. setupAt' \in [Setups -> SetupSteps] /\ setupTold' \in [Setups -> SetupEnds \cup {"none"}]
      BY <1>6 DEF AssignRole, SetupSteps, SetupEnds
    <3>3. holds' \in SUBSET (Identities \X Roles)
      BY <1>6 DEF AssignRole, Assigned, Done, Warned, LeftAt, SetupKnows
    <3> QED BY <1>6, <3>1, <3>2, <3>3 DEF AssignRole
  <2>2. SetupEffect(s)
    BY <1>6 DEF AssignRole, Assigned, Done, Warned, SetupEffect, HasSet, HasTrusted, LeftAt
  <2>3. LeftAt(s)'
    BY <1>6 DEF AssignRole, Assigned, Done, Warned, LeftAt, ManagedTargets
  <2>4. SetupKnows(s)'
    BY <1>6 DEF AssignRole, Assigned, Done, Warned, SetupKnows, LeftAt
  <2>5. RolesMade(s)'
    BY <1>6 DEF AssignRole, Assigned, Done, Warned, RolesMade, SetupKnows, LeftAt
  <2>6. SecretsMade(s)'
    BY <1>6 DEF AssignRole, Assigned, Done, Warned, SecretsMade, SetupKnows, HasSet, LeftAt
  <2>7. TrustMade(s)'
    BY <1>6 DEF AssignRole, Assigned, Done, Warned, TrustMade, SetupKnows, HasTrusted, LeftAt
  <2> QED BY <2>1, <2>2, <2>3, <2>4, <2>5, <2>6, <2>7
<1>7. CASE RolesAnswered(s)
  <2>1. OidcTypeOK'
    BY <1>7 DEF RolesAnswered, SetupSteps, SetupEnds
  <2>2. SetupEffect(s)
    BY <1>7 DEF RolesAnswered, SetupEffect, HasSet, HasTrusted, LeftAt
  <2>3. LeftAt(s)'
    BY <1>7 DEF RolesAnswered, LeftAt, ManagedTargets
  <2>4. SetupKnows(s)'
    BY <1>7 DEF RolesAnswered, SetupKnows, LeftAt
  <2>5. RolesMade(s)'
    BY <1>7 DEF RolesAnswered, RolesMade, SetupKnows, LeftAt
  <2>6. SecretsMade(s)'
    BY <1>7 DEF RolesAnswered, SecretsMade, SetupKnows, HasSet, LeftAt
  <2>7. TrustMade(s)'
    BY <1>7 DEF RolesAnswered, TrustMade, SetupKnows, HasTrusted, LeftAt
  <2> QED BY <2>1, <2>2, <2>3, <2>4, <2>5, <2>6, <2>7
<1>8. CASE ProbeRoles(s)
  <2>1. OidcTypeOK'
    <3>1. left' \in [Setups -> SUBSET SetupChanges] /\ failed' \in [Setups -> SUBSET SetupChanges]
          /\ skipped' \in [Setups -> SUBSET SetupChanges]
      BY <1>8, Accounting DEF ProbeRoles, SetupChanges
    <3>2. setupAt' \in [Setups -> SetupSteps] /\ setupTold' \in [Setups -> SetupEnds \cup {"none"}]
      BY <1>8 DEF ProbeRoles, SetupSteps, SetupEnds
    <3>3. UNCHANGED identities
      BY <1>8 DEF ProbeRoles, Waived, LeftAt, SetupKnows
    <3> QED BY <1>8, <3>1, <3>2, <3>3 DEF ProbeRoles
  <2>2. SetupEffect(s)
    BY <1>8 DEF ProbeRoles, Waived, SetupEffect, HasSet, HasTrusted, LeftAt
  <2>3. LeftAt(s)'
    BY <1>8 DEF ProbeRoles, Waived, LeftAt, ManagedTargets
  <2>4. SetupKnows(s)'
    BY <1>8 DEF ProbeRoles, Waived, SetupKnows, LeftAt
  <2>5. RolesMade(s)'
    BY <1>8 DEF ProbeRoles, Waived, RolesMade, SetupKnows, LeftAt
  <2>6. SecretsMade(s)'
    BY <1>8 DEF ProbeRoles, Waived, SecretsMade, SetupKnows, HasSet, LeftAt
  <2>7. TrustMade(s)'
    BY <1>8 DEF ProbeRoles, Waived, TrustMade, SetupKnows, HasTrusted, LeftAt
  <2> QED BY <2>1, <2>2, <2>3, <2>4, <2>5, <2>6, <2>7
<1>9. CASE AssignWriter(s)
  <2>1. OidcTypeOK'
    <3>1. left' \in [Setups -> SUBSET SetupChanges] /\ failed' \in [Setups -> SUBSET SetupChanges]
          /\ skipped' \in [Setups -> SUBSET SetupChanges]
      BY <1>9, Accounting DEF AssignWriter, SetupChanges
    <3>2. setupAt' \in [Setups -> SetupSteps] /\ setupTold' \in [Setups -> SetupEnds \cup {"none"}]
      BY <1>9 DEF AssignWriter, SetupSteps, SetupEnds
    <3>3. holds' \in SUBSET (Identities \X Roles)
      BY <1>9 DEF AssignWriter, Assigned, Done, Warned, LeftAt, SetupKnows
    <3> QED BY <1>9, <3>1, <3>2, <3>3 DEF AssignWriter
  <2>2. SetupEffect(s)
    BY <1>9 DEF AssignWriter, Assigned, Done, Warned, SetupEffect, HasSet, HasTrusted, LeftAt
  <2>3. LeftAt(s)'
    BY <1>9 DEF AssignWriter, Assigned, Done, Warned, LeftAt, ManagedTargets
  <2>4. SetupKnows(s)'
    BY <1>9 DEF AssignWriter, Assigned, Done, Warned, SetupKnows, LeftAt
  <2>5. RolesMade(s)'
    BY <1>9 DEF AssignWriter, Assigned, Done, Warned, RolesMade, SetupKnows, LeftAt
  <2>6. SecretsMade(s)'
    BY <1>9 DEF AssignWriter, Assigned, Done, Warned, SecretsMade, SetupKnows, HasSet, LeftAt
  <2>7. TrustMade(s)'
    BY <1>9 DEF AssignWriter, Assigned, Done, Warned, TrustMade, SetupKnows, HasTrusted, LeftAt
  <2> QED BY <2>1, <2>2, <2>3, <2>4, <2>5, <2>6, <2>7
<1>10. CASE TrustRepo(s)
  <2>1. OidcTypeOK'
    <3>1. left' \in [Setups -> SUBSET SetupChanges] /\ failed' \in [Setups -> SUBSET SetupChanges]
          /\ skipped' \in [Setups -> SUBSET SetupChanges]
      BY <1>10, Accounting DEF TrustRepo, SetupChanges
    <3>2. setupAt' \in [Setups -> SetupSteps] /\ setupTold' \in [Setups -> SetupEnds \cup {"none"}]
      BY <1>10 DEF TrustRepo, SetupSteps, SetupEnds
    <3>3. trusts' \in [Identities -> SetupRepos \cup {NoAnswer}]
      BY <1>10 DEF TrustRepo, Done, LeftAt, SetupKnows
    <3> QED BY <1>10, <3>1, <3>2, <3>3 DEF TrustRepo
  <2>2. SetupEffect(s)
    BY <1>10 DEF TrustRepo, Done, SetupEffect, HasSet, HasTrusted, LeftAt
  <2>3. LeftAt(s)'
    <3>1. CASE /\ SetupGoes(s, "trust",
                      IF targets[s] \in {"managed", "managedAcr"} THEN "read" ELSE "results")
               /\ Done(s, "trust")
      <4>1. /\ left'[s] = left[s] \ {"trust"}
            /\ setupAt'[s] = IF targets[s] \in {"managed", "managedAcr"} THEN "read" ELSE "results"
            /\ targets'[s] = targets[s] /\ setupTold'[s] = "none" /\ setupAt[s] = "trust"
        BY <3>1 DEF Done
      <4>2. targets[s] \in TargetKinds
        OBVIOUS
      <4> HIDE DEF OidcTypeOK
      <4>3. CASE targets[s] \in ManagedTargets
        BY <4>1, <4>2, <4>3 DEF LeftAt, ManagedTargets, AssignStep
      <4>4. CASE targets[s] \notin ManagedTargets
        BY <4>1, <4>2, <4>4 DEF LeftAt, ManagedTargets, AssignStep, TargetKinds
      <4> QED BY <4>3, <4>4
    <3>2. CASE EndSetup(s, "trust", "failed") /\ NoChange
      BY <3>2 DEF LeftAt
    <3> QED BY <1>10, <3>1, <3>2 DEF TrustRepo
  <2>4. SetupKnows(s)'
    BY <1>10 DEF TrustRepo, Done, SetupKnows, LeftAt
  <2>5. RolesMade(s)'
    BY <1>10 DEF TrustRepo, Done, RolesMade, SetupKnows, LeftAt
  <2>6. SecretsMade(s)'
    BY <1>10 DEF TrustRepo, Done, SecretsMade, SetupKnows, HasSet, LeftAt
  <2>7. TrustMade(s)'
    BY <1>10 DEF TrustRepo, Done, TrustMade, SetupKnows, HasTrusted, LeftAt
  <2> QED BY <2>1, <2>2, <2>3, <2>4, <2>5, <2>6, <2>7
<1>11. CASE ReadNamespace(s)
  <2>1. OidcTypeOK'
    <3>1. left' \in [Setups -> SUBSET SetupChanges] /\ failed' \in [Setups -> SUBSET SetupChanges]
          /\ skipped' \in [Setups -> SUBSET SetupChanges]
      BY <1>11, Accounting DEF ReadNamespace, SetupChanges
    <3>2. setupAt' \in [Setups -> SetupSteps] /\ setupTold' \in [Setups -> SetupEnds \cup {"none"}]
      BY <1>11 DEF ReadNamespace, SetupSteps, SetupEnds
    <3>3. UNCHANGED identities
      BY <1>11 DEF ReadNamespace, Warned, LeftAt, SetupKnows
    <3> QED BY <1>11, <3>1, <3>2, <3>3 DEF ReadNamespace
  <2>2. SetupEffect(s)
    BY <1>11 DEF ReadNamespace, Warned, SetupEffect, HasSet, HasTrusted, LeftAt
  <2>3. LeftAt(s)'
    BY <1>11 DEF ReadNamespace, Warned, LeftAt, ManagedTargets
  <2>4. SetupKnows(s)'
    BY <1>11 DEF ReadNamespace, Warned, SetupKnows, LeftAt
  <2>5. RolesMade(s)'
    BY <1>11 DEF ReadNamespace, Warned, RolesMade, SetupKnows, LeftAt
  <2>6. SecretsMade(s)'
    BY <1>11 DEF ReadNamespace, Warned, SecretsMade, SetupKnows, HasSet, LeftAt
  <2>7. TrustMade(s)'
    BY <1>11 DEF ReadNamespace, Warned, TrustMade, SetupKnows, HasTrusted, LeftAt
  <2> QED BY <2>1, <2>2, <2>3, <2>4, <2>5, <2>6, <2>7
<1>12. CASE Annotate(s)
  <2>1. OidcTypeOK'
    <3>1. left' \in [Setups -> SUBSET SetupChanges] /\ failed' \in [Setups -> SUBSET SetupChanges]
          /\ skipped' \in [Setups -> SUBSET SetupChanges]
      BY <1>12, Accounting DEF Annotate, SetupChanges
    <3>2. setupAt' \in [Setups -> SetupSteps] /\ setupTold' \in [Setups -> SetupEnds \cup {"none"}]
      BY <1>12 DEF Annotate, SetupSteps, SetupEnds
    <3>3. stamp' \in Identities \cup {NoAnswer}
      BY <1>12 DEF Annotate, Done, Warned, LeftAt, SetupKnows
    <3> QED BY <1>12, <3>1, <3>2, <3>3 DEF Annotate
  <2>2. SetupEffect(s)
    BY <1>12 DEF Annotate, Done, Warned, SetupEffect, HasSet, HasTrusted, LeftAt
  <2>3. LeftAt(s)'
    BY <1>12 DEF Annotate, Done, Warned, LeftAt, ManagedTargets
  <2>4. SetupKnows(s)'
    BY <1>12 DEF Annotate, Done, Warned, SetupKnows, LeftAt
  <2>5. RolesMade(s)'
    BY <1>12 DEF Annotate, Done, Warned, RolesMade, SetupKnows, LeftAt
  <2>6. SecretsMade(s)'
    BY <1>12 DEF Annotate, Done, Warned, SecretsMade, SetupKnows, HasSet, LeftAt
  <2>7. TrustMade(s)'
    BY <1>12 DEF Annotate, Done, Warned, TrustMade, SetupKnows, HasTrusted, LeftAt
  <2> QED BY <2>1, <2>2, <2>3, <2>4, <2>5, <2>6, <2>7
<1>13. CASE ShowResults(s)
  <2>1. OidcTypeOK'
    <3>1. agreedTo' \in [Setups -> SUBSET {"setup", "secrets"}]
      BY <1>13 DEF ShowResults, Ask
    <3>2. setupAt' \in [Setups -> SetupSteps] /\ setupTold' \in [Setups -> SetupEnds \cup {"none"}]
      BY <1>13 DEF ShowResults, Ask, SetupSteps, SetupEnds
    <3> QED BY <1>13, <3>1, <3>2 DEF ShowResults, Ask
  <2>2. SetupEffect(s)
    BY <1>13 DEF ShowResults, Ask, SetupEffect, HasSet, HasTrusted, LeftAt
  <2>3. LeftAt(s)'
    BY <1>13 DEF ShowResults, Ask, LeftAt, ManagedTargets
  <2>4. SetupKnows(s)'
    BY <1>13 DEF ShowResults, Ask, SetupKnows, LeftAt
  <2>5. RolesMade(s)'
    BY <1>13 DEF ShowResults, Ask, RolesMade, SetupKnows, LeftAt
  <2>6. SecretsMade(s)'
    BY <1>13 DEF ShowResults, Ask, SecretsMade, SetupKnows, HasSet, LeftAt
  <2>7. TrustMade(s)'
    BY <1>13 DEF ShowResults, Ask, TrustMade, SetupKnows, HasTrusted, LeftAt
  <2> QED BY <2>1, <2>2, <2>3, <2>4, <2>5, <2>6, <2>7
<1>14. CASE CheckAccess(s)
  <2>1. OidcTypeOK'
    BY <1>14 DEF CheckAccess, SetupSteps, SetupEnds
  <2>2. SetupEffect(s)
    BY <1>14 DEF CheckAccess, SetupEffect, HasSet, HasTrusted, LeftAt
  <2>3. LeftAt(s)'
    BY <1>14 DEF CheckAccess, LeftAt, ManagedTargets
  <2>4. SetupKnows(s)'
    BY <1>14 DEF CheckAccess, SetupKnows, LeftAt
  <2>5. RolesMade(s)'
    BY <1>14 DEF CheckAccess, RolesMade, SetupKnows, LeftAt
  <2>6. SecretsMade(s)'
    BY <1>14 DEF CheckAccess, SecretsMade, SetupKnows, HasSet, LeftAt
  <2>7. TrustMade(s)'
    BY <1>14 DEF CheckAccess, TrustMade, SetupKnows, HasTrusted, LeftAt
  <2> QED BY <2>1, <2>2, <2>3, <2>4, <2>5, <2>6, <2>7
<1>15. CASE FetchKey(s)
  <2>1. OidcTypeOK'
    BY <1>15 DEF FetchKey, SecretOrder, SetupSteps, SetupEnds
  <2>2. SetupEffect(s)
    BY <1>15 DEF FetchKey, SecretOrder, SetupEffect, HasSet, HasTrusted, LeftAt
  <2>3. LeftAt(s)'
    BY <1>15 DEF FetchKey, SecretOrder, LeftAt, ManagedTargets
  <2>4. SetupKnows(s)'
    BY <1>15 DEF FetchKey, SecretOrder, SetupKnows, LeftAt
  <2>5. RolesMade(s)'
    BY <1>15 DEF FetchKey, SecretOrder, RolesMade, SetupKnows, LeftAt
  <2>6. SecretsMade(s)'
    BY <1>15 DEF FetchKey, SecretOrder, SecretsMade, SetupKnows, HasSet, LeftAt
  <2>7. TrustMade(s)'
    BY <1>15 DEF FetchKey, SecretOrder, TrustMade, SetupKnows, HasTrusted, LeftAt
  <2> QED BY <2>1, <2>2, <2>3, <2>4, <2>5, <2>6, <2>7
<1> QED BY <1>1, <1>2, <1>3, <1>4, <1>5, <1>6, <1>7, <1>8, <1>9, <1>10, <1>11, <1>12, <1>13, <1>14,
    <1>15

(* The three secrets are set one after the other.                          *)
LEMMA SecretStep ==
    ASSUME NEW s \in Setups, OidcTypeOK, SetupOK(s), SetSecret(s)
    PROVE  OidcTypeOK' /\ SetupEffect(s) /\ SetupOK(s)'
<1> USE SecretNames DEF SetupOK
<1>1. PICK n \in 1 .. 3 :
          /\ \/ secret' = Holding(s, SecretOrder[n]) /\ Done(s, SecretOrder[n])
             \/ SecretFailed(s, SecretOrder[n])
          /\ IF n < 3
             THEN SetupGoes(s, SecretOrder[n], SecretOrder[n + 1])
             ELSE EndSetup(s, SecretOrder[n],
                      IF failed'[s] \cap Secrets = {} THEN "ready"
                      ELSE IF failed'[s] \cap Secrets = Secrets THEN "unset" ELSE "partial")
  BY DEF SetSecret
<1> DEFINE name == SecretOrder[n]
<1>2. /\ name \in Secrets /\ setupAt[s] = name /\ setupTold[s] = "none"
      /\ UNCHANGED <<targets, repoInfo, id, agreedTo, identities>>
  BY <1>1 DEF SetSecret, Secrets, SetupGoes, EndSetup
<1>3. name \in SetupChanges /\ setupAt[s] \notin {"repo", "config", "confirm", "identity"}
  BY <1>2 DEF SetupChanges
<1>4. repoInfo[s] \in SetupRepos /\ id[s] \in Identities
  BY <1>2, <1>3 DEF SetupKnows
<1>5. Done(s, name) \/ Warned(s, name)
  BY <1>1 DEF SecretFailed
<1>6. /\ left' \in [Setups -> SUBSET SetupChanges] /\ failed' \in [Setups -> SUBSET SetupChanges]
      /\ skipped' \in [Setups -> SUBSET SetupChanges]
  BY <1>3, <1>5, Accounting
<1>7. left'[s] = left[s] \ {name} /\ skipped' = skipped
      /\ failed'[s] \in {failed[s], failed[s] \cup {name}}
  BY <1>5 DEF OidcTypeOK, Done, Warned
<1>8. /\ secret' \in {secret, Holding(s, name)}
      /\ name \in failed'[s] \/ secret' = Holding(s, name)
  BY <1>1, <1>6 DEF SecretFailed, Warned, OidcTypeOK
<1>9. /\ secret' \in [SetupRepos -> [Secrets -> Identities \cup {NoAnswer}]]
      /\ \A r \in SetupRepos, m \in Secrets :
            secret'[r][m] = secret[r][m] \/ (r = repoInfo[s] /\ secret'[r][m] = id[s])
      /\ secret' = Holding(s, name) => secret'[repoInfo[s]][name] = id[s]
  <2>1. CASE secret' = secret
    <3>1. secret[repoInfo[s]][name] = id[s] \/ secret' # Holding(s, name)
      BY <1>2, <1>4, <2>1 DEF OidcTypeOK, Holding
    <3>2. secret' \in [SetupRepos -> [Secrets -> Identities \cup {NoAnswer}]]
      BY <2>1 DEF OidcTypeOK
    <3> QED BY <2>1, <3>1, <3>2
  <2>2. CASE secret' = Holding(s, name)
    <3>1. secret[repoInfo[s]] \in [Secrets -> Identities \cup {NoAnswer}]
      BY <1>4 DEF OidcTypeOK
    <3> DEFINE row == [secret[repoInfo[s]] EXCEPT ![name] = id[s]]
    <3>2. row \in [Secrets -> Identities \cup {NoAnswer}] /\ row[name] = id[s]
          /\ \A m \in Secrets : row[m] = secret[repoInfo[s]][m] \/ row[m] = id[s]
      BY <1>2, <1>4, <3>1
    <3>3. secret' = [secret EXCEPT ![repoInfo[s]] = row]
      BY <2>2 DEF Holding
    <3> HIDE DEF row
    <3>4. secret' \in [SetupRepos -> [Secrets -> Identities \cup {NoAnswer}]]
      BY <1>4, <3>2, <3>3 DEF OidcTypeOK
    <3>5. /\ secret'[repoInfo[s]] = row
          /\ \A r \in SetupRepos : r # repoInfo[s] => secret'[r] = secret[r]
      BY <1>4, <3>3 DEF OidcTypeOK
    <3>6. \A r \in SetupRepos, m \in Secrets :
              secret'[r][m] = secret[r][m] \/ (r = repoInfo[s] /\ secret'[r][m] = id[s])
      BY <3>2, <3>5
    <3> QED BY <3>2, <3>4, <3>5, <3>6
  <2> QED BY <1>8, <2>1, <2>2
<1>10. CASE name # "subscriptionId"
  <2>1. n \in {1, 2}
    BY <1>10 DEF SecretOrder
  <2>2. /\ setupAt' = [setupAt EXCEPT ![s] = SecretOrder[n + 1]] /\ setupTold' = setupTold
        /\ SecretOrder[n + 1] = IF name = "clientId" THEN "tenantId" ELSE "subscriptionId"
    BY <1>1, <2>1 DEF SetupGoes, SecretOrder
  <2>3. setupAt' \in [Setups -> SetupSteps]
        /\ setupAt'[s] = IF name = "clientId" THEN "tenantId" ELSE "subscriptionId"
    BY <2>2 DEF OidcTypeOK, SetupSteps
  <2>4. OidcTypeOK'
    BY <1>2, <1>6, <1>9, <2>2, <2>3 DEF OidcTypeOK, identities
  <2>5. SetupEffect(s)
    BY <1>2, <1>5, <1>9, <2>2, <2>3
    DEF SetupEffect, OidcTypeOK, HasSet, HasTrusted, identities, Done, Warned
  <2>6. LeftAt(s)'
    BY <1>2, <1>7, <1>10, <2>2, <2>3 DEF LeftAt
  <2>7. SetupKnows(s)'
    BY <1>2, <1>3, <1>7, <1>10, <2>2, <2>3 DEF SetupKnows, LeftAt, Plan
  <2>8. RolesMade(s)' /\ TrustMade(s)'
    <3>1. \A c \in Roles \cup {"trust"} : c # name
      BY <1>2, RoleNames
    <3> QED BY <1>2, <1>7, <2>5, <3>1, PlanOf, TargetsAssumption
        DEF RolesMade, TrustMade, SetupEffect, OidcTypeOK, identities, HasTrusted
  <2>9. SecretsMade(s)'
    BY <1>2, <1>4, <1>7, <1>8, <1>9, <2>5 DEF SecretsMade, SetupEffect, HasSet
  <2> QED BY <2>4, <2>5, <2>6, <2>7, <2>8, <2>9
<1>11. CASE name = "subscriptionId"
  <2>1. n = 3
    BY <1>11 DEF SecretOrder
  <2> DEFINE told3 == IF failed'[s] \cap Secrets = {} THEN "ready"
                      ELSE IF failed'[s] \cap Secrets = Secrets THEN "unset" ELSE "partial"
  <2>2. setupAt' = setupAt /\ setupTold' = [setupTold EXCEPT ![s] = told3]
    BY <1>1, <2>1 DEF EndSetup
  <2>3. setupTold' \in [Setups -> SetupEnds \cup {"none"}] /\ setupTold'[s] = told3
        /\ told3 # "none"
    BY <2>2 DEF OidcTypeOK, SetupEnds
  <2>4. OidcTypeOK'
    BY <1>2, <1>6, <1>9, <2>2, <2>3 DEF OidcTypeOK, identities
  <2>5. SetupEffect(s)
    BY <1>2, <1>5, <1>9, <2>2
    DEF SetupEffect, OidcTypeOK, HasSet, HasTrusted, identities, Done, Warned
  <2>6. LeftAt(s)'
    BY <1>2, <1>7, <1>11, <2>2, <2>3 DEF LeftAt
  <2>7. SetupKnows(s)'
    BY <1>2, <1>3, <1>7, <1>11, <2>2, <2>3, <2>6 DEF SetupKnows, LeftAt, Plan
  <2>8. RolesMade(s)' /\ TrustMade(s)'
    <3>1. \A c \in Roles \cup {"trust"} : c # name
      BY <1>2, RoleNames
    <3> QED BY <1>2, <1>7, <2>5, <3>1, PlanOf, TargetsAssumption
        DEF RolesMade, TrustMade, SetupEffect, OidcTypeOK, identities, HasTrusted
  <2>9. SecretsMade(s)'
    BY <1>2, <1>4, <1>7, <1>8, <1>9, <2>5 DEF SecretsMade, SetupEffect, HasSet
  <2> QED BY <2>4, <2>5, <2>6, <2>7, <2>8, <2>9
<1> QED BY <1>2, <1>10, <1>11

LEMMA SetupInit == OidcInit => SetupInv
<1> SUFFICES ASSUME OidcInit PROVE SetupInv
  OBVIOUS
<1>1. \A s \in Setups : targets[s] \in TargetKinds
  BY TargetsAssumption DEF OidcInit
<1>2. OidcTypeOK
  BY <1>1, PlanOf DEF OidcInit, OidcTypeOK, SetupSteps
<1>3. ASSUME NEW s \in Setups PROVE SetupOK(s)
  BY <1>1, PlanOf, SecretNames DEF OidcInit, SetupOK, LeftAt, SetupKnows, RolesMade, SecretsMade,
     TrustMade, Plan, HasTrusted
<1> QED BY <1>2, <1>3 DEF SetupInv, SetupOK

LEMMA SetupNext == SetupInv /\ [OidcNext]_oidcVars => SetupInv'
<1> SUFFICES ASSUME SetupInv, [OidcNext]_oidcVars PROVE SetupInv'
  OBVIOUS
<1>1. OidcTypeOK /\ \A s \in Setups : SetupOK(s)
  BY DEF SetupInv, SetupOK
<1>2. CASE UNCHANGED oidcVars
  BY <1>2 DEF oidcVars, setup, identities, SetupInv, OidcTypeOK, LeftAt, SetupKnows, RolesMade,
     SecretsMade, TrustMade, HasSet, HasTrusted
<1>3. ASSUME NEW s \in Setups, OidcTypeOK', SetupEffect(s), SetupOK(s)'
      PROVE  SetupInv'
  <2>1. \A t \in Setups : SetupOK(t)'
    BY <1>1, <1>3, OtherSetups
  <2> QED BY <1>3, <2>1 DEF SetupInv, SetupOK
<1> QED BY <1>1, <1>2, <1>3, SetupStep, SecretStep DEF OidcNext

LEMMA SetupInvariance == OidcSpec => []SetupInv
BY SetupInit, SetupNext, PTL DEF OidcSpec

\* What "Your pipeline is ready to run." says is so, unless another setup has come to the same
\* secrets or the same identity's trust, for any number of setups, repositories and identities.
THEOREM ReadyIsTrue == OidcSpec => []ReadyMeansConfigured
<1>1. SetupInv => ReadyMeansConfigured
  BY SecretNames DEF SetupInv, SetupKnows, SecretsMade, TrustMade, ReadyMeansConfigured
<1> QED BY <1>1, SetupInvariance, PTL

\* No role that the target calls for is lost without a word.
THEOREM RolesAccounted == OidcSpec => []RolesHeldOrReported
<1> SUFFICES SetupInv => RolesHeldOrReported
  BY SetupInvariance, PTL
<1> SUFFICES ASSUME SetupInv, NEW s \in Setups, "trust" \notin left[s], NEW r \in RolesFor(targets[s])
             PROVE  <<id[s], r>> \in holds \/ r \in failed[s] \cup skipped[s]
  BY DEF RolesHeldOrReported
<1>1. targets[s] \in TargetKinds /\ LeftAt(s) /\ RolesMade(s) /\ setupAt[s] \in SetupSteps
  BY TargetsAssumption DEF SetupInv, OidcTypeOK
<1>2. r \in Roles /\ r # "annotation" /\ r \notin Secrets
  BY <1>1, PlanOf, RoleNames, SecretNames
<1>3. r \notin left[s]
  BY <1>1, <1>2, PlanOf, SecretNames, RoleNames DEF LeftAt, SetupSteps, Plan, ManagedTargets
<1> QED BY <1>1, <1>3 DEF RolesMade

-----------------------------------------------------------------------------
(* The setup of the identity: the promise                                  *)

MadeBy(s) == SetupChanges \ (left[s] \cup SetupExcused(s))

(* A setup goes on: what it takes off its list was agreed to, or is reported. *)
Progress(s) ==
    /\ targets' = targets /\ setupTold[s] = "none" /\ agreedTo[s] \subseteq agreedTo'[s]
    /\ setupTold'[s] # "none" => agreedTo'[s] = agreedTo[s]
    /\ left'[s] \subseteq left[s]
    /\ failed[s] \subseteq failed'[s] /\ skipped[s] \subseteq skipped'[s]
    /\ failed'[s] \cup skipped'[s] \subseteq failed[s] \cup skipped[s] \cup left[s]
    /\ \A e \in left[s] \ left'[s] : SetupKindOf[e] \in agreedTo[s]
    /\ setupTold'[s] \in SetupEnds \cup {"none"}

(* The change that a setup is about to make is one that it has to make.    *)
LEMMA StillLeft ==
    ASSUME NEW s \in Setups, OidcTypeOK, LeftAt(s)
    PROVE  /\ setupAt[s] = "identity" => "identity" \in left[s]
           /\ setupAt[s] = "user" => "clusterUser" \in left[s]
           /\ setupAt[s] \in {"probe", "writer"} => "clusterWriter" \in left[s]
           /\ setupAt[s] = "trust" => "trust" \in left[s]
           /\ setupAt[s] \in {"read", "annotate"} => "annotation" \in left[s]
           /\ setupAt[s] \in Secrets /\ setupTold[s] = "none" => setupAt[s] \in left[s]
<1>1. targets[s] \in TargetKinds
  BY TargetsAssumption DEF OidcTypeOK
<1>2. setupAt[s] \in {"probe", "writer"} => "clusterWriter" \in left[s]
  BY <1>1, PlanOf DEF LeftAt
<1>3. setupAt[s] = "user" => "clusterUser" \in left[s]
  BY <1>1, PlanOf DEF LeftAt
<1>4. setupAt[s] = "trust" => "trust" \in left[s]
  BY <1>1, PlanOf, RoleNames DEF LeftAt
<1>5. setupAt[s] = "identity" => "identity" \in left[s]
  BY <1>1, PlanOf DEF LeftAt
<1> QED BY <1>2, <1>3, <1>4, <1>5, SecretNames DEF LeftAt

LEMMA Progresses ==
    ASSUME NEW s \in Setups, OidcTypeOK, SetupOK(s),
           \/ FindRepo(s) \/ Configure(s) \/ ConfirmSetup(s) \/ ProvideIdentity(s)
           \/ AssignClusterUser(s) \/ AssignRole(s) \/ RolesAnswered(s) \/ ProbeRoles(s)
           \/ AssignWriter(s) \/ TrustRepo(s) \/ ReadNamespace(s) \/ Annotate(s) \/ ShowResults(s)
           \/ CheckAccess(s) \/ FetchKey(s) \/ SetSecret(s)
    PROVE  Progress(s)
<1>1. \A e \in SetupChanges : SetupKindOf[e] = IF e \in Secrets THEN "secrets" ELSE "setup"
  BY DEF SetupKindOf
<1>2. SetupKnows(s) /\ LeftAt(s)
  BY DEF SetupOK
<1>3. ASSUME NEW e \in SetupChanges, Done(s, e) \/ Warned(s, e) \/ Waived(s, e), e \in left[s],
             e \in Secrets => "secrets" \in agreedTo[s], "setup" \in agreedTo[s],
             setupTold[s] = "none", setupTold'[s] \in SetupEnds \cup {"none"},
             targets' = targets, agreedTo' = agreedTo
      PROVE  Progress(s)
  BY <1>1, <1>3 DEF Progress, OidcTypeOK, Done, Warned, Waived
<1>4. ASSUME NoChange, setupTold[s] = "none", setupTold'[s] \in SetupEnds \cup {"none"},
             targets' = targets, agreedTo[s] \subseteq agreedTo'[s],
             setupTold'[s] # "none" => agreedTo'[s] = agreedTo[s]
      PROVE  Progress(s)
  BY <1>4 DEF Progress, NoChange
<1>5. CASE FindRepo(s) \/ Configure(s) \/ RolesAnswered(s) \/ CheckAccess(s) \/ FetchKey(s)
  BY <1>4, <1>5 DEF FindRepo, Configure, RolesAnswered, CheckAccess, FetchKey, SetupGoes, EndSetup,
     SetupEnds, OidcTypeOK
<1>6. CASE ConfirmSetup(s) \/ ShowResults(s)
  BY <1>4, <1>6 DEF ConfirmSetup, ShowResults, Ask, SetupGoes, EndSetup, SetupEnds, OidcTypeOK
<1> USE <1>2, StillLeft, SecretNames DEF SetupGoes, EndSetup, SetupKnows, SetupEnds, OidcTypeOK
<1>7. CASE ProvideIdentity(s)
  <2>1. "identity" \in left[s] /\ "identity" \in SetupChanges \ Secrets
    BY <1>7 DEF ProvideIdentity
  <2> QED BY <1>3, <1>4, <1>7, <2>1 DEF ProvideIdentity
<1>8. CASE AssignClusterUser(s)
  <2>1. "clusterUser" \in left[s] /\ "clusterUser" \in SetupChanges \ Secrets
    BY <1>8 DEF AssignClusterUser
  <2> QED BY <1>3, <1>4, <1>8, <2>1 DEF AssignClusterUser
<1>9. CASE AssignRole(s)
  <2>1. Together(targets[s]) \cap Secrets = {}
    BY TargetsAssumption, PlanOf
  <2> QED BY <1>3, <1>9, <2>1 DEF AssignRole
<1>10. CASE ProbeRoles(s)
  <2>1. "clusterWriter" \in left[s] /\ "clusterWriter" \in SetupChanges \ Secrets
    BY <1>10 DEF ProbeRoles
  <2> QED BY <1>3, <1>4, <1>10, <2>1 DEF ProbeRoles
<1>11. CASE AssignWriter(s)
  <2>1. "clusterWriter" \in left[s] /\ "clusterWriter" \in SetupChanges \ Secrets
    BY <1>11 DEF AssignWriter
  <2> QED BY <1>3, <1>11, <2>1 DEF AssignWriter
<1>12. CASE TrustRepo(s)
  <2>1. "trust" \in left[s] /\ "trust" \in SetupChanges \ Secrets
    BY <1>12 DEF TrustRepo
  <2> QED BY <1>3, <1>4, <1>12, <2>1 DEF TrustRepo
<1>13. CASE ReadNamespace(s)
  <2>1. "annotation" \in left[s] /\ "annotation" \in SetupChanges \ Secrets
    BY <1>13 DEF ReadNamespace
  <2> QED BY <1>3, <1>4, <1>13, <2>1 DEF ReadNamespace
<1>14. CASE Annotate(s)
  <2>1. "annotation" \in left[s] /\ "annotation" \in SetupChanges \ Secrets
    BY <1>14 DEF Annotate
  <2> QED BY <1>3, <1>14, <2>1 DEF Annotate
<1>15. CASE SetSecret(s)
  <2>1. PICK n \in 1 .. 3 :
            /\ Done(s, SecretOrder[n]) \/ Warned(s, SecretOrder[n])
            /\ IF n < 3
               THEN SetupGoes(s, SecretOrder[n], SecretOrder[n + 1])
               ELSE EndSetup(s, SecretOrder[n],
                        IF failed'[s] \cap Secrets = {} THEN "ready"
                        ELSE IF failed'[s] \cap Secrets = Secrets THEN "unset" ELSE "partial")
    BY <1>15 DEF SetSecret, SecretFailed
  <2> DEFINE name == SecretOrder[n]
  <2>2. name \in Secrets /\ setupAt[s] = name /\ setupTold[s] = "none" /\ targets' = targets
    BY <2>1 DEF Secrets
  <2>3. setupTold'[s] \in SetupEnds \cup {"none"}
    BY <2>1
  <2>4. name \in left[s] /\ name \in SetupChanges
    BY <2>2
  <2>5. agreedTo' = agreedTo /\ "setup" \in agreedTo[s] /\ "secrets" \in agreedTo[s]
    BY <1>15, <2>2 DEF SetSecret
  <2> QED BY <1>3, <2>1, <2>2, <2>3, <2>4, <2>5
<1> QED BY <1>5, <1>6, <1>7, <1>8, <1>9, <1>10, <1>11, <1>12, <1>13, <1>14, <1>15

LEMMA SetupStepKeepsPromise ==
    ASSUME NEW s \in Setups, OidcTypeOK, OidcTypeOK', SetupOK(s), SetupOK(s)', SetupEffect(s),
           Progress(s)
    PROVE  SetupPromise!Next
<1>1. \A t \in Setups \ {s} :
        /\ agreedTo'[t] = agreedTo[t] /\ MadeBy(t)' = MadeBy(t)
        /\ SetupExcused(t)' = SetupExcused(t) /\ Outcome(t)' = Outcome(t)
  BY DEF SetupEffect, MadeBy, SetupExcused, Outcome
<1>2. targets'[s] = targets[s] /\ Plan(targets[s]) \subseteq SetupChanges
  BY TargetsAssumption, PlanOf DEF Progress, OidcTypeOK
<1>3. /\ left[s] \subseteq SetupChanges /\ left[s] \cap (failed[s] \cup skipped[s]) = {}
      /\ left'[s] \cap (failed'[s] \cup skipped'[s]) = {}
  BY DEF OidcTypeOK, SetupOK, SetupKnows
<1>4. left[s] \subseteq Plan(targets[s])
  BY TargetsAssumption, PlanOf, SecretNames, RoleNames DEF SetupOK, LeftAt, OidcTypeOK, SetupSteps,
     ManagedTargets
<1>5. Outcome(s) = "open" /\ Outcome(s)' \in {"open", "complete", "stopped"}
  BY DEF Progress, Outcome
<1>6. /\ agreedTo[s] \subseteq agreedTo'[s] /\ SetupExcused(s) \subseteq SetupExcused(s)'
      /\ MadeBy(s) \subseteq MadeBy(s)'
  BY <1>2, <1>3 DEF Progress, SetupExcused, MadeBy
<1>7. \A e \in MadeBy(s)' \ MadeBy(s) : SetupKindOf[e] \in agreedTo[s]
  BY <1>2, <1>3, <1>6 DEF Progress, SetupExcused, MadeBy
<1>8. SetupPromise!Others(s)
  BY <1>1 DEF SetupPromise!Others, MadeBy
<1>9. CASE Outcome(s)' = "open"
  <2>1. SetupPromise!Work(s)
    BY <1>1, <1>5, <1>6, <1>7, <1>9 DEF SetupPromise!Work, MadeBy
  <2> QED BY <1>8, <2>1 DEF SetupPromise!Next
<1>10. CASE Outcome(s)' # "open"
  <2>1. agreedTo'[s] = agreedTo[s]
    BY <1>10 DEF Outcome, Progress
  <2>2. Outcome(s)' = "complete" => SetupChanges \subseteq MadeBy(s)' \cup SetupExcused(s)'
    BY DEF Outcome, SetupOK, SetupKnows, MadeBy
  <2>3. SetupPromise!End(s)
    BY <1>5, <1>6, <1>7, <1>10, <2>1, <2>2 DEF SetupPromise!End, MadeBy
  <2> QED BY <1>8, <2>3 DEF SetupPromise!Next
<1> QED BY <1>9, <1>10

\* The setup changes only what was agreed to, and calls the pipeline ready only when all that its
\* target calls for is done, was reported as failed, or was found not to be needed.
THEOREM SetupsKeepPromise == OidcSpec => SetupKeepsPromise
<1>1. OidcInit => SetupPromise!Init
  <2> SUFFICES ASSUME OidcInit PROVE SetupPromise!Init
    OBVIOUS
  <2>1. ASSUME NEW s \in Setups
        PROVE  /\ SetupExcused(s) \subseteq SetupChanges /\ Outcome(s) = "open"
               /\ SetupChanges \ (left[s] \cup SetupExcused(s)) = {}
    BY TargetsAssumption, PlanOf DEF OidcInit, SetupExcused, Outcome
  <2> QED BY <2>1 DEF OidcInit, SetupPromise!Init
<1>2. ASSUME SetupInv, [OidcNext]_oidcVars
      PROVE  [SetupPromise!Next]_<<agreedTo,
                  [s \in Setups |-> SetupChanges \ (left[s] \cup SetupExcused(s))],
                  [s \in Setups |-> SetupExcused(s)], [s \in Setups |-> Outcome(s)]>>
  <2>1. SetupInv'
    BY <1>2, SetupNext
  <2>2. /\ OidcTypeOK /\ \A s \in Setups : SetupOK(s)
        /\ OidcTypeOK' /\ \A s \in Setups : SetupOK(s)'
    BY <1>2, <2>1 DEF SetupInv, SetupOK
  <2>3. CASE UNCHANGED oidcVars
    BY <2>3 DEF oidcVars, setup, SetupExcused, Outcome
  <2>4. (\E s \in Setups : SetupEffect(s) /\ Progress(s)) \/ UNCHANGED oidcVars
    BY <1>2, <2>2, SetupStep, SecretStep, Progresses DEF OidcNext
  <2> QED BY <2>2, <2>3, <2>4, SetupStepKeepsPromise
<1>3. SetupInv /\ [OidcNext]_oidcVars =>
          [SetupPromise!Next]_<<agreedTo,
              [s \in Setups |-> SetupChanges \ (left[s] \cup SetupExcused(s))],
              [s \in Setups |-> SetupExcused(s)], [s \in Setups |-> Outcome(s)]>>
  BY <1>2
<1> QED
  BY <1>1, <1>3, SetupInvariance, PTL DEF OidcSpec, SetupKeepsPromise, SetupPromise!Spec

-----------------------------------------------------------------------------
(* Both assistants                                                         *)

LEMMA AssistantsImplementBoth == AssistantsSpec => Spec /\ OidcSpec
<1>1. AssistantsInit => Init /\ OidcInit
  BY DEF AssistantsInit
<1>2. [AssistantsNext]_assistantsVars => [Next]_vars /\ [OidcNext]_oidcVars
  BY DEF AssistantsNext, AssistFlow, SetupOfAccess, assistantsVars
<1> QED BY <1>1, <1>2, PTL DEF AssistantsSpec, Spec, OidcSpec

\* Whichever assistant is opened, what it changes was agreed to, and what it calls complete is done
\* or was reported.
THEOREM AssistantsKeepPromises == AssistantsSpec => PromisesKept
BY AssistantsImplementBoth, FlowsKeepPromise, SetupsKeepPromise DEF PromisesKept

===============================================================================
