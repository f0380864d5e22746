---------------------------------- MODULE ArgoCD ----------------------------------
(***************************************************************************)
(* The Argo CD commands (commands/aksArgoCD): write an Application file,   *)
(* apply it to the cluster of the current kubectl context, and the menu of *)
(* actions on that cluster, above all the registration of a private        *)
(* repository's credentials as a Secret.  Commands overlap, and share with *)
(* each other and with the user the file, the kubectl context and the      *)
(* Secrets, which are named by the repository without its owner.           *)
(***************************************************************************)
EXTENDS Naturals, FiniteSets

CONSTANTS
    Commands, \* runs of the commands
    CommandKinds,    \* what the commands may be: command -> "create", "apply" or "actions"
    Clusters, ArgoRepos, Names,
    NameOf,   \* repository -> the name of its Secret
    MaxMoves, \* bound on the user's switches of the context and edits of the file
    NoValue

ASSUME KindAssumption == CommandKinds \subseteq [Commands -> {"create", "apply", "actions"}]
ASSUME NameAssumption == NameOf \in [ArgoRepos -> Names]
ASSUME MovesAssumption == MaxMoves \in Nat
ASSUME FreshNothing == NoValue \notin Clusters \cup ArgoRepos \cup Commands

VARIABLES
    context,   \* the cluster of the current kubectl context
    file,      \* the repository the Application file names, None if it is no Application
    moves,     \* the user's switches and edits so far
    installed, \* the clusters that have Argo CD
    apps,      \* cluster -> the repository its Application names
    secrets,   \* cluster -> Secret -> what it is, and who created or deleted it last
    commandKind, \* command -> what it is
    commandAt,        \* command -> the step it is at
    commandTold,      \* command -> how it ended, or "none"
    shown,     \* command -> the cluster it names to the user
    kubeconfig,    \* command -> the cluster its kubeconfig file is for
    repo,      \* command -> the repository picked, or read from the file
    agreed,    \* command -> what the user agreed to
    did,       \* command -> the <<change, cluster>> made
    warned,    \* command -> the changes it reported as failed
    connected  \* the commands whose last word on the registration is that it is done

user == <<context, file, moves>>
azure == <<installed, apps, secrets>>
step == <<commandKind, commandAt, commandTold>>
knows == <<shown, kubeconfig, repo>>
deeds == <<agreed, did, warned, connected>>
argoVars == <<user, azure, step, knows, deeds>>

CommandChanges == {"token", "write", "apply", "connect"}
NoSecret == [state |-> "none", repo |-> NoValue, by |-> NoValue]
SecretStates == [state : {"none", "plain", "labelled"}, repo : ArgoRepos \cup {NoValue},
                 by : Commands \cup {NoValue}]

Prompts == {"name", "repo", "browse", "token", "path", "namespace"}
CommandSteps == Prompts \cup
    {"context", "config", "list", "write", "file", "installed", "confirm", "apply", "probe",
     "menu", "ui", "paste", "delete", "create", "label"}
CommandEnds == {"left", "failed", "done"}

ArgoTypeOK ==
    /\ context \in Clusters /\ file \in ArgoRepos \cup {NoValue} /\ moves \in 0 .. MaxMoves
    /\ installed \in SUBSET Clusters /\ apps \in [Clusters -> ArgoRepos \cup {NoValue}]
    /\ secrets \in [Clusters -> [Names -> SecretStates]]
    /\ commandKind \in CommandKinds /\ commandAt \in [Commands -> CommandSteps]
    /\ commandTold \in [Commands -> CommandEnds \cup {"none"}]
    /\ shown \in [Commands -> Clusters \cup {NoValue}]
    /\ kubeconfig \in [Commands -> Clusters \cup {NoValue}]
    /\ repo \in [Commands -> ArgoRepos \cup {NoValue}]
    /\ agreed \in [Commands -> SUBSET CommandChanges] /\ warned \in [Commands -> SUBSET CommandChanges]
    /\ did \in [Commands -> SUBSET ((CommandChanges \cup {"forward"}) \X (Clusters \cup {NoValue}))]
    /\ connected \in SUBSET Commands

FirstStep == [create |-> "name", apply |-> "file", actions |-> "context"]

ArgoInit ==
    /\ context \in Clusters /\ file \in ArgoRepos \cup {NoValue} /\ moves = 0
    /\ installed \in SUBSET Clusters /\ apps = [k \in Clusters |-> NoValue]
    /\ secrets = [k \in Clusters |-> [n \in Names |-> NoSecret]]
    /\ commandKind \in CommandKinds /\ commandAt = [c \in Commands |-> FirstStep[commandKind[c]]]
    /\ commandTold = [c \in Commands |-> "none"]
    /\ shown = [c \in Commands |-> NoValue] /\ kubeconfig = [c \in Commands |-> NoValue]
    /\ repo = [c \in Commands |-> NoValue]
    /\ agreed = [c \in Commands |-> {}] /\ did = [c \in Commands |-> {}]
    /\ warned = [c \in Commands |-> {}] /\ connected = {}

CommandAt(c, p) == commandTold[c] = "none" /\ commandAt[c] = p
CommandGoes(c, p, q) ==
    CommandAt(c, p) /\ commandAt' = [commandAt EXCEPT ![c] = q] /\ UNCHANGED <<commandKind, commandTold>>
EndCommand(c, p, how) ==
    CommandAt(c, p) /\ commandTold' = [commandTold EXCEPT ![c] = how] /\ UNCHANGED <<commandKind, commandAt>>
Learns(c, r) == repo' = [repo EXCEPT ![c] = r] /\ UNCHANGED <<shown, kubeconfig>>
Agrees(c, change) ==
    agreed' = [agreed EXCEPT ![c] = @ \cup {change}] /\ UNCHANGED <<did, warned, connected>>
Does(c, change) ==
    /\ did' = [did EXCEPT ![c] = @ \cup {<<change, kubeconfig[c]>>}]
    /\ UNCHANGED <<agreed, warned, connected>>
Same == UNCHANGED <<user, azure>>

-----------------------------------------------------------------------------
(* Create Argo CD Application.                                             *)

\* The workspace folder and the name of the application.
NameApplication(c) ==
    /\ CommandGoes(c, "name", "repo") \/ EndCommand(c, "name", "left") \/ EndCommand(c, "name", "failed")
    /\ Same /\ UNCHANGED <<knows, deeds>>

\* Entered, or found in a local folder; or to be browsed for.
PickRepo(c) ==
    /\ \/ CommandGoes(c, "repo", "path") /\ \E r \in ArgoRepos : Learns(c, r)
       \/ CommandGoes(c, "repo", "browse") /\ UNCHANGED knows
       \/ EndCommand(c, "repo", "left") /\ UNCHANGED knows
    /\ Same /\ UNCHANGED deeds

\* On GitHub, with a session: a private repository may need a token.
BrowseRepos(c) ==
    /\ \/ \E next \in {"path", "token"}, r \in ArgoRepos : CommandGoes(c, "browse", next) /\ Learns(c, r)
       \/ EndCommand(c, "browse", "left") /\ UNCHANGED knows
    /\ Same /\ UNCHANGED deeds

\* "Generate credentials", or skip.
OfferToken(c) ==
    /\ \/ "token" \notin agreed[c] /\ CommandGoes(c, "token", "token") /\ Agrees(c, "token")
       \/ "token" \notin agreed[c] /\ CommandGoes(c, "token", "path") /\ UNCHANGED deeds
    /\ Same /\ UNCHANGED knows

\* The token is generated and shown once; or the user is sent to GitHub to generate one.
GenerateToken(c) ==
    /\ "token" \in agreed[c] /\ CommandGoes(c, "token", "path")
    /\ \/ Does(c, "token")
       \/ warned' = [warned EXCEPT ![c] = @ \cup {"token"}] /\ UNCHANGED <<agreed, did, connected>>
    /\ Same /\ UNCHANGED knows

\* The path in the repository, where to write, and whether with a guide.
PickPath(c) ==
    /\ CommandGoes(c, "path", "context") \/ EndCommand(c, "path", "left")
    /\ Same /\ UNCHANGED <<knows, deeds>>

\* Only the list of namespaces needs the cluster: without it the namespace is typed.
WithoutCluster(c, p) ==
    IF commandKind[c] = "create" THEN CommandGoes(c, p, "namespace") ELSE EndCommand(c, p, "failed")

\* resolveCurrentKubectlContext: the name of the context, then the configuration, which is that
\* of the context at the time.
ReadContext(c) ==
    /\ \/ CommandGoes(c, "context", "config") /\ shown' = [shown EXCEPT ![c] = context]
       \/ WithoutCluster(c, "context") /\ UNCHANGED shown
    /\ Same /\ UNCHANGED <<kubeconfig, repo, deeds>>

AfterConfig == [create |-> "list", apply |-> "installed", actions |-> "probe"]

ReadConfig(c) ==
    /\ \/ /\ CommandGoes(c, "config", AfterConfig[commandKind[c]])
          /\ kubeconfig' = [kubeconfig EXCEPT ![c] = context]
       \/ WithoutCluster(c, "config") /\ UNCHANGED kubeconfig
    /\ Same /\ UNCHANGED <<shown, repo, deeds>>

ListClusterNamespaces(c) ==
    /\ CommandGoes(c, "list", "namespace")
    /\ Same /\ UNCHANGED <<knows, deeds>>

\* A list that is left is followed by the input box, which may be left.
PickClusterNamespace(c) ==
    /\ \/ CommandGoes(c, "namespace", "write") /\ Agrees(c, "write")
       \/ EndCommand(c, "namespace", "left") /\ UNCHANGED deeds
    /\ Same /\ UNCHANGED knows

\* Whatever the file was.  An output path outside of the workspace is refused here.
WriteApplication(c) ==
    /\ \/ EndCommand(c, "write", "done") /\ file' = repo[c] /\ Does(c, "write")
       \/ EndCommand(c, "write", "failed") /\ UNCHANGED <<file, deeds>>
    /\ UNCHANGED <<context, moves, azure, knows>>

-----------------------------------------------------------------------------
(* Apply Argo CD Application.                                              *)

\* The file that was clicked or offered when opened; it must be an Application.
ReadFile(c) ==
    /\ \/ file # NoValue /\ CommandGoes(c, "file", "context") /\ Learns(c, file)
       \/ EndCommand(c, "file", "failed") /\ UNCHANGED knows
    /\ Same /\ UNCHANGED deeds

\* A check that fails counts as Argo CD not being there.
CheckInstalled(c) ==
    /\ \/ kubeconfig[c] \in installed /\ CommandGoes(c, "installed", "confirm")
       \/ EndCommand(c, "installed", "failed")
    /\ Same /\ UNCHANGED <<knows, deeds>>

Confirm(c) ==
    /\ \/ CommandGoes(c, "confirm", "apply") /\ Agrees(c, "apply")
       \/ EndCommand(c, "confirm", "left") /\ UNCHANGED deeds
    /\ Same /\ UNCHANGED knows

\* kubectl reads the file itself, as it is by then.
Applied(c) == apps' = [apps EXCEPT ![kubeconfig[c]] = file] /\ Does(c, "apply")

\* Mutant of Apply: the result of kubectl is not looked at.
ApplyUnchecked(c) ==
    /\ CommandGoes(c, "apply", "probe")
    /\ (file # NoValue /\ Applied(c)) \/ UNCHANGED <<apps, deeds>>
    /\ UNCHANGED <<user, installed, secrets, knows>>

Apply(c) ==
    /\ \/ file # NoValue /\ CommandGoes(c, "apply", "probe") /\ Applied(c)
       \/ EndCommand(c, "apply", "failed") /\ UNCHANGED <<apps, deeds>>
    /\ UNCHANGED <<user, installed, secrets, knows>>

-----------------------------------------------------------------------------
(* The actions on the cluster, after the apply or on their own.            *)

\* The way to sign in, the visibility of the repository and the kind of installation.  On their
\* own, the actions read the file in the editor now, which need not be an Application.
Probe(c) ==
    /\ CommandGoes(c, "probe", "menu")
    /\ IF commandKind[c] = "actions" THEN Learns(c, file) ELSE UNCHANGED knows
    /\ Same /\ UNCHANGED deeds

\* The address is external, or that of a port-forward in a terminal; or there is no server.
\* The user is offered the password, unless users sign in with Microsoft, and may leave.
OpenUI(c) ==
    /\ \/ CommandGoes(c, "menu", "ui") /\ UNCHANGED deeds
       \/ CommandGoes(c, "ui", "menu") /\ UNCHANGED deeds
       \/ CommandGoes(c, "ui", "menu") /\ Does(c, "forward")
    /\ Same /\ UNCHANGED knows

\* GitHub says that the repository is private, if there is a session to ask it.
MayConnect(c) == repo[c] # NoValue

\* The page of GitHub is opened, then the token asked for.
ConnectRepo(c) ==
    /\ MayConnect(c) /\ CommandGoes(c, "menu", "paste")
    /\ Same /\ UNCHANGED <<knows, deeds>>

PasteToken(c) ==
    /\ \/ CommandGoes(c, "paste", "delete") /\ agreed' = [agreed EXCEPT ![c] = @ \cup {"connect"}]
          /\ connected' = connected \ {c} /\ warned' = [warned EXCEPT ![c] = @ \ {"connect"}]
          /\ UNCHANGED did
       \/ CommandGoes(c, "paste", "menu") /\ UNCHANGED deeds
    /\ Same /\ UNCHANGED knows

SecretOf(c) == secrets[kubeconfig[c]][NameOf[repo[c]]]
Put(c, s) == secrets' = [secrets EXCEPT ![kubeconfig[c]][NameOf[repo[c]]] = s]
NotRegistered(c) ==
    warned' = [warned EXCEPT ![c] = @ \cup {"connect"}] /\ UNCHANGED <<agreed, did, connected>>

\* Whether it fails is not looked at.
DeleteSecret(c) ==
    /\ CommandGoes(c, "delete", "create")
    /\ Put(c, [NoSecret EXCEPT !.by = c]) \/ UNCHANGED secrets
    /\ UNCHANGED <<user, installed, apps, knows, deeds>>

\* kubectl create refuses to replace a Secret.  It may fail with its effect.
CreateSecret(c) ==
    LET created == SecretOf(c).state = "none"
                    /\ Put(c, [state |-> "plain", repo |-> repo[c], by |-> c]) IN
    /\ \/ CommandGoes(c, "create", "label") /\ created /\ Does(c, "connect")
       \/ CommandGoes(c, "create", "menu") /\ NotRegistered(c) /\ (created \/ UNCHANGED secrets)
    /\ UNCHANGED <<user, installed, apps, knows>>

Registered(c) == connected' = connected \cup {c} /\ UNCHANGED <<agreed, did, warned>>

\* Mutant of LabelSecret: only the creation is looked at.
LabelUnchecked(c) ==
    /\ CommandGoes(c, "label", "menu") /\ Registered(c)
    /\ UNCHANGED <<user, installed, apps, knows>>
    /\ \/ SecretOf(c).state # "none" /\ Put(c, [SecretOf(c) EXCEPT !.state = "labelled"])
       \/ UNCHANGED secrets

\* Argo CD looks for Secrets with the label only.
LabelSecret(c) ==
    /\ \/ /\ CommandGoes(c, "label", "menu") /\ SecretOf(c).state # "none" /\ Registered(c)
          /\ Put(c, [SecretOf(c) EXCEPT !.state = "labelled"])
       \/ CommandGoes(c, "label", "menu") /\ NotRegistered(c) /\ UNCHANGED secrets
    /\ UNCHANGED <<user, installed, apps, knows>>

CloseMenu(c) ==
    /\ EndCommand(c, "menu", "done")
    /\ Same /\ UNCHANGED <<knows, deeds>>

-----------------------------------------------------------------------------

\* The user, in a terminal and in the editor.
Move ==
    /\ moves < MaxMoves /\ moves' = moves + 1
    /\ \/ \E k \in Clusters \ {context} : context' = k /\ UNCHANGED file
       \/ \E r \in (ArgoRepos \cup {NoValue}) \ {file} : file' = r /\ UNCHANGED context
    /\ UNCHANGED <<azure, step, knows, deeds>>

CreateApplication(c) ==
    \/ NameApplication(c) \/ PickRepo(c) \/ BrowseRepos(c) \/ OfferToken(c) \/ GenerateToken(c) \/ PickPath(c)
    \/ ListClusterNamespaces(c) \/ PickClusterNamespace(c) \/ WriteApplication(c)
ApplyFile(c) == ReadFile(c) \/ CheckInstalled(c) \/ Confirm(c) \/ Apply(c)
Act(c) ==
    \/ Probe(c) \/ OpenUI(c) \/ ConnectRepo(c) \/ PasteToken(c) \/ DeleteSecret(c)
    \/ CreateSecret(c) \/ LabelSecret(c) \/ CloseMenu(c)

ArgoNext ==
    \/ \E c \in Commands : ReadContext(c) \/ ReadConfig(c) \/ CreateApplication(c) \/ ApplyFile(c) \/ Act(c)
    \/ Move

ArgoSpec == ArgoInit /\ [][ArgoNext]_argoVars

-----------------------------------------------------------------------------

\* The context named to the user and the configuration are of one cluster, so that a command
\* changes, and opens, no cluster but the one that it names to the user.
ConfirmedIsChanged ==
    \A c \in Commands :
        \A d \in did[c] : d[1] \in {"apply", "connect", "forward"} => d[2] = shown[c]

\* The user switches no context between the two reads of a command.
ReadsTogether == [][(\E c \in Commands : CommandAt(c, "config")) => UNCHANGED context]_argoVars

\* A repository said to be connected has its labelled Secret, unless another command has since
\* deleted or created the Secret of that name.
ConnectedIsRegistered ==
    \A c \in connected :
        \/ SecretOf(c) = [state |-> "labelled", repo |-> repo[c], by |-> c]
        \/ SecretOf(c).by # c

\* The promise: a change made, reported as failed, or never asked for.
ConsentOf == [e \in CommandChanges |-> e]
Made(c) == {e \in CommandChanges : \E k \in Clusters \cup {NoValue} : <<e, k>> \in did[c]}

CommandPromise ==
    INSTANCE ConsentedChanges WITH
        Changes <- CommandChanges, KindOf <- ConsentOf,
        made <- [c \in Commands |-> Made(c)],
        excused <- [c \in Commands |->
            IF commandTold[c] = "none" THEN {} ELSE warned[c] \cup (CommandChanges \ agreed[c])],
        outcome <- [c \in Commands |->
            IF commandTold[c] = "none" THEN "open"
            ELSE IF commandTold[c] = "done" THEN "complete" ELSE "stopped"]

\* The commands keep the promise of ConsentedChanges: what ends well did all the user asked for,
\* or reported what it did not do.
CommandsKeepPromise == CommandPromise!Spec

=============================================================================
