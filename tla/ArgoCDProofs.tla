----------------------------- MODULE ArgoCDProofs -----------------------------
(***************************************************************************)
(* What holds of the Argo CD commands, for any number of commands,         *)
(* clusters, repositories and names of Secrets, and of moves of the user.  *)
(***************************************************************************)
EXTENDS ArgoCD, TLAPS

(* What a command knows, by the step it is at.                             *)
BeforeConfig == {"name", "repo", "browse", "token", "path", "file", "context", "config"}
OnCluster == {"list", "installed", "confirm", "apply", "probe", "menu", "ui", "paste",
              "delete", "create", "label"}
Connecting == {"paste", "delete", "create", "label"}

KnowsOK(c) ==
    /\ commandAt[c] \in OnCluster => kubeconfig[c] \in Clusters
    /\ commandAt[c] \in Connecting \/ c \in connected => repo[c] \in ArgoRepos
    /\ c \in connected => commandAt[c] \in {"menu", "ui", "paste"}

(* It has touched no cluster before it has one, and then only that one.    *)
OfCluster == {"apply", "connect", "forward"}
ClusterOK(c) ==
    /\ commandAt[c] \in BeforeConfig => \A d \in did[c] : d[1] \notin OfCluster
    /\ \A d \in did[c] : d[1] \in OfCluster => d[2] = kubeconfig[c]

(* As long as nobody else has created or deleted its Secret, it is its own. *)
OwnSecret(c, states) ==
    SecretOf(c).by = c => SecretOf(c).repo = repo[c] /\ SecretOf(c).state \in states
SecretOK(c) ==
    /\ commandAt[c] = "label" => OwnSecret(c, {"plain", "labelled"})
    /\ c \in connected => OwnSecret(c, {"labelled"})

(* What the user agreed to is done or reported, except by the step that is *)
(* at it.                                                                  *)
Owing == {"write", "apply", "delete", "create"}
Answered(c) == Made(c) \cup warned[c]
AgreedOK(c) ==
    /\ "token" \in agreed[c] /\ commandAt[c] # "token" => "token" \in Answered(c)
    /\ "write" \in agreed[c] <=> commandAt[c] = "write"
    /\ commandAt[c] = "apply" => "apply" \in agreed[c]
    /\ "apply" \in agreed[c] /\ commandAt[c] # "apply" => "apply" \in Answered(c)
    /\ commandAt[c] \in {"delete", "create"} => "connect" \in agreed[c]
    /\ "connect" \in agreed[c] /\ commandAt[c] \notin {"delete", "create"} =>
         "connect" \in Answered(c)

CommandOK(c) == KnowsOK(c) /\ ClusterOK(c) /\ SecretOK(c) /\ AgreedOK(c)

ArgoInv == ArgoTypeOK /\ \A c \in Commands : CommandOK(c)

-----------------------------------------------------------------------------
(* The step of a command.                                                  *)

CommandStep(c) ==
    ReadContext(c) \/ ReadConfig(c) \/ CreateApplication(c) \/ ApplyFile(c) \/ Act(c)

\* A step changes what its own command knows and did, and of a Secret that is not then its own
\* the label alone.
OfItself(c) ==
    \A d \in Commands \ {c} :
        /\ commandAt'[d] = commandAt[d] /\ commandTold'[d] = commandTold[d]
        /\ kubeconfig'[d] = kubeconfig[d] /\ repo'[d] = repo[d]
        /\ agreed'[d] = agreed[d] /\ did'[d] = did[d] /\ warned'[d] = warned[d]
        /\ d \in connected' <=> d \in connected
Touched(c) ==
    \A k \in Clusters, n \in Names :
        \/ secrets'[k][n] = secrets[k][n]
        \/ secrets'[k][n].by = c
        \/ /\ secrets'[k][n].by = secrets[k][n].by /\ secrets'[k][n].repo = secrets[k][n].repo
           /\ secrets'[k][n].state = "labelled"

(* The types, of each group of variables.                                  *)
StepTypes ==
    /\ commandKind \in CommandKinds /\ commandAt \in [Commands -> CommandSteps]
    /\ commandTold \in [Commands -> CommandEnds \cup {"none"}]
KnowsTypes ==
    /\ shown \in [Commands -> Clusters \cup {NoValue}]
    /\ kubeconfig \in [Commands -> Clusters \cup {NoValue}]
    /\ repo \in [Commands -> ArgoRepos \cup {NoValue}]
DeedsTypes ==
    /\ agreed \in [Commands -> SUBSET CommandChanges]
    /\ warned \in [Commands -> SUBSET CommandChanges]
    /\ did \in [Commands -> SUBSET ((CommandChanges \cup {"forward"}) \X (Clusters \cup {NoValue}))]
    /\ connected \in SUBSET Commands
AzureTypes ==
    /\ installed \in SUBSET Clusters /\ apps \in [Clusters -> ArgoRepos \cup {NoValue}]
    /\ secrets \in [Clusters -> [Names -> SecretStates]]
UserTypes ==
    /\ context \in Clusters /\ file \in ArgoRepos \cup {NoValue} /\ moves \in 0 .. MaxMoves

\* The type invariant, by groups of variables.
LEMMA TypesAre == ArgoTypeOK <=> StepTypes /\ KnowsTypes /\ DeedsTypes /\ AzureTypes /\ UserTypes
BY DEF ArgoTypeOK, StepTypes, KnowsTypes, DeedsTypes, AzureTypes, UserTypes

\* What the Secret of a command becomes when it is put.
LEMMA Puts ==
    ASSUME AzureTypes, NEW c \in Commands, kubeconfig[c] \in Clusters, repo[c] \in ArgoRepos,
           NEW s \in SecretStates, Put(c, s)
    PROVE  /\ secrets' \in [Clusters -> [Names -> SecretStates]]
           /\ secrets'[kubeconfig[c]][NameOf[repo[c]]] = s
           /\ \A k \in Clusters, n \in Names :
                 \/ secrets'[k][n] = secrets[k][n]
                 \/ k = kubeconfig[c] /\ n = NameOf[repo[c]] /\ secrets'[k][n] = s
<1>1. NameOf[repo[c]] \in Names
  BY NameAssumption
<1>2. secrets' = [secrets EXCEPT ![kubeconfig[c]] = [@ EXCEPT ![NameOf[repo[c]]] = s]]
  BY DEF Put
<1>3. secrets[kubeconfig[c]] \in [Names -> SecretStates]
  BY DEF AzureTypes
<1>4. [secrets[kubeconfig[c]] EXCEPT ![NameOf[repo[c]]] = s] \in [Names -> SecretStates]
  BY <1>3
<1>5. secrets' \in [Clusters -> [Names -> SecretStates]]
  BY <1>2, <1>4 DEF AzureTypes
<1>6. secrets'[kubeconfig[c]][NameOf[repo[c]]] = s
  BY <1>1, <1>2, <1>3 DEF AzureTypes
<1>7. ASSUME NEW k \in Clusters, NEW n \in Names, secrets'[k][n] # secrets[k][n]
      PROVE  k = kubeconfig[c] /\ n = NameOf[repo[c]]
  <2>1. k = kubeconfig[c]
    BY <1>2, <1>7 DEF AzureTypes
  <2>2. n = NameOf[repo[c]]
    BY <1>2, <1>3, <1>7, <2>1 DEF AzureTypes
  <2> QED BY <2>1, <2>2
<1> QED BY <1>5, <1>6, <1>7

\* The Secret of a command is one.
LEMMA Secret ==
    ASSUME AzureTypes, NEW c \in Commands, kubeconfig[c] \in Clusters, repo[c] \in ArgoRepos
    PROVE  SecretOf(c) \in SecretStates
<1>1. NameOf[repo[c]] \in Names
  BY NameAssumption
<1> QED BY <1>1 DEF AzureTypes, SecretOf

\* A step leaves the steps of the commands of their types.
LEMMA StepTypesKept ==
    ASSUME NEW c \in Commands, StepTypes,
           CommandStep(c)
    PROVE  StepTypes'
<1> USE DEF StepTypes, CommandSteps, Prompts, CommandEnds, CommandAt, CommandGoes, EndCommand
<1>1. CASE ReadContext(c)
  BY <1>1 DEF ReadContext, WithoutCluster
<1>2. CASE ReadConfig(c)
  BY <1>2, KindAssumption DEF ReadConfig, WithoutCluster, AfterConfig
<1>3. CASE NameApplication(c)
  BY <1>3 DEF NameApplication
<1>4. CASE PickRepo(c)
  BY <1>4 DEF PickRepo
<1>5. CASE BrowseRepos(c)
  BY <1>5 DEF BrowseRepos
<1>6. CASE OfferToken(c)
  BY <1>6 DEF OfferToken
<1>7. CASE GenerateToken(c)
  BY <1>7 DEF GenerateToken
<1>8. CASE PickPath(c)
  BY <1>8 DEF PickPath
<1>9. CASE ListClusterNamespaces(c)
  BY <1>9 DEF ListClusterNamespaces
<1>10. CASE PickClusterNamespace(c)
  BY <1>10 DEF PickClusterNamespace
<1>11. CASE WriteApplication(c)
  BY <1>11 DEF WriteApplication
<1>12. CASE ReadFile(c)
  BY <1>12 DEF ReadFile
<1>13. CASE CheckInstalled(c)
  BY <1>13 DEF CheckInstalled
<1>14. CASE Confirm(c)
  BY <1>14 DEF Confirm
<1>15. CASE Apply(c)
  BY <1>15 DEF Apply
<1>16. CASE Probe(c)
  BY <1>16 DEF Probe
<1>17. CASE OpenUI(c)
  BY <1>17 DEF OpenUI
<1>18. CASE ConnectRepo(c)
  BY <1>18 DEF ConnectRepo
<1>19. CASE PasteToken(c)
  BY <1>19 DEF PasteToken
<1>20. CASE DeleteSecret(c)
  BY <1>20 DEF DeleteSecret
<1>21. CASE CreateSecret(c)
  BY <1>21 DEF CreateSecret
<1>22. CASE LabelSecret(c)
  BY <1>22 DEF LabelSecret
<1>23. CASE CloseMenu(c)
  BY <1>23 DEF CloseMenu
<1> QED BY <1>1, <1>2, <1>3, <1>4, <1>5, <1>6, <1>7, <1>8, <1>9, <1>10, <1>11, <1>12, <1>13, <1>14,
    <1>15, <1>16, <1>17, <1>18, <1>19, <1>20, <1>21, <1>22, <1>23 DEF CommandStep,
    CreateApplication, ApplyFile, Act

\* And what they know,
LEMMA KnowsTypesKept ==
    ASSUME NEW c \in Commands, KnowsTypes, UserTypes,
           CommandStep(c)
    PROVE  KnowsTypes'
<1> USE DEF KnowsTypes, UserTypes, knows
<1>1. CASE ReadContext(c)
  BY <1>1 DEF ReadContext, WithoutCluster
<1>2. CASE ReadConfig(c)
  BY <1>2 DEF ReadConfig, WithoutCluster, AfterConfig
<1>3. CASE NameApplication(c)
  BY <1>3 DEF NameApplication
<1>4. CASE PickRepo(c)
  BY <1>4 DEF PickRepo, Learns
<1>5. CASE BrowseRepos(c)
  BY <1>5 DEF BrowseRepos, Learns
<1>6. CASE OfferToken(c)
  BY <1>6 DEF OfferToken
<1>7. CASE GenerateToken(c)
  BY <1>7 DEF GenerateToken
<1>8. CASE PickPath(c)
  BY <1>8 DEF PickPath
<1>9. CASE ListClusterNamespaces(c)
  BY <1>9 DEF ListClusterNamespaces
<1>10. CASE PickClusterNamespace(c)
  BY <1>10 DEF PickClusterNamespace
<1>11. CASE WriteApplication(c)
  BY <1>11 DEF WriteApplication
<1>12. CASE ReadFile(c)
  BY <1>12 DEF ReadFile, Learns
<1>13. CASE CheckInstalled(c)
  BY <1>13 DEF CheckInstalled
<1>14. CASE Confirm(c)
  BY <1>14 DEF Confirm
<1>15. CASE Apply(c)
  BY <1>15 DEF Apply
<1>16. CASE Probe(c)
  BY <1>16 DEF Probe, Learns
<1>17. CASE OpenUI(c)
  BY <1>17 DEF OpenUI
<1>18. CASE ConnectRepo(c)
  BY <1>18 DEF ConnectRepo
<1>19. CASE PasteToken(c)
  BY <1>19 DEF PasteToken
<1>20. CASE DeleteSecret(c)
  BY <1>20 DEF DeleteSecret
<1>21. CASE CreateSecret(c)
  BY <1>21 DEF CreateSecret
<1>22. CASE LabelSecret(c)
  BY <1>22 DEF LabelSecret
<1>23. CASE CloseMenu(c)
  BY <1>23 DEF CloseMenu
<1> QED BY <1>1, <1>2, <1>3, <1>4, <1>5, <1>6, <1>7, <1>8, <1>9, <1>10, <1>11, <1>12, <1>13, <1>14,
    <1>15, <1>16, <1>17, <1>18, <1>19, <1>20, <1>21, <1>22, <1>23 DEF CommandStep,
    CreateApplication, ApplyFile, Act

\* what they were allowed and have done,
LEMMA DeedsTypesKept ==
    ASSUME NEW c \in Commands, DeedsTypes, KnowsTypes, UserTypes,
           CommandStep(c)
    PROVE  DeedsTypes'
<1> USE DEF DeedsTypes, KnowsTypes, deeds, CommandChanges
<1>1. CASE ReadContext(c)
  BY <1>1 DEF ReadContext
<1>2. CASE ReadConfig(c)
  BY <1>2 DEF ReadConfig
<1>3. CASE NameApplication(c)
  BY <1>3 DEF NameApplication
<1>4. CASE PickRepo(c)
  BY <1>4 DEF PickRepo
<1>5. CASE BrowseRepos(c)
  BY <1>5 DEF BrowseRepos
<1>6. CASE OfferToken(c)
  BY <1>6 DEF OfferToken, Agrees
<1>7. CASE GenerateToken(c)
  BY <1>7 DEF GenerateToken, Does, CommandChanges
<1>8. CASE PickPath(c)
  BY <1>8 DEF PickPath
<1>9. CASE ListClusterNamespaces(c)
  BY <1>9 DEF ListClusterNamespaces
<1>10. CASE PickClusterNamespace(c)
  BY <1>10 DEF PickClusterNamespace, Agrees
<1>11. CASE WriteApplication(c)
  BY <1>11 DEF WriteApplication, Does
<1>12. CASE ReadFile(c)
  BY <1>12 DEF ReadFile
<1>13. CASE CheckInstalled(c)
  BY <1>13 DEF CheckInstalled
<1>14. CASE Confirm(c)
  BY <1>14 DEF Confirm, Agrees
<1>15. CASE Apply(c)
  BY <1>15 DEF Apply, Applied, Does
<1>16. CASE Probe(c)
  BY <1>16 DEF Probe
<1>17. CASE OpenUI(c)
  BY <1>17 DEF OpenUI, Does
<1>18. CASE ConnectRepo(c)
  BY <1>18 DEF ConnectRepo
<1>19. CASE PasteToken(c)
  BY <1>19 DEF PasteToken
<1>20. CASE DeleteSecret(c)
  BY <1>20 DEF DeleteSecret
<1>21. CASE CreateSecret(c)
  BY <1>21 DEF CreateSecret, NotRegistered, Does
<1>22. CASE LabelSecret(c)
  BY <1>22 DEF LabelSecret, NotRegistered, Registered
<1>23. CASE CloseMenu(c)
  BY <1>23 DEF CloseMenu
<1> QED BY <1>1, <1>2, <1>3, <1>4, <1>5, <1>6, <1>7, <1>8, <1>9, <1>10, <1>11, <1>12, <1>13, <1>14,
    <1>15, <1>16, <1>17, <1>18, <1>19, <1>20, <1>21, <1>22, <1>23 DEF CommandStep,
    CreateApplication, ApplyFile, Act

\* the user's file and context,
LEMMA UserTypesKept ==
    ASSUME NEW c \in Commands, KnowsTypes, UserTypes,
           CommandStep(c)
    PROVE  UserTypes'
<1> USE DEF UserTypes, KnowsTypes, Same, user
<1>1. CASE ReadContext(c)
  BY <1>1 DEF ReadContext
<1>2. CASE ReadConfig(c)
  BY <1>2 DEF ReadConfig
<1>3. CASE NameApplication(c)
  BY <1>3 DEF NameApplication
<1>4. CASE PickRepo(c)
  BY <1>4 DEF PickRepo
<1>5. CASE BrowseRepos(c)
  BY <1>5 DEF BrowseRepos
<1>6. CASE OfferToken(c)
  BY <1>6 DEF OfferToken
<1>7. CASE GenerateToken(c)
  BY <1>7 DEF GenerateToken
<1>8. CASE PickPath(c)
  BY <1>8 DEF PickPath
<1>9. CASE ListClusterNamespaces(c)
  BY <1>9 DEF ListClusterNamespaces
<1>10. CASE PickClusterNamespace(c)
  BY <1>10 DEF PickClusterNamespace
<1>11. CASE WriteApplication(c)
  BY <1>11 DEF WriteApplication
<1>12. CASE ReadFile(c)
  BY <1>12 DEF ReadFile
<1>13. CASE CheckInstalled(c)
  BY <1>13 DEF CheckInstalled
<1>14. CASE Confirm(c)
  BY <1>14 DEF Confirm
<1>15. CASE Apply(c)
  BY <1>15 DEF Apply
<1>16. CASE Probe(c)
  BY <1>16 DEF Probe
<1>17. CASE OpenUI(c)
  BY <1>17 DEF OpenUI
<1>18. CASE ConnectRepo(c)
  BY <1>18 DEF ConnectRepo
<1>19. CASE PasteToken(c)
  BY <1>19 DEF PasteToken
<1>20. CASE DeleteSecret(c)
  BY <1>20 DEF DeleteSecret
<1>21. CASE CreateSecret(c)
  BY <1>21 DEF CreateSecret
<1>22. CASE LabelSecret(c)
  BY <1>22 DEF LabelSecret
<1>23. CASE CloseMenu(c)
  BY <1>23 DEF CloseMenu
<1> QED BY <1>1, <1>2, <1>3, <1>4, <1>5, <1>6, <1>7, <1>8, <1>9, <1>10, <1>11, <1>12, <1>13, <1>14,
    <1>15, <1>16, <1>17, <1>18, <1>19, <1>20, <1>21, <1>22, <1>23 DEF CommandStep,
    CreateApplication, ApplyFile, Act

\* and the clusters; of the Secrets it touches its own.
LEMMA SecretsKept ==
    ASSUME NEW c \in Commands, AzureTypes, KnowsTypes, UserTypes,
           KnowsOK(c), CommandStep(c)
    PROVE  AzureTypes' /\ Touched(c)
<1>a. ASSUME UNCHANGED <<installed, apps, secrets>> PROVE AzureTypes' /\ Touched(c)
  BY <1>a DEF AzureTypes, Touched
<1>s. ASSUME commandAt[c] \in Connecting
      PROVE  /\ kubeconfig[c] \in Clusters /\ repo[c] \in ArgoRepos
             /\ SecretOf(c) \in SecretStates
  BY <1>s, Secret DEF KnowsOK, OnCluster, Connecting
<1>p. ASSUME NEW s \in SecretStates, commandAt[c] \in Connecting, Put(c, s),
             UNCHANGED <<installed, apps>>,
             s.by = c \/ s = [SecretOf(c) EXCEPT !.state = "labelled"]
      PROVE  AzureTypes' /\ Touched(c)
  <2>1. /\ secrets' \in [Clusters -> [Names -> SecretStates]]
        /\ secrets'[kubeconfig[c]][NameOf[repo[c]]] = s
        /\ \A k \in Clusters, n \in Names :
              \/ secrets'[k][n] = secrets[k][n]
              \/ k = kubeconfig[c] /\ n = NameOf[repo[c]] /\ secrets'[k][n] = s
    BY <1>s, <1>p, Puts
  <2>2. Touched(c)
    BY <1>s, <1>p, <2>1 DEF Touched, SecretOf, SecretStates
  <2> QED BY <1>p, <2>1, <2>2 DEF AzureTypes
<1>1. CASE ReadContext(c)
  BY <1>1, <1>a DEF ReadContext, Same, azure
<1>2. CASE ReadConfig(c)
  BY <1>2, <1>a DEF ReadConfig, Same, azure
<1>3. CASE NameApplication(c)
  BY <1>3, <1>a DEF NameApplication, Same, azure
<1>4. CASE PickRepo(c)
  BY <1>4, <1>a DEF PickRepo, Same, azure
<1>5. CASE BrowseRepos(c)
  BY <1>5, <1>a DEF BrowseRepos, Same, azure
<1>6. CASE OfferToken(c)
  BY <1>6, <1>a DEF OfferToken, Same, azure
<1>7. CASE GenerateToken(c)
  BY <1>7, <1>a DEF GenerateToken, Same, azure
<1>8. CASE PickPath(c)
  BY <1>8, <1>a DEF PickPath, Same, azure
<1>9. CASE ListClusterNamespaces(c)
  BY <1>9, <1>a DEF ListClusterNamespaces, Same, azure
<1>10. CASE PickClusterNamespace(c)
  BY <1>10, <1>a DEF PickClusterNamespace, Same, azure
<1>11. CASE WriteApplication(c)
  BY <1>11, <1>a DEF WriteApplication, Same, azure
<1>12. CASE ReadFile(c)
  BY <1>12, <1>a DEF ReadFile, Same, azure
<1>13. CASE CheckInstalled(c)
  BY <1>13, <1>a DEF CheckInstalled, Same, azure
<1>14. CASE Confirm(c)
  BY <1>14, <1>a DEF Confirm, Same, azure
<1>15. CASE Apply(c)
  <2>1. AzureTypes' /\ UNCHANGED secrets
    BY <1>15 DEF Apply, Applied, AzureTypes, KnowsTypes, UserTypes
  <2> QED BY <2>1 DEF Touched
<1>16. CASE Probe(c)
  BY <1>16, <1>a DEF Probe, Same, azure
<1>17. CASE OpenUI(c)
  BY <1>17, <1>a DEF OpenUI, Same, azure
<1>18. CASE ConnectRepo(c)
  BY <1>18, <1>a DEF ConnectRepo, Same, azure
<1>19. CASE PasteToken(c)
  BY <1>19, <1>a DEF PasteToken, Same, azure
<1>20. CASE DeleteSecret(c)
  <2>1. [NoSecret EXCEPT !.by = c] \in SecretStates /\ [NoSecret EXCEPT !.by = c].by = c
    BY DEF NoSecret, SecretStates
  <2> QED BY <1>20, <1>a, <1>p, <2>1 DEF DeleteSecret, CommandGoes, CommandAt, Connecting
<1>21. CASE CreateSecret(c)
  <2>1. CASE UNCHANGED secrets
    BY <1>21, <1>a, <2>1 DEF CreateSecret
  <2>2. CASE Put(c, [state |-> "plain", repo |-> repo[c], by |-> c])
    <3>1. commandAt[c] \in Connecting /\ UNCHANGED <<installed, apps>>
      BY <1>21 DEF CreateSecret, CommandGoes, CommandAt, Connecting
    <3>2. [state |-> "plain", repo |-> repo[c], by |-> c] \in SecretStates
      BY <1>s, <3>1 DEF SecretStates
    <3> QED BY <1>p, <2>2, <3>1, <3>2
  <2> QED BY <1>21, <2>1, <2>2 DEF CreateSecret
<1>22. CASE LabelSecret(c)
  <2>1. CASE UNCHANGED secrets
    BY <1>22, <1>a, <2>1 DEF LabelSecret
  <2>2. CASE Put(c, [SecretOf(c) EXCEPT !.state = "labelled"])
    <3>1. commandAt[c] \in Connecting /\ UNCHANGED <<installed, apps>>
      BY <1>22 DEF LabelSecret, CommandGoes, CommandAt, Connecting
    <3>2. [SecretOf(c) EXCEPT !.state = "labelled"] \in SecretStates
      BY <1>s, <3>1 DEF SecretStates
    <3> QED BY <1>p, <2>2, <3>1, <3>2
  <2> QED BY <1>22, <2>1, <2>2 DEF LabelSecret
<1>23. CASE CloseMenu(c)
  BY <1>23, <1>a DEF CloseMenu, Same, azure
<1> QED BY <1>1, <1>2, <1>3, <1>4, <1>5, <1>6, <1>7, <1>8, <1>9, <1>10, <1>11, <1>12, <1>13, <1>14,
    <1>15, <1>16, <1>17, <1>18, <1>19, <1>20, <1>21, <1>22, <1>23 DEF CommandStep,
    CreateApplication, ApplyFile, Act

\* It leaves the other commands alone.
LEMMA OthersKept ==
    ASSUME NEW c \in Commands, StepTypes, KnowsTypes, DeedsTypes,
           CommandStep(c)
    PROVE  OfItself(c)
<1> USE DEF OfItself, StepTypes, KnowsTypes, DeedsTypes, CommandAt, CommandGoes, EndCommand, knows,
    deeds
<1>1. CASE ReadContext(c)
  BY <1>1 DEF ReadContext, WithoutCluster
<1>2. CASE ReadConfig(c)
  BY <1>2 DEF ReadConfig, WithoutCluster, AfterConfig
<1>3. CASE NameApplication(c)
  BY <1>3 DEF NameApplication
<1>4. CASE PickRepo(c)
  BY <1>4 DEF PickRepo, Learns
<1>5. CASE BrowseRepos(c)
  BY <1>5 DEF BrowseRepos, Learns
<1>6. CASE OfferToken(c)
  BY <1>6 DEF OfferToken, Agrees
<1>7. CASE GenerateToken(c)
  BY <1>7 DEF GenerateToken, Does, CommandChanges
<1>8. CASE PickPath(c)
  BY <1>8 DEF PickPath
<1>9. CASE ListClusterNamespaces(c)
  BY <1>9 DEF ListClusterNamespaces
<1>10. CASE PickClusterNamespace(c)
  BY <1>10 DEF PickClusterNamespace, Agrees
<1>11. CASE WriteApplication(c)
  BY <1>11 DEF WriteApplication, Does
<1>12. CASE ReadFile(c)
  BY <1>12 DEF ReadFile, Learns
<1>13. CASE CheckInstalled(c)
  BY <1>13 DEF CheckInstalled
<1>14. CASE Confirm(c)
  BY <1>14 DEF Confirm, Agrees
<1>15. CASE Apply(c)
  BY <1>15 DEF Apply, Applied, Does
<1>16. CASE Probe(c)
  BY <1>16 DEF Probe, Learns
<1>17. CASE OpenUI(c)
  BY <1>17 DEF OpenUI, Does
<1>18. CASE ConnectRepo(c)
  BY <1>18 DEF ConnectRepo
<1>19. CASE PasteToken(c)
  BY <1>19 DEF PasteToken
<1>20. CASE DeleteSecret(c)
  BY <1>20 DEF DeleteSecret
<1>21. CASE CreateSecret(c)
  BY <1>21 DEF CreateSecret, NotRegistered, Does
<1>22. CASE LabelSecret(c)
  BY <1>22 DEF LabelSecret, NotRegistered, Registered
<1>23. CASE CloseMenu(c)
  BY <1>23 DEF CloseMenu
<1> QED BY <1>1, <1>2, <1>3, <1>4, <1>5, <1>6, <1>7, <1>8, <1>9, <1>10, <1>11, <1>12, <1>13, <1>14,
    <1>15, <1>16, <1>17, <1>18, <1>19, <1>20, <1>21, <1>22, <1>23 DEF CommandStep,
    CreateApplication, ApplyFile, Act

\* A command has a cluster and a repository where it needs them.
LEMMA KnowsKept ==
    ASSUME NEW c \in Commands, StepTypes, KnowsTypes, DeedsTypes, UserTypes,
           KnowsOK(c), CommandStep(c)
    PROVE  KnowsOK(c)'
<1> USE DEF KnowsOK, OnCluster, Connecting, StepTypes, KnowsTypes, UserTypes, DeedsTypes, CommandAt,
    CommandGoes, EndCommand, knows, deeds
<1>1. CASE ReadContext(c)
  BY <1>1 DEF ReadContext, WithoutCluster
<1>2. CASE ReadConfig(c)
  BY <1>2, KindAssumption DEF ReadConfig, WithoutCluster, AfterConfig
<1>3. CASE NameApplication(c)
  BY <1>3 DEF NameApplication
<1>4. CASE PickRepo(c)
  BY <1>4 DEF PickRepo, Learns
<1>5. CASE BrowseRepos(c)
  BY <1>5 DEF BrowseRepos, Learns
<1>6. CASE OfferToken(c)
  BY <1>6 DEF OfferToken, Agrees
<1>7. CASE GenerateToken(c)
  BY <1>7 DEF GenerateToken, Does, CommandChanges
<1>8. CASE PickPath(c)
  BY <1>8 DEF PickPath
<1>9. CASE ListClusterNamespaces(c)
  BY <1>9 DEF ListClusterNamespaces
<1>10. CASE PickClusterNamespace(c)
  BY <1>10 DEF PickClusterNamespace, Agrees
<1>11. CASE WriteApplication(c)
  BY <1>11 DEF WriteApplication, Does
<1>12. CASE ReadFile(c)
  BY <1>12 DEF ReadFile, Learns
<1>13. CASE CheckInstalled(c)
  BY <1>13 DEF CheckInstalled
<1>14. CASE Confirm(c)
  BY <1>14 DEF Confirm, Agrees
<1>15. CASE Apply(c)
  BY <1>15 DEF Apply, Applied, Does
<1>16. CASE Probe(c)
  BY <1>16 DEF Probe, Learns
<1>17. CASE OpenUI(c)
  BY <1>17 DEF OpenUI, Does
<1>18. CASE ConnectRepo(c)
  BY <1>18 DEF ConnectRepo, MayConnect
<1>19. CASE PasteToken(c)
  BY <1>19 DEF PasteToken
<1>20. CASE DeleteSecret(c)
  BY <1>20 DEF DeleteSecret
<1>21. CASE CreateSecret(c)
  BY <1>21 DEF CreateSecret, NotRegistered, Does
<1>22. CASE LabelSecret(c)
  BY <1>22 DEF LabelSecret, NotRegistered, Registered
<1>23. CASE CloseMenu(c)
  BY <1>23 DEF CloseMenu
<1> QED BY <1>1, <1>2, <1>3, <1>4, <1>5, <1>6, <1>7, <1>8, <1>9, <1>10, <1>11, <1>12, <1>13, <1>14,
    <1>15, <1>16, <1>17, <1>18, <1>19, <1>20, <1>21, <1>22, <1>23 DEF CommandStep,
    CreateApplication, ApplyFile, Act

\* It keeps to its cluster.
LEMMA ClusterKept ==
    ASSUME NEW c \in Commands, StepTypes, KnowsTypes, DeedsTypes, UserTypes,
           KnowsOK(c), ClusterOK(c), CommandStep(c)
    PROVE  ClusterOK(c)'
<1> USE DEF ClusterOK, KnowsOK, OnCluster, BeforeConfig, OfCluster, StepTypes, KnowsTypes,
    DeedsTypes, CommandAt, CommandGoes, EndCommand, knows, deeds
<1>1. CASE ReadContext(c)
  BY <1>1 DEF ReadContext, WithoutCluster
<1>2. CASE ReadConfig(c)
  BY <1>2 DEF ReadConfig, WithoutCluster, AfterConfig
<1>3. CASE NameApplication(c)
  BY <1>3 DEF NameApplication
<1>4. CASE PickRepo(c)
  BY <1>4 DEF PickRepo, Learns
<1>5. CASE BrowseRepos(c)
  BY <1>5 DEF BrowseRepos, Learns
<1>6. CASE OfferToken(c)
  BY <1>6 DEF OfferToken, Agrees
<1>7. CASE GenerateToken(c)
  BY <1>7 DEF GenerateToken, Does, CommandChanges
<1>8. CASE PickPath(c)
  BY <1>8 DEF PickPath
<1>9. CASE ListClusterNamespaces(c)
  BY <1>9 DEF ListClusterNamespaces
<1>10. CASE PickClusterNamespace(c)
  BY <1>10 DEF PickClusterNamespace, Agrees
<1>11. CASE WriteApplication(c)
  BY <1>11 DEF WriteApplication, Does
<1>12. CASE ReadFile(c)
  BY <1>12 DEF ReadFile, Learns
<1>13. CASE CheckInstalled(c)
  BY <1>13 DEF CheckInstalled
<1>14. CASE Confirm(c)
  BY <1>14 DEF Confirm, Agrees
<1>15. CASE Apply(c)
  BY <1>15 DEF Apply, Applied, Does
<1>16. CASE Probe(c)
  BY <1>16 DEF Probe, Learns
<1>17. CASE OpenUI(c)
  BY <1>17 DEF OpenUI, Does
<1>18. CASE ConnectRepo(c)
  BY <1>18 DEF ConnectRepo
<1>19. CASE PasteToken(c)
  BY <1>19 DEF PasteToken
<1>20. CASE DeleteSecret(c)
  BY <1>20 DEF DeleteSecret
<1>21. CASE CreateSecret(c)
  BY <1>21 DEF CreateSecret, NotRegistered, Does
<1>22. CASE LabelSecret(c)
  BY <1>22 DEF LabelSecret, NotRegistered, Registered
<1>23. CASE CloseMenu(c)
  BY <1>23 DEF CloseMenu
<1> QED BY <1>1, <1>2, <1>3, <1>4, <1>5, <1>6, <1>7, <1>8, <1>9, <1>10, <1>11, <1>12, <1>13, <1>14,
    <1>15, <1>16, <1>17, <1>18, <1>19, <1>20, <1>21, <1>22, <1>23 DEF CommandStep,
    CreateApplication, ApplyFile, Act

\* What a deed adds to the changes made.
LEMMA Deeds ==
    ASSUME NEW c \in Commands, DeedsTypes, KnowsTypes,
           NEW change \in CommandChanges \cup {"forward"}, Does(c, change)
    PROVE  Made(c)' = Made(c) \cup ({change} \cap CommandChanges)
<1>1. did'[c] = did[c] \cup {<<change, kubeconfig[c]>>}
  BY DEF Does, DeedsTypes
<1>2. kubeconfig[c] \in Clusters \cup {NoValue}
  BY DEF KnowsTypes
<1> QED BY <1>1, <1>2 DEF Made

\* It does or reports what was agreed to.
LEMMA AgreedKept ==
    ASSUME NEW c \in Commands, StepTypes, KnowsTypes, DeedsTypes, UserTypes,
           KnowsOK(c), AgreedOK(c), CommandStep(c)
    PROVE  AgreedOK(c)'
<1> USE DEF StepTypes, KnowsTypes, DeedsTypes, CommandAt, CommandGoes, EndCommand
<1>m. ASSUME UNCHANGED <<did, agreed>> PROVE Made(c)' = Made(c) /\ agreed'[c] = agreed[c]
  BY <1>m DEF Made
<1>u. ASSUME UNCHANGED deeds,
             commandAt'[c] = commandAt[c] \/ commandAt[c] \notin Owing \cup {"token"},
             commandAt'[c] = commandAt[c] \/ commandAt'[c] \notin Owing
      PROVE  AgreedOK(c)'
  BY <1>u, <1>m DEF AgreedOK, Answered, Owing, deeds
<1>1. CASE ReadContext(c)
  BY <1>1, <1>u DEF Owing, ReadContext, WithoutCluster, deeds
<1>2. CASE ReadConfig(c)
  BY <1>2, <1>u, KindAssumption DEF Owing, ReadConfig, WithoutCluster, AfterConfig, deeds
<1>3. CASE NameApplication(c)
  BY <1>3, <1>u DEF Owing, NameApplication, deeds
<1>4. CASE PickRepo(c)
  BY <1>4, <1>u DEF Owing, PickRepo, deeds
<1>5. CASE BrowseRepos(c)
  BY <1>5, <1>u DEF Owing, BrowseRepos, deeds
<1>6. CASE OfferToken(c)
  <2>1. /\ commandAt[c] = "token" /\ commandAt'[c] \in {"token", "path"}
        /\ UNCHANGED <<did, warned>>
        /\ \/ agreed'[c] = agreed[c] /\ "token" \notin agreed[c]
           \/ agreed'[c] = agreed[c] \cup {"token"} /\ commandAt'[c] = "token"
    BY <1>6 DEF OfferToken, Agrees, deeds
  <2>2. Made(c)' = Made(c)
    BY <2>1 DEF Made
  <2> QED BY <2>1, <2>2 DEF AgreedOK, Answered
<1>7. CASE GenerateToken(c)
  <2>1. commandAt[c] = "token" /\ commandAt'[c] = "path" /\ agreed'[c] = agreed[c]
    BY <1>7 DEF GenerateToken, Does
  <2>2. CASE Does(c, "token")
    <3>1. Made(c)' = Made(c) \cup {"token"} /\ warned'[c] = warned[c]
      BY <2>2, Deeds DEF CommandChanges, Does
    <3> QED BY <2>1, <3>1 DEF AgreedOK, Answered
  <2>3. CASE /\ warned' = [warned EXCEPT ![c] = @ \cup {"token"}]
             /\ UNCHANGED <<agreed, did, connected>>
    <3>1. warned'[c] = warned[c] \cup {"token"}
      BY <2>3
    <3> QED BY <1>m, <2>1, <2>3, <3>1 DEF AgreedOK, Answered
  <2> QED BY <1>7, <2>2, <2>3 DEF GenerateToken
<1>8. CASE PickPath(c)
  BY <1>8, <1>u DEF Owing, PickPath, deeds
<1>9. CASE ListClusterNamespaces(c)
  BY <1>9, <1>u DEF Owing, ListClusterNamespaces, deeds
<1>10. CASE PickClusterNamespace(c)
  <2>1. CASE CommandGoes(c, "namespace", "write") /\ Agrees(c, "write")
    <3>1. /\ commandAt[c] = "namespace" /\ commandAt'[c] = "write" /\ UNCHANGED <<did, warned>>
          /\ agreed'[c] = agreed[c] \cup {"write"}
      BY <2>1 DEF Agrees
    <3>2. Made(c)' = Made(c)
      BY <3>1 DEF Made
    <3> QED BY <3>1, <3>2 DEF AgreedOK, Answered
  <2>2. CASE EndCommand(c, "namespace", "left") /\ UNCHANGED deeds
    BY <2>2, <1>u DEF Owing
  <2> QED BY <1>10, <2>1, <2>2 DEF PickClusterNamespace
<1>11. CASE WriteApplication(c)
  <2>1. CASE EndCommand(c, "write", "done") /\ Does(c, "write")
    <3>1. /\ commandAt'[c] = commandAt[c] /\ agreed'[c] = agreed[c] /\ warned'[c] = warned[c]
          /\ Made(c) \subseteq Made(c)'
      BY <2>1, Deeds DEF Does, CommandChanges
    <3> QED BY <3>1 DEF AgreedOK, Answered
  <2>2. CASE EndCommand(c, "write", "failed") /\ UNCHANGED deeds
    BY <2>2, <1>u DEF Owing
  <2> QED BY <1>11, <2>1, <2>2 DEF WriteApplication
<1>12. CASE ReadFile(c)
  BY <1>12, <1>u DEF Owing, ReadFile, deeds
<1>13. CASE CheckInstalled(c)
  BY <1>13, <1>u DEF Owing, CheckInstalled, deeds
<1>14. CASE Confirm(c)
  <2>1. CASE CommandGoes(c, "confirm", "apply") /\ Agrees(c, "apply")
    <3>1. /\ commandAt[c] = "confirm" /\ commandAt'[c] = "apply" /\ UNCHANGED <<did, warned>>
          /\ agreed'[c] = agreed[c] \cup {"apply"}
      BY <2>1 DEF Agrees
    <3>2. Made(c)' = Made(c)
      BY <3>1 DEF Made
    <3> QED BY <3>1, <3>2 DEF AgreedOK, Answered
  <2>2. CASE EndCommand(c, "confirm", "left") /\ UNCHANGED deeds
    BY <2>2, <1>u DEF Owing
  <2> QED BY <1>14, <2>1, <2>2 DEF Confirm
<1>15. CASE Apply(c)
  <2>1. CASE CommandGoes(c, "apply", "probe") /\ Applied(c)
    <3>1. /\ commandAt[c] = "apply" /\ commandAt'[c] = "probe" /\ agreed'[c] = agreed[c]
          /\ warned'[c] = warned[c] /\ Made(c)' = Made(c) \cup {"apply"}
      BY <2>1, Deeds DEF Applied, Does, CommandChanges
    <3> QED BY <3>1 DEF AgreedOK, Answered
  <2>2. CASE EndCommand(c, "apply", "failed") /\ UNCHANGED deeds
    BY <2>2, <1>u DEF Owing
  <2> QED BY <1>15, <2>1, <2>2 DEF Apply
<1>16. CASE Probe(c)
  BY <1>16, <1>u DEF Owing, Probe, deeds
<1>17. CASE OpenUI(c)
  <2>1. CASE UNCHANGED deeds
    BY <1>17, <1>u, <2>1 DEF Owing, OpenUI
  <2>2. CASE CommandGoes(c, "ui", "menu") /\ Does(c, "forward")
    <3>1. /\ commandAt[c] = "ui" /\ commandAt'[c] = "menu" /\ agreed'[c] = agreed[c]
          /\ warned'[c] = warned[c]
      BY <2>2 DEF Does
    <3>2. Made(c)' = Made(c) \cup ({"forward"} \cap CommandChanges)
      BY <2>2, Deeds
    <3> QED BY <3>1, <3>2 DEF AgreedOK, Answered
  <2> QED BY <1>17, <2>1, <2>2 DEF OpenUI
<1>18. CASE ConnectRepo(c)
  BY <1>18, <1>u DEF Owing, ConnectRepo, deeds
<1>19. CASE PasteToken(c)
  <2>1. CASE CommandGoes(c, "paste", "menu") /\ UNCHANGED deeds
    BY <1>u, <2>1 DEF Owing
  <2>2. CASE /\ CommandGoes(c, "paste", "delete")
             /\ agreed' = [agreed EXCEPT ![c] = @ \cup {"connect"}]
             /\ warned' = [warned EXCEPT ![c] = @ \ {"connect"}] /\ UNCHANGED did
    <3>1. /\ commandAt[c] = "paste" /\ commandAt'[c] = "delete"
          /\ agreed'[c] = agreed[c] \cup {"connect"} /\ warned'[c] = warned[c] \ {"connect"}
          /\ did' = did
      BY <2>2
    <3>2. Made(c)' = Made(c)
      BY <3>1 DEF Made
    <3> QED BY <3>1, <3>2 DEF AgreedOK, Answered
  <2> QED BY <1>19, <2>1, <2>2 DEF PasteToken
<1>20. CASE DeleteSecret(c)
  <2>1. commandAt[c] = "delete" /\ commandAt'[c] = "create" /\ UNCHANGED <<agreed, did, warned>>
    BY <1>20 DEF DeleteSecret, deeds
  <2> QED BY <1>m, <2>1 DEF AgreedOK, Answered
<1>21. CASE CreateSecret(c)
  <2>1. CASE CommandGoes(c, "create", "label") /\ Does(c, "connect")
    <3>1. /\ commandAt[c] = "create" /\ commandAt'[c] = "label" /\ agreed'[c] = agreed[c]
          /\ warned'[c] = warned[c] /\ Made(c)' = Made(c) \cup {"connect"}
      BY <2>1, Deeds DEF Does, CommandChanges
    <3> QED BY <3>1 DEF AgreedOK, Answered
  <2>2. CASE CommandGoes(c, "create", "menu") /\ NotRegistered(c)
    <3>1. /\ commandAt[c] = "create" /\ commandAt'[c] = "menu" /\ UNCHANGED <<agreed, did>>
          /\ warned'[c] = warned[c] \cup {"connect"}
      BY <2>2 DEF NotRegistered
    <3> QED BY <1>m, <3>1 DEF AgreedOK, Answered
  <2> QED BY <1>21, <2>1, <2>2 DEF CreateSecret
<1>22. CASE LabelSecret(c)
  <2>1. /\ commandAt[c] = "label" /\ commandAt'[c] = "menu" /\ UNCHANGED <<agreed, did>>
        /\ warned[c] \subseteq warned'[c]
    BY <1>22 DEF LabelSecret, NotRegistered, Registered
  <2> QED BY <1>m, <2>1 DEF AgreedOK, Answered
<1>23. CASE CloseMenu(c)
  BY <1>23, <1>u DEF Owing, CloseMenu, deeds
<1> QED BY <1>1, <1>2, <1>3, <1>4, <1>5, <1>6, <1>7, <1>8, <1>9, <1>10, <1>11, <1>12, <1>13, <1>14,
    <1>15, <1>16, <1>17, <1>18, <1>19, <1>20, <1>21, <1>22, <1>23 DEF CommandStep,
    CreateApplication, ApplyFile, Act

\* Its Secret is its own, labelled once it is connected.
LEMMA SecretKept ==
    ASSUME NEW c \in Commands, StepTypes, KnowsTypes, DeedsTypes, AzureTypes, KnowsOK(c),
           SecretOK(c),
           CommandStep(c)
    PROVE  SecretOK(c)'
<1> USE DEF CommandAt, CommandGoes, EndCommand, StepTypes
<1>a. ASSUME commandAt[c] \notin {"menu", "ui", "paste"}, connected' = connected,
             commandAt'[c] # "label"
      PROVE  SecretOK(c)'
  BY <1>a DEF SecretOK, KnowsOK
<1>b. ASSUME UNCHANGED <<secrets, knows>>, connected' \subseteq connected, commandAt'[c] # "label"
      PROVE  SecretOK(c)'
  BY <1>b DEF SecretOK, OwnSecret, SecretOf, knows
<1>s. ASSUME commandAt[c] \in {"create", "label"}
      PROVE  kubeconfig[c] \in Clusters /\ repo[c] \in ArgoRepos /\ SecretOf(c) \in SecretStates
  BY <1>s, Secret DEF KnowsOK, OnCluster, Connecting
<1>1. CASE CreateApplication(c)
  BY <1>1, <1>a DEF CreateApplication, NameApplication, PickRepo, BrowseRepos, OfferToken, Agrees,
     GenerateToken, Does, PickPath, ListClusterNamespaces, PickClusterNamespace,
     WriteApplication, deeds
<1>2. CASE ReadContext(c) \/ ReadConfig(c)
  BY <1>2, <1>a, KindAssumption DEF ReadContext, ReadConfig, WithoutCluster, AfterConfig, deeds
<1>3. CASE ApplyFile(c) \/ Probe(c) \/ DeleteSecret(c)
  BY <1>3, <1>a DEF ApplyFile, ReadFile, CheckInstalled, Confirm, Agrees, Apply, Applied, Does,
     Probe, DeleteSecret, deeds
<1>4. CASE OpenUI(c) \/ ConnectRepo(c) \/ PasteToken(c) \/ CloseMenu(c)
  BY <1>4, <1>b DEF OpenUI, Does, ConnectRepo, PasteToken, CloseMenu, Same, azure, deeds
<1>5. CASE CreateSecret(c)
  <2>1. CASE /\ CommandGoes(c, "create", "label") /\ Does(c, "connect")
             /\ Put(c, [state |-> "plain", repo |-> repo[c], by |-> c])
    <3>1. [state |-> "plain", repo |-> repo[c], by |-> c] \in SecretStates
      BY <1>s, <2>1 DEF SecretStates
    <3>2. SecretOf(c)' = [state |-> "plain", repo |-> repo[c], by |-> c] /\ repo'[c] = repo[c]
      BY <1>s, <1>5, <2>1, <3>1, Puts DEF SecretOf, CreateSecret, knows
    <3>3. c \notin connected'
      BY <2>1 DEF Does, KnowsOK
    <3> QED BY <3>2, <3>3 DEF SecretOK, OwnSecret
  <2>2. CASE CommandGoes(c, "create", "menu") /\ NotRegistered(c)
    BY <1>a, <2>2 DEF NotRegistered
  <2> QED BY <1>5, <2>1, <2>2 DEF CreateSecret
<1>6. CASE LabelSecret(c)
  <2>1. CASE /\ CommandGoes(c, "label", "menu") /\ Registered(c)
             /\ Put(c, [SecretOf(c) EXCEPT !.state = "labelled"])
    <3>1. [SecretOf(c) EXCEPT !.state = "labelled"] \in SecretStates
      BY <1>s, <2>1 DEF SecretStates
    <3>2. SecretOf(c)' = [SecretOf(c) EXCEPT !.state = "labelled"] /\ repo'[c] = repo[c]
      BY <1>s, <1>6, <2>1, <3>1, Puts DEF SecretOf, LabelSecret, knows
    <3>3. OwnSecret(c, {"labelled"})' /\ commandAt'[c] = "menu"
      BY <1>s, <2>1, <3>2 DEF SecretOK, OwnSecret, SecretStates
    <3> QED BY <3>3 DEF SecretOK
  <2>2. CASE CommandGoes(c, "label", "menu") /\ NotRegistered(c)
    BY <1>a, <2>2 DEF NotRegistered
  <2> QED BY <1>6, <2>1, <2>2 DEF LabelSecret
<1> QED BY <1>1, <1>2, <1>3, <1>4, <1>5, <1>6 DEF CommandStep, ApplyFile, Act

-----------------------------------------------------------------------------

\* What is so of a command stays so under another's step.
LEMMA OthersRest ==
    ASSUME NEW c \in Commands, NEW d \in Commands \ {c}, KnowsTypes, KnowsOK(d), ClusterOK(d),
           SecretOK(d), AgreedOK(d), OfItself(c), Touched(c)
    PROVE  CommandOK(d)'
<1>1. KnowsOK(d)' /\ ClusterOK(d)'
  BY DEF OfItself, KnowsOK, ClusterOK
<1>2. AgreedOK(d)'
  BY DEF OfItself, AgreedOK, Answered, Made
<1>3. ASSUME commandAt[d] = "label" \/ d \in connected, NEW states, "labelled" \in states,
             OwnSecret(d, states)
      PROVE  OwnSecret(d, states)'
  <2>1. kubeconfig[d] \in Clusters /\ repo[d] \in ArgoRepos /\ NameOf[repo[d]] \in Names
    BY <1>3, NameAssumption DEF KnowsOK, OnCluster, Connecting
  <2>2. kubeconfig'[d] = kubeconfig[d] /\ repo'[d] = repo[d]
    BY DEF OfItself
  <2>3. \/ SecretOf(d)' = SecretOf(d)
        \/ SecretOf(d)'.by = c
        \/ /\ SecretOf(d)'.by = SecretOf(d).by /\ SecretOf(d)'.repo = SecretOf(d).repo
           /\ SecretOf(d)'.state = "labelled"
    BY <2>1, <2>2 DEF Touched, SecretOf
  <2> QED BY <1>3, <2>2, <2>3 DEF OwnSecret
<1>4. SecretOK(d)'
  <2>1. commandAt'[d] = commandAt[d] /\ (d \in connected' <=> d \in connected)
    BY DEF OfItself
  <2> QED BY <1>3, <2>1 DEF SecretOK
<1> QED BY <1>1, <1>2, <1>4 DEF CommandOK

\* A step of a command keeps the invariant.
LEMMA CommandStepKeeps ==
    ASSUME ArgoInv, NEW c \in Commands,
           CommandStep(c)
    PROVE  ArgoInv'
<1>1. /\ StepTypes /\ KnowsTypes /\ DeedsTypes /\ AzureTypes /\ UserTypes
      /\ KnowsOK(c) /\ ClusterOK(c) /\ SecretOK(c) /\ AgreedOK(c)
  BY TypesAre DEF ArgoInv, CommandOK
<1>2. ArgoTypeOK'
  <2>1. StepTypes' /\ KnowsTypes' /\ DeedsTypes' /\ AzureTypes' /\ UserTypes'
    BY <1>1, StepTypesKept, KnowsTypesKept, DeedsTypesKept, SecretsKept, UserTypesKept
  <2> QED BY <2>1 DEF ArgoTypeOK, StepTypes, KnowsTypes, DeedsTypes, AzureTypes, UserTypes
<1>3. CommandOK(c)'
  <2>1. KnowsOK(c)' /\ ClusterOK(c)' /\ AgreedOK(c)' /\ SecretOK(c)'
    BY <1>1, KnowsKept, ClusterKept, AgreedKept, SecretKept
  <2> QED BY <2>1 DEF CommandOK
<1>4. OfItself(c) /\ Touched(c)
  BY <1>1, OthersKept, SecretsKept
<1>5. ASSUME NEW d \in Commands \ {c} PROVE CommandOK(d)'
  BY <1>1, <1>4, OthersRest DEF ArgoInv, CommandOK
<1> QED BY <1>2, <1>3, <1>5 DEF ArgoInv

\* Every step does.
LEMMA ArgoStep == ArgoInv /\ [ArgoNext]_argoVars => ArgoInv'
<1> SUFFICES ASSUME ArgoInv, [ArgoNext]_argoVars PROVE ArgoInv'
  OBVIOUS
<1>1. ASSUME NEW c \in Commands, CommandStep(c) PROVE ArgoInv'
  BY <1>1, CommandStepKeeps
<1>2. ASSUME UNCHANGED <<azure, step, knows, deeds>>, UserTypes' PROVE ArgoInv'
  <2>1. ArgoTypeOK'
    BY <1>2 DEF ArgoInv, ArgoTypeOK, UserTypes, azure, step, knows, deeds
  <2>2. ASSUME NEW c \in Commands PROVE CommandOK(c)'
    BY <1>2 DEF ArgoInv, CommandOK, KnowsOK, ClusterOK, SecretOK, OwnSecret, SecretOf, AgreedOK,
       Answered, Made, azure, step, knows, deeds
  <2> QED BY <2>1, <2>2 DEF ArgoInv
<1>3. CASE Move
  BY <1>2, <1>3, MovesAssumption DEF Move, ArgoInv, ArgoTypeOK, UserTypes
<1>4. CASE UNCHANGED argoVars
  BY <1>2, <1>4 DEF argoVars, user, ArgoInv, ArgoTypeOK, UserTypes
<1> QED BY <1>1, <1>3, <1>4 DEF ArgoNext, CommandStep

\* It holds at the start.
LEMMA ArgoStart == ArgoInit => ArgoInv
<1> SUFFICES ASSUME ArgoInit PROVE ArgoInv
  OBVIOUS
<1>1. ArgoTypeOK
  <2>1. \A c \in Commands : FirstStep[commandKind[c]] \in CommandSteps
    BY KindAssumption DEF ArgoInit, FirstStep, CommandSteps, Prompts
  <2> QED BY <2>1, MovesAssumption
       DEF ArgoInit, ArgoTypeOK, NoSecret, SecretStates, CommandEnds
<1>2. ASSUME NEW c \in Commands PROVE CommandOK(c)
  <2>1. /\ commandAt[c] \in {"name", "file", "context"} /\ agreed[c] = {} /\ did[c] = {}
        /\ connected = {}
    BY KindAssumption DEF ArgoInit, FirstStep
  <2> QED BY <2>1 DEF CommandOK, KnowsOK, OnCluster, Connecting, ClusterOK, SecretOK, AgreedOK
<1> QED BY <1>1, <1>2 DEF ArgoInv

\* The inductive invariant.
THEOREM ArgoInvariance == ArgoSpec => []ArgoInv
BY ArgoStart, ArgoStep, PTL DEF ArgoSpec

(* The context named to the user and the one of the kubeconfig are one, as  *)
(* long as the user switches none between the two reads.                   *)
NamedOK(c) ==
    /\ CommandAt(c, "config") => shown[c] = context
    /\ commandAt[c] \in OnCluster => kubeconfig[c] = shown[c]
    /\ \A d \in did[c] : d[1] \in OfCluster => d[2] = shown[c]
Together == (\E c \in Commands : CommandAt(c, "config")) => UNCHANGED context
NamedInv == \A c \in Commands : NamedOK(c)

\* A command's own step keeps them one.
LEMMA NamedKept ==
    ASSUME NEW c \in Commands, StepTypes, KnowsTypes, DeedsTypes, UserTypes,
           KnowsOK(c), ClusterOK(c), NamedOK(c), CommandStep(c), Together
    PROVE  NamedOK(c)'
<1> USE DEF NamedOK, ClusterOK, KnowsOK, OnCluster, BeforeConfig, OfCluster, StepTypes, KnowsTypes,
    DeedsTypes, CommandAt, CommandGoes, EndCommand, knows, deeds, Same, user, Together
<1>1. CASE ReadContext(c)
  BY <1>1 DEF ReadContext, WithoutCluster
<1>2. CASE ReadConfig(c)
  BY <1>2 DEF ReadConfig, WithoutCluster, AfterConfig
<1>3. CASE NameApplication(c)
  BY <1>3 DEF NameApplication
<1>4. CASE PickRepo(c)
  BY <1>4 DEF PickRepo, Learns
<1>5. CASE BrowseRepos(c)
  BY <1>5 DEF BrowseRepos, Learns
<1>6. CASE OfferToken(c)
  BY <1>6 DEF OfferToken, Agrees
<1>7. CASE GenerateToken(c)
  BY <1>7 DEF GenerateToken, Does, CommandChanges
<1>8. CASE PickPath(c)
  BY <1>8 DEF PickPath
<1>9. CASE ListClusterNamespaces(c)
  BY <1>9 DEF ListClusterNamespaces
<1>10. CASE PickClusterNamespace(c)
  BY <1>10 DEF PickClusterNamespace, Agrees
<1>11. CASE WriteApplication(c)
  BY <1>11 DEF WriteApplication, Does
<1>12. CASE ReadFile(c)
  BY <1>12 DEF ReadFile, Learns
<1>13. CASE CheckInstalled(c)
  BY <1>13 DEF CheckInstalled
<1>14. CASE Confirm(c)
  BY <1>14 DEF Confirm, Agrees
<1>15. CASE Apply(c)
  BY <1>15 DEF Apply, Applied, Does
<1>16. CASE Probe(c)
  BY <1>16 DEF Probe, Learns
<1>17. CASE OpenUI(c)
  BY <1>17 DEF OpenUI, Does
<1>18. CASE ConnectRepo(c)
  BY <1>18 DEF ConnectRepo
<1>19. CASE PasteToken(c)
  BY <1>19 DEF PasteToken
<1>20. CASE DeleteSecret(c)
  BY <1>20 DEF DeleteSecret
<1>21. CASE CreateSecret(c)
  BY <1>21 DEF CreateSecret, NotRegistered, Does
<1>22. CASE LabelSecret(c)
  BY <1>22 DEF LabelSecret, NotRegistered, Registered
<1>23. CASE CloseMenu(c)
  BY <1>23 DEF CloseMenu
<1> QED BY <1>1, <1>2, <1>3, <1>4, <1>5, <1>6, <1>7, <1>8, <1>9, <1>10, <1>11, <1>12, <1>13, <1>14,
    <1>15, <1>16, <1>17, <1>18, <1>19, <1>20, <1>21, <1>22, <1>23 DEF CommandStep,
    CreateApplication, ApplyFile, Act

\* It keeps those of the others one as well.
LEMMA NamedRests ==
    ASSUME NEW c \in Commands, NEW d \in Commands \ {c}, StepTypes, KnowsTypes, NamedOK(d),
           OfItself(c), CommandStep(c), Together
    PROVE  NamedOK(d)'
<1>1. shown'[d] = shown[d]
  BY DEF CommandStep, ReadContext, ReadConfig, WithoutCluster, CreateApplication, ApplyFile, Act,
     NameApplication, PickRepo, BrowseRepos, OfferToken, GenerateToken, PickPath,
     ListClusterNamespaces, PickClusterNamespace, WriteApplication, ReadFile, CheckInstalled,
     Confirm, Apply, Probe, OpenUI, ConnectRepo, PasteToken, DeleteSecret, CreateSecret,
     LabelSecret, CloseMenu, Learns, knows, KnowsTypes
<1>2. CommandAt(d, "config") => context' = context
  BY DEF Together
<1> QED BY <1>1, <1>2 DEF OfItself, NamedOK, CommandAt

\* Every step keeps the contexts of all commands one.
LEMMA NamedStep == ArgoInv /\ NamedInv /\ [ArgoNext]_argoVars /\ [Together]_argoVars => NamedInv'
<1> SUFFICES ASSUME ArgoInv, NamedInv, [ArgoNext]_argoVars, [Together]_argoVars PROVE NamedInv'
  OBVIOUS
<1>1. Together
  BY DEF Together, argoVars, user
<1>2. StepTypes /\ KnowsTypes /\ DeedsTypes /\ AzureTypes /\ UserTypes
  BY TypesAre DEF ArgoInv
<1>3. ASSUME NEW c \in Commands, CommandStep(c) PROVE NamedInv'
  <2>1. NamedOK(c)'
    BY <1>1, <1>2, <1>3, NamedKept DEF ArgoInv, CommandOK, NamedInv
  <2>2. OfItself(c)
    BY <1>2, <1>3, OthersKept
  <2>3. ASSUME NEW d \in Commands \ {c} PROVE NamedOK(d)'
    BY <1>1, <1>2, <1>3, <2>2, NamedRests DEF NamedInv
  <2> QED BY <2>1, <2>3 DEF NamedInv
<1>4. ASSUME UNCHANGED <<step, knows, deeds>> PROVE NamedInv'
  BY <1>1, <1>4 DEF NamedInv, NamedOK, CommandAt, Together, step, knows, deeds
<1> QED BY <1>3, <1>4 DEF ArgoNext, CommandStep, Move, argoVars

\* As long as the user switches no context between the two reads of a command, all that any
\* command applies, registers and forwards is on the one cluster that it names to the user.
THEOREM OneCluster == ArgoSpec /\ ReadsTogether => []ConfirmedIsChanged
<1>1. ArgoInit => NamedInv
  <2> SUFFICES ASSUME ArgoInit, NEW c \in Commands PROVE NamedOK(c)
    BY DEF NamedInv
  <2>1. commandAt[c] \in {"name", "file", "context"} /\ did[c] = {}
    BY KindAssumption DEF ArgoInit, FirstStep
  <2> QED BY <2>1 DEF NamedOK, CommandAt, OnCluster
<1>2. ReadsTogether <=> [][Together]_argoVars
  BY PTL DEF ReadsTogether, Together
<1>3. NamedInv => ConfirmedIsChanged
  BY DEF NamedInv, NamedOK, OfCluster, ConfirmedIsChanged
<1> QED BY <1>1, <1>2, <1>3, ArgoInvariance, NamedStep, PTL DEF ArgoSpec

\* A command that says a repository is connected has put its labelled Secret there, for any
\* commands at once that register repositories of one name, unless another came after it.
THEOREM Connected == ArgoSpec => []ConnectedIsRegistered
<1>1. ArgoInv => ConnectedIsRegistered
  <2> SUFFICES ASSUME ArgoInv, NEW c \in connected, SecretOf(c).by = c
               PROVE  SecretOf(c) = [state |-> "labelled", repo |-> repo[c], by |-> c]
    BY DEF ConnectedIsRegistered
  <2>1. c \in Commands /\ AzureTypes /\ KnowsOK(c) /\ SecretOK(c)
    BY TypesAre DEF ArgoInv, ArgoTypeOK, CommandOK
  <2>2. kubeconfig[c] \in Clusters /\ repo[c] \in ArgoRepos
    BY <2>1 DEF KnowsOK, OnCluster
  <2>3. SecretOf(c) \in SecretStates
    BY <2>1, <2>2, Secret
  <2> QED BY <2>1, <2>3 DEF SecretOK, OwnSecret, SecretStates
<1> QED BY <1>1, ArgoInvariance, PTL

-----------------------------------------------------------------------------
(* The commands implement ConsentedChanges.                                *)

\* What a step of a command does is of a kind agreed to before, and its last step owes nothing.
WithConsent(c) ==
    /\ commandTold[c] = "none"
    /\ agreed[c] \subseteq agreed'[c] /\ did[c] \subseteq did'[c]
    /\ \A d \in did'[c] \ did[c] : d[1] \in agreed[c] \cup {"forward"}
    /\ commandTold'[c] # "none" => agreed'[c] = agreed[c]
    /\ commandTold'[c] = "done" => agreed[c] \subseteq Answered(c)'

\* Every step is with consent.
LEMMA ConsentKept ==
    ASSUME NEW c \in Commands, StepTypes, KnowsTypes, DeedsTypes, UserTypes, DeedsTypes',
           AgreedOK(c), AgreedOK(c)',
           CommandStep(c)
    PROVE  WithConsent(c)
<1> USE DEF WithConsent, StepTypes, DeedsTypes, CommandAt, CommandGoes, EndCommand, deeds
<1>1. CASE ReadContext(c)
  BY <1>1 DEF ReadContext, WithoutCluster
<1>2. CASE ReadConfig(c)
  BY <1>2 DEF ReadConfig, WithoutCluster, AfterConfig
<1>3. CASE NameApplication(c)
  BY <1>3 DEF NameApplication
<1>4. CASE PickRepo(c)
  BY <1>4 DEF PickRepo
<1>5. CASE BrowseRepos(c)
  BY <1>5 DEF BrowseRepos
<1>6. CASE OfferToken(c)
  BY <1>6 DEF OfferToken, Agrees
<1>7. CASE GenerateToken(c)
  BY <1>7 DEF GenerateToken, Does, CommandChanges
<1>8. CASE PickPath(c)
  BY <1>8 DEF PickPath
<1>9. CASE ListClusterNamespaces(c)
  BY <1>9 DEF ListClusterNamespaces
<1>10. CASE PickClusterNamespace(c)
  BY <1>10 DEF PickClusterNamespace, Agrees
<1>11. CASE WriteApplication(c)
  <2>1. CASE EndCommand(c, "write", "done") /\ Does(c, "write")
    <3>1. /\ commandAt'[c] = "write" /\ "write" \in agreed[c] /\ agreed' = agreed
          /\ warned' = warned
      BY <2>1 DEF Does, AgreedOK
    <3>2. Made(c)' = Made(c) \cup {"write"}
      BY <2>1, Deeds DEF CommandChanges
    <3>3. agreed[c] \subseteq Answered(c)'
      BY <3>1, <3>2 DEF AgreedOK, Answered, CommandChanges
    <3> QED BY <2>1, <3>1, <3>3 DEF Does
  <2>2. CASE EndCommand(c, "write", "failed") /\ UNCHANGED deeds
    BY <2>2
  <2> QED BY <1>11, <2>1, <2>2 DEF WriteApplication
<1>12. CASE ReadFile(c)
  BY <1>12 DEF ReadFile
<1>13. CASE CheckInstalled(c)
  BY <1>13 DEF CheckInstalled
<1>14. CASE Confirm(c)
  BY <1>14 DEF Confirm, Agrees
<1>15. CASE Apply(c)
  BY <1>15 DEF Apply, Applied, Does, AgreedOK
<1>16. CASE Probe(c)
  BY <1>16 DEF Probe
<1>17. CASE OpenUI(c)
  BY <1>17 DEF OpenUI, Does
<1>18. CASE ConnectRepo(c)
  BY <1>18 DEF ConnectRepo
<1>19. CASE PasteToken(c)
  BY <1>19 DEF PasteToken
<1>20. CASE DeleteSecret(c)
  BY <1>20 DEF DeleteSecret
<1>21. CASE CreateSecret(c)
  BY <1>21 DEF CreateSecret, NotRegistered, Does, AgreedOK
<1>22. CASE LabelSecret(c)
  BY <1>22 DEF LabelSecret, NotRegistered, Registered
<1>23. CASE CloseMenu(c)
  <2>1. commandAt'[c] = "menu" /\ UNCHANGED <<agreed, did, warned>>
    BY <1>23 DEF CloseMenu
  <2>2. agreed[c] \subseteq Answered(c)'
    BY <2>1 DEF AgreedOK, CommandChanges
  <2> QED BY <1>23, <2>1, <2>2 DEF CloseMenu
<1> QED BY <1>1, <1>2, <1>3, <1>4, <1>5, <1>6, <1>7, <1>8, <1>9, <1>10, <1>11, <1>12, <1>13, <1>14,
    <1>15, <1>16, <1>17, <1>18, <1>19, <1>20, <1>21, <1>22, <1>23 DEF CommandStep,
    CreateApplication, ApplyFile, Act

PromiseMade == [c \in Commands |-> Made(c)]
PromiseExcused ==
    [c \in Commands |->
        IF commandTold[c] = "none" THEN {} ELSE warned[c] \cup (CommandChanges \ agreed[c])]
PromiseOutcome ==
    [c \in Commands |->
        IF commandTold[c] = "none" THEN "open"
        ELSE IF commandTold[c] = "done" THEN "complete" ELSE "stopped"]

\* A step of a command is a step of the promise.
LEMMA CommandStepKeepsPromise ==
    ASSUME ArgoInv, ArgoInv', NEW c \in Commands,
           CommandStep(c)
    PROVE  CommandPromise!Next
<1>1. /\ StepTypes /\ KnowsTypes /\ DeedsTypes /\ UserTypes /\ StepTypes' /\ DeedsTypes'
      /\ AgreedOK(c) /\ AgreedOK(c)'
  <2>1. ArgoTypeOK' /\ CommandOK(c)'
    BY DEF ArgoInv
  <2>2. StepTypes' /\ DeedsTypes'
    BY <2>1 DEF ArgoTypeOK, StepTypes, DeedsTypes
  <2> QED BY <2>1, <2>2, TypesAre DEF ArgoInv, CommandOK
<1>2. WithConsent(c) /\ OfItself(c)
  BY <1>1, ConsentKept, OthersKept
<1>3. CommandPromise!Others(c)
  BY <1>2 DEF CommandPromise!Others, OfItself, Made
<1>4. Made(c) \subseteq Made(c)' /\ \A e \in Made(c)' \ Made(c) : ConsentOf[e] \in agreed[c]
  <2>1. ASSUME NEW e \in Made(c)' \ Made(c) PROVE ConsentOf[e] \in agreed[c]
    <3>1. PICK k \in Clusters \cup {NoValue} : <<e, k>> \in did'[c] \ did[c]
      BY DEF Made
    <3>2. e \in CommandChanges /\ e \in agreed[c]
      BY <1>2, <3>1 DEF WithConsent, Made, CommandChanges
    <3> QED BY <3>2 DEF ConsentOf
  <2> QED BY <1>2, <2>1 DEF WithConsent, Made
<1>5. PromiseOutcome[c] = "open" /\ PromiseExcused[c] = {}
  BY <1>2 DEF WithConsent, PromiseOutcome, PromiseExcused
<1>6. CASE commandTold'[c] = "none"
  <2>1. commandTold' = commandTold
    BY <1>1, <1>2, <1>6 DEF WithConsent, OfItself, StepTypes
  <2>2. CommandPromise!Work(c)
    BY <1>2, <1>4, <1>5, <2>1 DEF CommandPromise!Work, WithConsent, PromiseOutcome, PromiseExcused
  <2> QED BY <1>3, <2>2 DEF CommandPromise!Next
<1>7. CASE commandTold'[c] # "none"
  <2>1. PromiseOutcome'[c] \in {"complete", "stopped"}
    BY <1>7 DEF PromiseOutcome
  <2>2. PromiseOutcome'[c] = "complete" => CommandChanges \subseteq Made(c)' \cup PromiseExcused'[c]
    <3>1. PromiseExcused'[c] = warned'[c] \cup (CommandChanges \ agreed'[c])
      BY <1>7 DEF PromiseExcused
    <3>2. PromiseOutcome'[c] = "complete" => commandTold'[c] = "done"
      BY <1>7 DEF PromiseOutcome
    <3> QED BY <1>2, <1>7, <3>1, <3>2 DEF WithConsent, Answered
  <2>3. CommandPromise!End(c)
    BY <1>2, <1>4, <1>5, <1>7, <2>1, <2>2
    DEF CommandPromise!End, WithConsent, PromiseOutcome, PromiseExcused
  <2> QED BY <1>3, <2>3 DEF CommandPromise!Next
<1> QED BY <1>6, <1>7

\* The commands keep the promise: they change only what the user agreed to, nothing once they
\* have ended, and end well only with all that was agreed to done or reported.
THEOREM PromiseKept == ArgoSpec => CommandsKeepPromise
<1>1. ArgoInit => CommandPromise!Init
  <2> SUFFICES ASSUME ArgoInit PROVE CommandPromise!Init
    OBVIOUS
  <2>1. PromiseMade = [c \in Commands |-> {}]
    BY DEF ArgoInit, PromiseMade, Made
  <2>2. /\ PromiseExcused = [c \in Commands |-> {}]
        /\ PromiseOutcome = [c \in Commands |-> "open"]
    BY DEF ArgoInit, PromiseExcused, PromiseOutcome
  <2> QED BY <2>1, <2>2
       DEF ArgoInit, CommandPromise!Init, PromiseMade, PromiseExcused, PromiseOutcome
<1>2. ASSUME ArgoInv, ArgoInv', [ArgoNext]_argoVars
      PROVE  [CommandPromise!Next]_<<agreed, PromiseMade, PromiseExcused, PromiseOutcome>>
  <2>1. ASSUME NEW c \in Commands, CommandStep(c) PROVE CommandPromise!Next
    BY <1>2, <2>1, CommandStepKeepsPromise
  <2>2. CASE UNCHANGED <<step, deeds>>
    BY <2>2 DEF PromiseMade, PromiseExcused, PromiseOutcome, Made, step, deeds
  <2> QED BY <1>2, <2>1, <2>2 DEF ArgoNext, CommandStep, Move, argoVars
<1>3. ArgoInv /\ ArgoInv' /\ [ArgoNext]_argoVars =>
          [CommandPromise!Next]_<<agreed, PromiseMade, PromiseExcused, PromiseOutcome>>
  BY <1>2
<1> QED
  BY <1>1, <1>3, ArgoInvariance, PTL
  DEF ArgoSpec, CommandsKeepPromise, CommandPromise!Spec, PromiseMade, PromiseExcused,
      PromiseOutcome

===============================================================================
