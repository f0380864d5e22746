-------------------------------- MODULE OidcSetup --------------------------------
(***************************************************************************)
(* The setup of GitHub Actions for a repository                            *)
(* (commands/aksContainerAssist/oidcSetup.ts): a managed identity that the *)
(* repository's workflow may use, its roles on the cluster and registry,   *)
(* and three secrets of the repository that name it.  Nothing stops a user *)
(* from running it twice, so that setups of a repository, or of several    *)
(* repositories on one identity, interleave at every call of Azure and     *)
(* GitHub.  A call that sets the trust, the annotation or a secret may     *)
(* fail with its effect.                                                   *)
(***************************************************************************)
EXTENDS Naturals

CONSTANTS
    Setups,     \* runs of setupOIDCForGitHub
    SetupRepos,      \* GitHub repositories
    Identities, \* managed identities: a subscription, resource group and name
    Targets,    \* what the setups may be told to deploy to: setup -> TargetKinds
    NoAnswer

ASSUME FreshAnswer == NoAnswer \notin SetupRepos /\ NoAnswer \notin Identities

\* What azureContext names: no cluster, a namespace of the cluster that the user made or that
\* is managed, with a registry or without.
TargetKinds == {"none", "user", "userAcr", "managed", "managedAcr"}

ASSUME TargetsAssumption == Targets \subseteq [Setups -> TargetKinds]

VARIABLES
    targets, \* setup -> azureContext
    setupAt,      \* setup -> the step it is at
    setupTold,    \* setup -> what the user was told when it ended, or "none"
    agreedTo,     \* setup -> the dialogs the user said yes to: "setup", "secrets"
    repoInfo,    \* setup -> repoInfo
    id,      \* setup -> azureConfig
    left,    \* setup -> the changes it has yet to make
    failed,  \* setup -> the changes it reported as failed (warnings, failedSecrets)
    skipped, \* setup -> the changes it found not to be needed
    holds,   \* the <<identity, role>> assigned
    trusts,  \* identity -> the repository its credential "GitHubActions" names
    stamp,   \* the identity annotated on the managed namespace
    secret   \* repository -> secret -> the identity whose value it holds

setup == <<targets, setupAt, setupTold, agreedTo, repoInfo, id, left, failed, skipped>>
identities == <<holds, trusts, stamp>>
oidcVars == <<setup, identities, secret>>

SecretOrder == <<"clientId", "tenantId", "subscriptionId">>
Secrets == {SecretOrder[n] : n \in 1 .. 3}

\* The roles assigned at once, and all those a target calls for.
Together(c) ==
    CASE c = "managedAcr" -> {"nsWriter", "nsContributor", "acrPush", "acrTasks"}
      [] c = "userAcr" -> {"acrPush", "acrTasks"}
      [] OTHER -> {}

RolesFor(c) ==
    Together(c) \cup (IF c \in {"user", "userAcr"} THEN {"clusterUser"} ELSE {})
                \cup (IF c = "userAcr" THEN {"clusterWriter"} ELSE {})

Roles == UNION {RolesFor(c) : c \in TargetKinds}
SetupChanges == Roles \cup Secrets \cup {"identity", "trust", "annotation"}

Plan(c) ==
    RolesFor(c) \cup Secrets \cup {"identity", "trust"}
                \cup (IF c \in {"managed", "managedAcr"} THEN {"annotation"} ELSE {})

SetupSteps == {"repo", "config", "confirm", "identity", "user", "roles", "probe", "writer", "trust",
          "read", "annotate", "results", "access", "key"} \cup Secrets
SetupEnds == {"left", "failed", "configured", "unset", "partial", "ready"}

OidcTypeOK ==
    /\ targets \in Targets
    /\ setupAt \in [Setups -> SetupSteps] /\ setupTold \in [Setups -> SetupEnds \cup {"none"}]
    /\ agreedTo \in [Setups -> SUBSET {"setup", "secrets"}]
    /\ repoInfo \in [Setups -> SetupRepos \cup {NoAnswer}] /\ id \in [Setups -> Identities \cup {NoAnswer}]
    /\ left \in [Setups -> SUBSET SetupChanges]
    /\ failed \in [Setups -> SUBSET SetupChanges] /\ skipped \in [Setups -> SUBSET SetupChanges]
    /\ holds \in SUBSET (Identities \X Roles)
    /\ trusts \in [Identities -> SetupRepos \cup {NoAnswer}]
    /\ stamp \in Identities \cup {NoAnswer}
    /\ secret \in [SetupRepos -> [Secrets -> Identities \cup {NoAnswer}]]

OidcInit ==
    /\ targets \in Targets
    /\ setupAt = [s \in Setups |-> "repo"] /\ setupTold = [s \in Setups |-> "none"]
    /\ agreedTo = [s \in Setups |-> {}]
    /\ repoInfo = [s \in Setups |-> NoAnswer] /\ id = [s \in Setups |-> NoAnswer]
    /\ left = [s \in Setups |-> Plan(targets[s])]
    /\ failed = [s \in Setups |-> {}] /\ skipped = [s \in Setups |-> {}]
    /\ holds = {} /\ trusts = [i \in Identities |-> NoAnswer] /\ stamp = NoAnswer
    /\ secret = [r \in SetupRepos |-> [n \in Secrets |-> NoAnswer]]

\* Setup s, under way, goes from one step to another; or it ends with a message.
SetupGoes(s, p, q) ==
    /\ setupTold[s] = "none" /\ setupAt[s] = p
    /\ setupAt' = [setupAt EXCEPT ![s] = q]
    /\ UNCHANGED <<targets, setupTold, repoInfo, id>>

EndSetup(s, p, message) ==
    /\ setupTold[s] = "none" /\ setupAt[s] = p
    /\ setupTold' = [setupTold EXCEPT ![s] = message]
    /\ UNCHANGED <<targets, setupAt, repoInfo, id>>

\* What becomes of change c of setup s.
Done(s, c) == left' = [left EXCEPT ![s] = @ \ {c}] /\ UNCHANGED <<failed, skipped>>
Warned(s, c) ==
    /\ left' = [left EXCEPT ![s] = @ \ {c}]
    /\ failed' = [failed EXCEPT ![s] = @ \cup {c}] /\ UNCHANGED skipped
Waived(s, c) ==
    /\ left' = [left EXCEPT ![s] = @ \ {c}]
    /\ skipped' = [skipped EXCEPT ![s] = @ \cup {c}] /\ UNCHANGED failed
NoChange == UNCHANGED <<left, failed, skipped>>

\* getGitHubRepoInfo: the remote names a repository of GitHub, or the setup ends.
FindRepo(s) ==
    /\ NoChange /\ UNCHANGED <<agreedTo, identities, secret>>
    /\ \/ /\ setupTold[s] = "none" /\ setupAt[s] = "repo"
          /\ setupAt' = [setupAt EXCEPT ![s] = "config"]
          /\ repoInfo' \in {[repoInfo EXCEPT ![s] = r] : r \in SetupRepos}
          /\ UNCHANGED <<targets, setupTold, id>>
       \/ EndSetup(s, "repo", "failed")

\* promptForAzureConfig: one of the identities listed, or a name typed, which may be taken.
Configure(s) ==
    /\ NoChange /\ UNCHANGED <<agreedTo, identities, secret>>
    /\ \/ /\ setupTold[s] = "none" /\ setupAt[s] = "config"
          /\ setupAt' = [setupAt EXCEPT ![s] = "confirm"]
          /\ id' \in {[id EXCEPT ![s] = i] : i \in Identities}
          /\ UNCHANGED <<targets, setupTold, repoInfo>>
       \/ EndSetup(s, "config", "left")
       \/ EndSetup(s, "config", "failed")

\* Mutant of Ask: whatever the user answers, the setup goes on.
AskInVain(s, question, p, q, message) ==
    /\ SetupGoes(s, p, q)
    /\ agreedTo' \in {agreedTo, [agreedTo EXCEPT ![s] = @ \cup {question}]}

\* A dialog with one button that lets setup s go on; dismissing it ends the setup.
Ask(s, question, p, q, message) ==
    \/ SetupGoes(s, p, q) /\ agreedTo' = [agreedTo EXCEPT ![s] = @ \cup {question}]
    \/ EndSetup(s, p, message) /\ UNCHANGED agreedTo

ConfirmSetup(s) ==
    /\ Ask(s, "setup", "confirm", "identity", "left")
    /\ NoChange /\ UNCHANGED <<identities, secret>>

\* The step that follows the identity, and the one that follows the roles.
AssignStep(c) ==
    CASE c \in {"user", "userAcr"} -> "user" [] c = "managedAcr" -> "roles" [] OTHER -> "trust"

\* getManagedIdentity: get the one that exists, or createManagedIdentity.
ProvideIdentity(s) ==
    /\ \/ SetupGoes(s, "identity", AssignStep(targets[s])) /\ Done(s, "identity")
       \/ EndSetup(s, "identity", "failed") /\ NoChange
    /\ UNCHANGED <<agreedTo, identities, secret>>

Assigned(s, r) == holds' = holds \cup {<<id[s], r>>}

\* assignAksClusterUserRole: its failure ends the setup.
AssignClusterUser(s) ==
    /\ \/ /\ SetupGoes(s, "user", IF targets[s] = "userAcr" THEN "roles" ELSE "trust")
          /\ Assigned(s, "clusterUser") /\ Done(s, "clusterUser")
       \/ /\ EndSetup(s, "user", "failed")
          /\ NoChange /\ UNCHANGED holds
    /\ UNCHANGED <<agreedTo, trusts, stamp, secret>>

\* The roles assigned concurrently: one is answered, and then all are.
AssignRole(s) ==
    /\ \E r \in Together(targets[s]) \cap left[s] :
          \/ Assigned(s, r) /\ Done(s, r)
          \/ Warned(s, r) /\ UNCHANGED holds
    /\ SetupGoes(s, "roles", "roles")
    /\ UNCHANGED <<agreedTo, trusts, stamp, secret>>

\* Mutant of RolesAnswered: the assignments are not awaited.
RolesAnsweredEarly(s) ==
    /\ SetupGoes(s, "roles", IF targets[s] = "userAcr" THEN "probe" ELSE "trust")
    /\ NoChange /\ UNCHANGED <<agreedTo, identities, secret>>

RolesAnswered(s) ==
    /\ Together(targets[s]) \cap left[s] = {}
    /\ SetupGoes(s, "roles", IF targets[s] = "userAcr" THEN "probe" ELSE "trust")
    /\ NoChange /\ UNCHANGED <<agreedTo, identities, secret>>

\* isAzureRbacEnabledForCluster: an error is taken for "no".
ProbeRoles(s) ==
    /\ \/ SetupGoes(s, "probe", "writer") /\ NoChange
       \/ SetupGoes(s, "probe", "trust") /\ Waived(s, "clusterWriter")
    /\ UNCHANGED <<agreedTo, identities, secret>>

AssignWriter(s) ==
    /\ SetupGoes(s, "writer", "trust")
    /\ \/ Assigned(s, "clusterWriter") /\ Done(s, "clusterWriter")
       \/ Warned(s, "clusterWriter") /\ UNCHANGED holds
    /\ UNCHANGED <<agreedTo, trusts, stamp, secret>>

\* createFederatedCredential: the identity has one, of a fixed name.
TrustRepo(s) ==
    /\ \/ /\ SetupGoes(s, "trust", IF targets[s] \in {"managed", "managedAcr"} THEN "read" ELSE "results")
          /\ trusts' = [trusts EXCEPT ![id[s]] = repoInfo[s]] /\ Done(s, "trust")
       \/ /\ EndSetup(s, "trust", "failed")
          /\ trusts' \in {trusts, [trusts EXCEPT ![id[s]] = repoInfo[s]]} /\ NoChange
    /\ UNCHANGED <<agreedTo, holds, stamp, secret>>

\* annotateManagedNamespaceWithIdentity: get, then createOrUpdate; a failure is a warning.
ReadNamespace(s) ==
    /\ \/ SetupGoes(s, "read", "annotate") /\ NoChange
       \/ SetupGoes(s, "read", "results") /\ Warned(s, "annotation")
    /\ UNCHANGED <<agreedTo, identities, secret>>

Annotate(s) ==
    /\ SetupGoes(s, "annotate", "results")
    /\ \/ stamp' = id[s] /\ Done(s, "annotation")
       \/ stamp' \in {stamp, id[s]} /\ Warned(s, "annotation")
    /\ UNCHANGED <<agreedTo, holds, trusts, secret>>

\* displayOIDCResults: set the secrets, or copy them, view them or do nothing.
ShowResults(s) ==
    /\ Ask(s, "secrets", "results", "access", "configured")
    /\ NoChange /\ UNCHANGED <<identities, secret>>

\* setGitHubActionsSecrets: sign in and check the repository, then get its key.
CheckAccess(s) ==
    /\ SetupGoes(s, "access", "key") \/ EndSetup(s, "access", "unset")
    /\ NoChange /\ UNCHANGED <<agreedTo, identities, secret>>

FetchKey(s) ==
    /\ SetupGoes(s, "key", SecretOrder[1]) \/ EndSetup(s, "key", "unset")
    /\ NoChange /\ UNCHANGED <<agreedTo, identities, secret>>

Holding(s, name) == [secret EXCEPT ![repoInfo[s]][name] = id[s]]

\* Mutant of SecretFailed: the failure is logged and not remembered.
SecretFailedUnnoticed(s, name) == secret' \in {secret, Holding(s, name)} /\ Done(s, name)

SecretFailed(s, name) == secret' \in {secret, Holding(s, name)} /\ Warned(s, name)

\* One secret after the other, whatever became of the one before.
SetSecret(s) ==
    /\ \E n \in 1 .. 3 :
          LET name == SecretOrder[n] IN
          /\ \/ secret' = Holding(s, name) /\ Done(s, name)
             \/ SecretFailed(s, name)
          /\ IF n < 3
             THEN SetupGoes(s, name, SecretOrder[n + 1])
             ELSE LET missed == failed'[s] \cap Secrets IN
                  EndSetup(s, name, IF missed = {} THEN "ready"
                               ELSE IF missed = Secrets THEN "unset" ELSE "partial")
    /\ UNCHANGED <<agreedTo, identities>>

OidcNext ==
    \E s \in Setups :
        \/ FindRepo(s) \/ Configure(s) \/ ConfirmSetup(s)
        \/ ProvideIdentity(s) \/ AssignClusterUser(s) \/ AssignRole(s) \/ RolesAnswered(s)
        \/ ProbeRoles(s) \/ AssignWriter(s) \/ TrustRepo(s) \/ ReadNamespace(s) \/ Annotate(s)
        \/ ShowResults(s) \/ CheckAccess(s) \/ FetchKey(s) \/ SetSecret(s)

OidcSpec == OidcInit /\ [][OidcNext]_oidcVars

-----------------------------------------------------------------------------

\* Setup s has got as far as creating the trust, or as setting the secrets.
HasTrusted(s) == "trust" \notin left[s] \/ setupAt[s] = "trust"
HasSet(s) == setupAt[s] \in Secrets

\* A setup that told the user "Your pipeline is ready to run." leaves the three secrets of the
\* repository on its identity, and that identity trusting the repository, unless another setup
\* has come to the same repository's secrets, or to the same identity's trust: what one setup
\* does is not undone by the steps of one that only shares the cluster or the roles.
ReadyMeansConfigured ==
    \A s \in Setups :
        setupTold[s] = "ready" =>
            /\ \A n \in Secrets :
                  \/ secret[repoInfo[s]][n] = id[s]
                  \/ \E t \in Setups \ {s} : HasSet(t) /\ repoInfo[t] = repoInfo[s] /\ id[t] # id[s]
            /\ \/ trusts[id[s]] = repoInfo[s]
               \/ \E t \in Setups \ {s} : HasTrusted(t) /\ id[t] = id[s] /\ repoInfo[t] # repoInfo[s]

\* Once the roles are dealt with, each role that the target calls for is held by the identity,
\* was reported as failed, or was waived because the cluster does not use Azure RBAC (as far as
\* the probe could tell).
RolesHeldOrReported ==
    \A s \in Setups :
        "trust" \notin left[s] =>
            \A r \in RolesFor(targets[s]) :
                <<id[s], r>> \in holds \/ r \in failed[s] \cup skipped[s]

\* The setup's promise: the Azure changes need the confirmation, the secrets "Set secrets".
SetupKindOf == [c \in SetupChanges |-> IF c \in Secrets THEN "secrets" ELSE "setup"]

SetupExcused(s) == failed[s] \cup skipped[s] \cup (SetupChanges \ Plan(targets[s]))
Outcome(s) ==
    CASE setupTold[s] = "none" -> "open" [] setupTold[s] = "ready" -> "complete" [] OTHER -> "stopped"

SetupPromise ==
    INSTANCE ConsentedChanges WITH
        Commands <- Setups, Changes <- SetupChanges, KindOf <- SetupKindOf,
        agreed <- agreedTo,
        made <- [s \in Setups |-> SetupChanges \ (left[s] \cup SetupExcused(s))],
        excused <- [s \in Setups |-> SetupExcused(s)],
        outcome <- [s \in Setups |-> Outcome(s)]

\* The setups keep the promise of ConsentedChanges.
SetupKeepsPromise == SetupPromise!Spec
=============================================================================
