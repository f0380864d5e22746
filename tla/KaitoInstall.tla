------------------------------ MODULE KaitoInstall ------------------------------
(***************************************************************************)
(* Installing KAITO on a cluster: the page's button, which is disabled     *)
(* after one click, and the attempts of the panel, each of which registers *)
(* a feature and then updates the cluster.  An attempt that has failed may *)
(* start the next one.  The number of retries is counted for as long as    *)
(* the extension runs.                                                     *)
(***************************************************************************)
EXTENDS Naturals

CONSTANT MAX_RETRY

ASSUME RetryAssumption == MAX_RETRY \in Nat

VARIABLES
    install,      \* the page: what it was posted last, whether it was clicked, and whether an
                  \* attempt has thrown since
    attempt,      \* where the attempt under way is
    RETRY_COUNT

installVars == <<install, attempt, RETRY_COUNT>>

Attempting == attempt # "none"

kaitoInstallProgressUpdate(event) == install' = [install EXCEPT !.status = event]
Continues(from, to) == attempt = from /\ attempt' = to /\ UNCHANGED RETRY_COUNT
Quietly == UNCHANGED install

\* What throws outside of handleKaitoInstallationLogic ends the attempt unsaid.
AttemptThrows(from) ==
    /\ Continues(from, "none")
    /\ install' = [install EXCEPT !.threw = TRUE]

OpenInstallPage ==
    /\ ~Attempting /\ install.clicked
    /\ install' = [status |-> "NotStarted", clicked |-> FALSE, threw |-> FALSE]
    /\ UNCHANGED <<attempt, RETRY_COUNT>>

handleClick ==
    /\ install.status = "NotStarted" /\ ~install.clicked
    /\ install' = [install EXCEPT !.clicked = TRUE]
    /\ attempt' = "cluster"
    /\ UNCHANGED RETRY_COUNT

\* The cluster, which may be an automatic one, and the state of the feature.
GetsCluster ==
    \/ Continues("cluster", "feature") /\ Quietly
    \/ Continues("cluster", "none") /\ kaitoInstallProgressUpdate("Failed")
    \/ AttemptThrows("cluster")

RegistersFeature ==
    \/ \E to \in {"begin", "registering"} : Continues("feature", to) /\ Quietly
    \/ AttemptThrows("feature")

\* After three minutes; a feature that is still not registered is posted as a
\* failure, and the installation goes on.
registerKaitoFeature ==
    \/ Continues("registering", "begin") /\ Quietly
    \/ Continues("registering", "begin") /\ kaitoInstallProgressUpdate("Failed")
    \/ AttemptThrows("registering")

handleKaitoInstallation == GetsCluster \/ RegistersFeature \/ registerKaitoFeature

BeginsUpdate ==
    \/ Continues("begin", "poll") /\ kaitoInstallProgressUpdate("InProgress")
    \/ Continues("begin", "caught") /\ Quietly

PollsUpdate ==
    \/ Continues("poll", "none") /\ kaitoInstallProgressUpdate("Success")
    \/ Continues("poll", "caught") /\ kaitoInstallProgressUpdate("Failed")
    \* cancelled, or not to be polled: no progress says so
    \/ Continues("poll", "caught") /\ Quietly

\* The user is asked while retries are left; without them the failure is posted.
Catches ==
    /\ attempt = "caught"
    /\ IF RETRY_COUNT < MAX_RETRY
       THEN attempt' = "asking" /\ RETRY_COUNT' = RETRY_COUNT + 1 /\ Quietly
       ELSE attempt' = "none" /\ UNCHANGED RETRY_COUNT /\ kaitoInstallProgressUpdate("Failed")

\* Mutant: a user who refuses to retry is told no more.
RefusedQuietly(retry) ==
    /\ Continues("asking", IF retry THEN "cluster" ELSE "none")
    /\ IF retry THEN kaitoInstallProgressUpdate("Failed") ELSE Quietly

\* The failure is posted at once, also when the next attempt has been started.
RetryAnswered(retry) ==
    /\ Continues("asking", IF retry THEN "cluster" ELSE "none")
    /\ kaitoInstallProgressUpdate("Failed")

handleKaitoInstallationLogic ==
    BeginsUpdate \/ PollsUpdate \/ Catches \/ \E retry \in BOOLEAN : RetryAnswered(retry)

InstallInit == /\ install = [status |-> "NotStarted", clicked |-> FALSE, threw |-> FALSE]
               /\ attempt = "none"
               /\ RETRY_COUNT = 0

InstallNext == \/ OpenInstallPage \/ handleClick
               \/ handleKaitoInstallation \/ handleKaitoInstallationLogic

InstallSpec == InstallInit /\ [][InstallNext]_installVars

-----------------------------------------------------------------------------
\* A page that shows an installation under way has an attempt behind it: every way out of
\* polling, a cancelled update, the last retry and the user's refusal to retry included, posts
\* an end.  So has a button that is disabled and nothing posted yet, unless the registration
\* of the feature or the reading of the cluster has thrown, which nothing posts.
InstallIsBacked ==
    /\ install.status = "InProgress" => Attempting
    /\ install.clicked /\ install.status = "NotStarted" => Attempting \/ install.threw
=============================================================================
