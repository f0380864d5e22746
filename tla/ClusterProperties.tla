--------------------------- MODULE ClusterProperties ---------------------------
(***************************************************************************)
(* The page of a cluster's properties: what it shows of the cluster, the   *)
(* operations its buttons ask for, and the handlers of the panel that      *)
(* begin them in Azure, read the cluster again once they have begun, wait  *)
(* for them and, some of them, read it a last time.  Handlers run side by  *)
(* side, each one taking a slot of "jobs" from its message to its end.     *)
(*                                                                         *)
(* A reading of the properties is three requests, of which the first reads *)
(* what is modelled; the other two can fail.  The agent pools are one pool *)
(* whose power is that of the cluster.  The page keeps the error it is     *)
(* told and shows it nowhere.  Since the user last asked for anything,     *)
(* "told" says that one came, and "unread" that a handler has given up     *)
(* reading the properties.                                                 *)
(***************************************************************************)
EXTENDS Naturals, FiniteSets

CONSTANTS JobSlots,        \* the handlers that may run at once
          MaxRequests,     \* the messages that the user's buttons post
          KubernetesVersions,
          NoVersion

ASSUME SlotsAssumption == JobSlots # {} /\ IsFiniteSet(JobSlots) /\ "none" \notin JobSlots
ASSUME RequestsAssumption == MaxRequests \in Nat
ASSUME VersionsAssumption ==
    KubernetesVersions \subseteq Nat /\ 1 \in KubernetesVersions /\ NoVersion \notin Nat

VARIABLES
    cluster,   \* the cluster in Azure, and the slot whose operation it carries out
    view,      \* the page
    jobs,      \* the handlers of the panel
    asks       \* how often the page asked, and for what when nothing else ran

propertiesVars == <<cluster, view, jobs, asks>>

NoJob == [op |-> "none", pc |-> "idle", again |-> FALSE, version |-> NoVersion,
          lro |-> "none", read |-> {}]

Active(j) == jobs[j].pc # "idle"

-----------------------------------------------------------------------------
(* The page.                                                               *)

\* What a reading takes of the cluster.
asClusterInfo(c) == [prov |-> c.prov, power |-> c.power, version |-> c.version, pool |-> c.pool]

determineStartStopState(info) ==
    IF info.prov # "Stopping" /\ info.power = "Stopped" THEN "Stopped"
    ELSE IF info.prov = "Succeeded" /\ info.power = "Running" THEN "Started"
    ELSE IF info.prov = "Stopping" THEN "Stopping" ELSE "Starting"

unabortableProvisioningStates == {"Canceled", "Failed", "Succeeded", "Starting", "Stopping"}
terminalProvisioningStates == {"Canceled", "Failed", "Succeeded"}

availableUpgradeVersions(info) == {v \in KubernetesVersions : v > info.version}

Loaded == view.info = "loaded"
Enabled(shown) == Loaded /\ ~view.requested /\ shown

\* A message to the panel starts its handler; nobody has been told anything of
\* it yet.
Posts(op, version, page) ==
    \E j \in JobSlots :
        /\ ~Active(j)
        /\ jobs' = [jobs EXCEPT ![j] = [NoJob EXCEPT !.op = op, !.version = version,
                                                     !.again = (op = "refresh"),
                                                     !.pc = IF op = "refresh" THEN "read"
                                                            ELSE "begin"]]
        /\ view' = [page EXCEPT !.told = FALSE, !.unread = FALSE]
        /\ asks.count < MaxRequests
        /\ asks' = [count |-> asks.count + 1,
                    alone |-> IF \A k \in JobSlots : ~Active(k) THEN op ELSE "none"]
        /\ UNCHANGED cluster

ClusterOperationRequested == [view EXCEPT !.requested = TRUE]

\* Loading unmounts the display of the cluster, an open question included.
PropertiesLoading == [view EXCEPT !.info = "loading", !.dialog = NoVersion]

OpenProperties == view.info = "notLoaded" /\ Posts("refresh", NoVersion, PropertiesLoading)
handleRefreshRequest == view.info # "notLoaded" /\ Posts("refresh", NoVersion, PropertiesLoading)

handleStopCluster ==
    /\ Enabled(determineStartStopState(view.shown) = "Started")
    /\ Posts("stop", NoVersion, ClusterOperationRequested)

handleStartCluster ==
    /\ Enabled(determineStartStopState(view.shown) = "Stopped")
    /\ Posts("start", NoVersion, ClusterOperationRequested)

handleAbortClick ==
    /\ Enabled(view.shown.prov \notin unabortableProvisioningStates)
    /\ Posts("abort", NoVersion, ClusterOperationRequested)

handleReconcileClick ==
    /\ Enabled(view.shown.prov = "Canceled" /\ view.shown.power = "Running")
    /\ Posts("reconcile", NoVersion, ClusterOperationRequested)

handlePoolAbortClick ==
    /\ Enabled(view.shown.pool \notin terminalProvisioningStates \cup {view.shown.prov})
    /\ Posts("abortPool", NoVersion, ClusterOperationRequested)

handleUpgradeVersionChange(v) ==
    /\ Enabled(view.shown.power = "Running" /\ view.shown.prov = "Succeeded")
    /\ v \in availableUpgradeVersions(view.shown)
    /\ view' = [view EXCEPT !.dialog = v]
    /\ UNCHANGED <<cluster, jobs, asks>>

\* The question stays when an operation is asked for or the properties are read
\* again, and its button is never disabled.
DialogShown == view.dialog # NoVersion /\ Loaded /\ availableUpgradeVersions(view.shown) # {}

handleConfirmUpgrade ==
    /\ DialogShown
    /\ Posts("upgrade", view.dialog, [ClusterOperationRequested EXCEPT !.dialog = NoVersion])

handleCancelUpgrade ==
    /\ DialogShown
    /\ view' = [view EXCEPT !.dialog = NoVersion]
    /\ UNCHANGED <<cluster, jobs, asks>>

-----------------------------------------------------------------------------
(* What the panel posts.                                                   *)

errorNotification(page) == [page EXCEPT !.told = TRUE]
\* The error of a handler that does not post the properties after it.
GivenUp == [view EXCEPT !.told = TRUE, !.unread = TRUE]
getPropertiesResponse(page, info) ==
    [page EXCEPT !.info = "loaded", !.shown = info, !.requested = FALSE]
upgradeClusterVersionResponse(page) == [page EXCEPT !.requested = FALSE]

-----------------------------------------------------------------------------
(* The handlers.                                                           *)

Goes(j, job) == jobs' = [jobs EXCEPT ![j] = job]

\* After the reading made once an operation has begun, it is waited for.
AfterReading(j) == IF jobs[j].again THEN NoJob ELSE [jobs[j] EXCEPT !.pc = "poll", !.read = {}]
\* Mutant: nothing is read when the operation is over.
NothingReadAtEnd(j) == NoJob

ReadsAgain(j) == [jobs[j] EXCEPT !.pc = "read", !.again = TRUE]

readAndPostClusterProperties(j) ==
    /\ \/ /\ jobs[j].pc = "read"
          /\ Goes(j, [jobs[j] EXCEPT !.pc = "post", !.read = {asClusterInfo(cluster)}])
          /\ UNCHANGED view
       \/ /\ jobs[j].pc = "post"
          /\ \E info \in jobs[j].read : view' = getPropertiesResponse(view, info)
          /\ Goes(j, AfterReading(j))
       \/ /\ jobs[j].pc \in {"read", "post"}
          /\ view' = GivenUp
          /\ Goes(j, AfterReading(j))
    /\ UNCHANGED <<cluster, asks>>

\* A handler fails before the operation has begun: it tells, which leaves the page as given,
\* and goes on as "then" says.
FailsWith(j, page, then) ==
    /\ jobs[j].pc = "begin"
    /\ view' = page
    /\ Goes(j, then)
    /\ UNCHANGED <<cluster, asks>>

\* Azure takes the operation.
Begins(j, accepted, next) ==
    /\ jobs[j].pc = "begin" /\ accepted
    /\ cluster' = next
    /\ Goes(j, [jobs[j] EXCEPT !.pc = "read", !.lro = "running"])
    /\ UNCHANGED <<view, asks>>

Carries(j, prov) == [cluster EXCEPT !.op = j, !.prov = prov]
Free == cluster.op = "none"

\* What did not succeed is told, by onProgress and again by the catch.
Outcome(j) == IF jobs[j].lro = "succeeded" THEN view ELSE errorNotification(view)

\* The operation is over, and an upgrade answers whether it succeeded or not.
AnswersWhenOver(j, page, then) ==
    /\ jobs[j].pc = "poll" /\ jobs[j].lro # "running"
    /\ view' = page
    /\ Goes(j, then)
    /\ UNCHANGED <<cluster, asks>>

handleStopClusterRequest(j) ==
    /\ jobs[j].op = "stop"
    /\ \/ Begins(j, Free, Carries(j, "Stopping"))
       \/ FailsWith(j, errorNotification(view), ReadsAgain(j))
       \/ AnswersWhenOver(j, Outcome(j), ReadsAgain(j))

handleStartClusterRequest(j) ==
    /\ jobs[j].op = "start"
    /\ \/ Begins(j, Free, Carries(j, "Starting"))
       \/ FailsWith(j, errorNotification(view), ReadsAgain(j))
       \/ AnswersWhenOver(j, Outcome(j), ReadsAgain(j))

\* Mutant: a failed reading of the cluster is not told.
UpgradeReturnsSilently(j) ==
    /\ jobs[j].op = "upgrade"
    /\ \/ /\ jobs[j].pc = "begin" /\ Goes(j, NoJob)
          /\ UNCHANGED <<cluster, view, asks>>
       \/ Begins(j, Free, Carries(j, "Upgrading"))
       \/ FailsWith(j, upgradeClusterVersionResponse(errorNotification(view)), ReadsAgain(j))
       \/ AnswersWhenOver(j, upgradeClusterVersionResponse(Outcome(j)), ReadsAgain(j))

\* The cluster is read first; when that fails the handler returns and nothing of
\* what follows is done.
handleUpgradeClusterVersion(j) ==
    /\ jobs[j].op = "upgrade"
    /\ \/ FailsWith(j, GivenUp, NoJob)
       \/ Begins(j, Free, Carries(j, "Upgrading"))
       \/ FailsWith(j, upgradeClusterVersionResponse(errorNotification(view)), ReadsAgain(j))
       \/ AnswersWhenOver(j, upgradeClusterVersionResponse(Outcome(j)), ReadsAgain(j))

\* Reconciling and aborting read nothing when they are over.
handleReconcileClusterOperation(j) ==
    /\ jobs[j].op = "reconcile"
    /\ \/ Begins(j, Free, Carries(j, "Updating"))
       \/ FailsWith(j, GivenUp, NoJob)
       \/ AnswersWhenOver(j, Outcome(j), NoJob)

handleAbortClusterOperation(j) ==
    /\ jobs[j].op = "abort"
    /\ \/ /\ jobs[j].pc = "begin" /\ cluster.op \in JobSlots
          /\ cluster' = Carries(j, "Canceling")
          /\ jobs' = [jobs EXCEPT ![cluster.op].lro = "canceled",
                                  ![j].pc = "read", ![j].lro = "running"]
          /\ UNCHANGED <<view, asks>>
       \/ FailsWith(j, GivenUp, NoJob)
       \/ AnswersWhenOver(j, Outcome(j), NoJob)

handleAbortAgentPoolOperation(j) ==
    /\ jobs[j].op = "abortPool"
    /\ \/ Begins(j, cluster.pool = "Scaling", [cluster EXCEPT !.pool = "Canceling"])
       \/ FailsWith(j, GivenUp, NoJob)
       \/ AnswersWhenOver(j, Outcome(j), NoJob)

-----------------------------------------------------------------------------
(* Azure, and the portal.                                                  *)

Done(c, job) ==
    CASE job.op = "stop" -> [c EXCEPT !.prov = "Succeeded", !.power = "Stopped"]
      [] job.op = "start" -> [c EXCEPT !.prov = "Succeeded", !.power = "Running"]
      [] job.op = "upgrade" -> [c EXCEPT !.prov = "Succeeded", !.version = job.version]
      [] job.op = "reconcile" -> [c EXCEPT !.prov = "Succeeded"]
      [] job.op = "abort" -> [c EXCEPT !.prov = "Canceled"]

OperationEnds(j, outcome) ==
    /\ cluster.op = j
    /\ cluster' = [IF outcome = "succeeded" THEN Done(cluster, jobs[j])
                   ELSE [cluster EXCEPT !.prov = "Failed"] EXCEPT !.op = "none"]
    /\ jobs' = [jobs EXCEPT ![j].lro = outcome]
    /\ UNCHANGED <<view, asks>>

PoolAborted(j, outcome) ==
    /\ jobs[j].op = "abortPool" /\ jobs[j].lro = "running"
    /\ cluster' = [cluster EXCEPT !.pool = IF outcome = "succeeded" THEN "Canceled" ELSE "Failed"]
    /\ jobs' = [jobs EXCEPT ![j].lro = outcome]
    /\ UNCHANGED <<view, asks>>

PortalScales ==
    /\ cluster.pool \in {"Succeeded", "Scaling"}
    /\ cluster' = [cluster EXCEPT !.pool = IF @ = "Scaling" THEN "Succeeded" ELSE "Scaling"]
    /\ UNCHANGED <<view, jobs, asks>>

-----------------------------------------------------------------------------
PropertiesInit ==
    /\ cluster \in [prov : {"Succeeded", "Canceled"}, power : {"Running"}, version : {1},
                    pool : {"Succeeded"}, op : {"none"}]
    /\ view = [info |-> "notLoaded", shown |-> asClusterInfo(cluster), requested |-> FALSE,
               dialog |-> NoVersion, told |-> FALSE, unread |-> FALSE]
    /\ jobs = [j \in JobSlots |-> NoJob]
    /\ asks = [count |-> 0, alone |-> "none"]

UserStep == \/ OpenProperties \/ handleRefreshRequest
            \/ handleStopCluster \/ handleStartCluster
            \/ handleAbortClick \/ handleReconcileClick \/ handlePoolAbortClick
            \/ \E v \in KubernetesVersions : handleUpgradeVersionChange(v)
            \/ handleConfirmUpgrade \/ handleCancelUpgrade

HandlerStep(j) == \/ readAndPostClusterProperties(j)
                  \/ handleStopClusterRequest(j) \/ handleStartClusterRequest(j)
                  \/ handleUpgradeClusterVersion(j) \/ handleReconcileClusterOperation(j)
                  \/ handleAbortClusterOperation(j) \/ handleAbortAgentPoolOperation(j)

AzureStep == \/ \E j \in JobSlots, outcome \in {"succeeded", "failed"} :
                    OperationEnds(j, outcome) \/ PoolAborted(j, outcome)
             \/ PortalScales

PropertiesNext == UserStep \/ AzureStep \/ \E j \in JobSlots : HandlerStep(j)

PropertiesSpec == PropertiesInit /\ [][PropertiesNext]_propertiesVars

-----------------------------------------------------------------------------
\* The page that disables its buttons, or shows a ring, waits for a handler that still runs,
\* unless since the user last asked one has given up: a reading of the properties failed, or
\* a handler whose operation could not begin returned without one.  The page keeps the error
\* and waits on (it can still be refreshed).  Every other way out of a handler answers, or reads
\* the properties and posts them: an operation that Azure refuses, fails or cancels included.
WaitIsBacked ==
    (view.info = "loading" \/ view.requested)
    => view.unread \/ \E j \in JobSlots : Active(j)

\* A stop, a start or an upgrade that was asked for while nothing else ran, and ended
\* before anything else was asked, leaves on the page what it made of the cluster,
\* although the page read the cluster while the operation was under way too.
ShowsOutcome ==
    (/\ asks.alone \in {"stop", "start", "upgrade"}
     /\ \A j \in JobSlots : ~Active(j)
     /\ ~view.told)
    => /\ Loaded /\ ~view.requested
       /\ view.shown.prov = cluster.prov
       /\ view.shown.power = cluster.power
       /\ view.shown.version = cluster.version
=============================================================================
