--------------------------- MODULE KickstartPanel ---------------------------
(***************************************************************************)
(* The extension-host side of the "AKS Kickstart - Configure Cluster"      *)
(* panel: the message handlers of KickstartClusterDataProvider, the        *)
(* ProvisioningAccessGate they share, and the provisioning attempts that   *)
(* runStages drives in the background.                                     *)
(*                                                                         *)
(* The host is one JavaScript thread.  An action here is one macrotask: a  *)
(* message from the webview, or one awaited remote call that answers.  The *)
(* promise continuations a macrotask makes runnable (an access gate that   *)
(* settles, a retry that was waiting for the attempt it supersedes) are    *)
(* actions of their own, and no macrotask runs before they have: Settled.  *)
(*                                                                         *)
(* An attempt is one call of run.runFrom.  It is named by the generation   *)
(* number it was given, which also names its cancellation token.           *)
(***************************************************************************)
EXTENDS Integers, Sequences, FiniteSets

CONSTANTS
    MaxRuns,     \* bound on nextRunId: runs a behaviour may create
    MaxGen,      \* bound on runGeneration: attempts started + setups abandoned
    MaxChats,    \* bound on continueInChatRequest messages in flight
    Kinds,       \* the kinds of run the user may ask for, a subset of AllKinds
    Superseding, \* whether requests may overlap: a run or a retry asked for while an
                 \* attempt is in flight, Back before the selection is saved
    None

AllKinds == {"new", "existing"}

ASSUME BoundsAssumption == MaxRuns \in Nat /\ MaxGen \in Nat /\ MaxChats \in Nat
ASSUME KindsAssumption == Kinds \subseteq AllKinds /\ Superseding \in BOOLEAN
ASSUME NoneAssumption == None \notin Int /\ None \notin AllKinds

Runs == 0 .. MaxRuns - 1
Gens == 1 .. MaxGen

\* The stage lists of createClusterProvisioningRun and createExistingClusterAttachRun.
StagesOf(k) ==
    IF k = "new"
    THEN <<"resourceGroup", "roleAccess", "acr", "cluster", "attach", "verify">>
    ELSE <<"cluster", "acr", "roleAccess", "attach", "verify">>

StageCount(k) == IF k = "new" THEN 6 ELSE 5

\* The stage at which a retry of stage i restarts: retryFromStageId of verify is attach.
RetryFrom(k, i) == IF i = StageCount(k) THEN i - 1 ELSE i

VARIABLES
    nextRunId,        \* runs created so far
    kind,             \* run -> which factory made it
    succeeded,        \* run -> result.succeeded of the record its attempts share
    activeRun,        \* activeRun
    inFlight,         \* provisioningInFlight: the attempt whose promise it holds
    activeToken,      \* activeProvisioningToken: the attempt whose token it holds
    runGeneration,    \* runGeneration
    cancelled,        \* attempts whose token was cancelled
    complete,         \* provisioningComplete
    lastProvisioned,  \* lastProvisioned: the run its resource names come from
    lastFinish,       \* lastFinish: the kind of run the closure asks for
    finishing,        \* kind -> finish handlers awaiting globalState.update
    runOf,            \* attempt -> its run
    pc,               \* attempt -> where it is suspended
    at,               \* attempt -> index of the stage it executes
    early,            \* attempt -> the early AcrPull grant of its cluster stage
    gate,             \* provisioningGate.active: the attempt that waits on it
    rechecking,       \* ... and the rechecking flag of that request
    probing,          \* attempts whose request has a recheck probe in flight
    waiters,          \* attempts-to-be awaiting the attempt they supersede
    kubelogin,        \* kubeloginReady
    chats,            \* continueInChat handlers awaiting kubeloginReady
    posts             \* messages posted to the webview by the latest step

panelVars == <<nextRunId, kind, succeeded, activeRun, complete, lastProvisioned,
               lastFinish, finishing, kubelogin, chats>>
flightVars == <<inFlight, activeToken, runGeneration, cancelled, waiters>>
attemptVars == <<runOf, pc, at, early>>
gateVars == <<gate, rechecking, probing>>
vars == <<panelVars, flightVars, attemptVars, gateVars, posts>>

-----------------------------------------------------------------------------
(* Types                                                                   *)

PCs == {"idle", "working", "settling", "prompting", "waiting", "granted", "denied",
        "done"}
EarlyStates == {"none", "reading", "granting", "confirming", "done"}
StageIndices == 1 .. 6
Waiters == [run : Runs, start : StageIndices, on : Gens]

PanelTypeOK ==
    /\ nextRunId \in 0 .. MaxRuns
    /\ kind \in [Runs -> AllKinds]
    /\ succeeded \in [Runs -> BOOLEAN]
    /\ activeRun \in Runs \cup {None}
    /\ complete \in BOOLEAN
    /\ lastProvisioned \in Runs \cup {None}
    /\ lastFinish \in Kinds \cup {None}
    /\ finishing \in [Kinds -> Nat]
    /\ kubelogin \in {"none", "fetching", "settled"}
    /\ chats \in Nat

FlightTypeOK ==
    /\ inFlight \in Gens \cup {None}
    /\ activeToken \in Gens \cup {None}
    /\ runGeneration \in Nat
    /\ runGeneration + Len(waiters) <= MaxGen
    /\ cancelled \in SUBSET Gens
    /\ waiters \in Seq(Waiters)

AttemptTypeOK ==
    /\ runOf \in [Gens -> Runs \cup {None}]
    /\ pc \in [Gens -> PCs]
    /\ at \in [Gens -> StageIndices]
    /\ early \in [Gens -> EarlyStates]
    /\ \A a \in Gens : pc[a] # "idle" =>
          runOf[a] # None /\ at[a] <= StageCount(kind[runOf[a]])

GateTypeOK ==
    /\ gate \in Gens \cup {None}
    /\ rechecking \in BOOLEAN
    /\ probing \in SUBSET Gens

TypeOK == PanelTypeOK /\ FlightTypeOK /\ AttemptTypeOK /\ GateTypeOK

Init ==
    /\ nextRunId = 0
    /\ kind = [r \in Runs |-> "new"]
    /\ succeeded = [r \in Runs |-> FALSE]
    /\ activeRun = None
    /\ inFlight = None
    /\ activeToken = None
    /\ runGeneration = 0
    /\ cancelled = {}
    /\ complete = FALSE
    /\ lastProvisioned = None
    /\ lastFinish = None
    /\ finishing = [k \in Kinds |-> 0]
    /\ runOf = [a \in Gens |-> None]
    /\ pc = [a \in Gens |-> "idle"]
    /\ at = [a \in Gens |-> 1]
    /\ early = [a \in Gens |-> "none"]
    /\ gate = None
    /\ rechecking = FALSE
    /\ probing = {}
    /\ waiters = <<>>
    /\ kubelogin = "none"
    /\ chats = 0
    /\ posts = <<>>

-----------------------------------------------------------------------------
(* Helpers                                                                 *)

Live(a) == pc[a] \notin {"idle", "done"}

StageName(a) == StagesOf(kind[runOf[a]])[at[a]]

\* The stage that deploys the cluster, the only one with an early grant.
Deploying(a) == StageName(a) = "cluster" /\ kind[runOf[a]] = "new"

\* No promise continuation is runnable: the event loop may take a macrotask.
Settled ==
    /\ \A a \in Gens : pc[a] \notin {"granted", "denied"}
    /\ \A i \in 1 .. Len(waiters) : pc[waiters[i].on] # "done"

\* ActivityReporter drops the snapshots of a cancelled attempt.
Snap(a, r, i, status) ==
    IF a \in cancelled THEN <<>>
    ELSE <<[type |-> "snapshot", run |-> r, stage |-> i, status |-> status]>>

\* The bound on generations: one for every attempt, waiting or started, and every Back.
GenerationLeft == runGeneration + Len(waiters) < MaxGen

Quiet == inFlight = None /\ waiters = <<>> /\ \A k \in Kinds : finishing[k] = 0

-----------------------------------------------------------------------------
(* Attempts: runProvisioningAttempt and what it calls                       *)

\* ProvisioningAccessGate.cancel: settle(false) makes the parked attempt runnable.
CancelGate ==
    /\ gate' = None
    /\ rechecking' = FALSE
    /\ pc' = IF gate = None THEN pc ELSE [pc EXCEPT ![gate] = "denied"]

\* activeProvisioningToken?.cancel()
CancelActiveToken == cancelled' = cancelled \cup ({activeToken} \ {None})

\* A new token and generation, and run.runFrom up to its first await.
StartAttempt(r, i) ==
    LET a == runGeneration + 1 IN
    /\ runGeneration' = a
    /\ inFlight' = a
    /\ activeToken' = a
    /\ runOf' = [runOf EXCEPT ![a] = r]
    /\ at' = [at EXCEPT ![a] = i]
    /\ pc' = [pc EXCEPT ![a] = "working"]
    /\ succeeded' = [succeeded EXCEPT ![r] = FALSE]
    /\ posts' = Snap(a, r, i, "running")
    /\ UNCHANGED <<cancelled, early, gateVars>>

\* Tell the attempt in flight to stop, and wait for it before starting.
Supersede(r, i) ==
    /\ CancelActiveToken
    /\ CancelGate
    /\ waiters' = Append(waiters, [run |-> r, start |-> i, on |-> inFlight])
    /\ posts' = <<>>
    /\ UNCHANGED <<inFlight, activeToken, runGeneration, runOf, at, early, probing,
                   succeeded>>

RunProvisioningAttempt(r, i) ==
    /\ GenerationLeft
    /\ \/ inFlight = None /\ StartAttempt(r, i) /\ UNCHANGED waiters
       \/ inFlight # None /\ Supersede(r, i)

\* Mutant of MayResume: a retry of a run that is not active any more is kept waiting.
MayResumeActive(w) == pc[w.on] = "done" /\ activeRun = w.run

MayResume(w) == pc[w.on] = "done"

\* The attempt in flight is over and the retry that awaited it goes on, without
\* looking at what changed meanwhile.
ResumeWaiter(n) ==
    LET w == waiters[n] IN
    /\ MayResume(w)
    /\ \A m \in 1 .. n - 1 : ~MayResume(waiters[m])
    /\ waiters' = SubSeq(waiters, 1, n - 1) \o SubSeq(waiters, n + 1, Len(waiters))
    /\ StartAttempt(w.run, w.start)
    /\ UNCHANGED <<nextRunId, kind, activeRun, complete, lastProvisioned, lastFinish,
                   finishing, kubelogin, chats>>

\* Mutant of ReleaseFlight: the token of the attempt that ended stays behind.
ReleaseFlightKeepsToken(a) ==
    /\ inFlight' = IF inFlight = a THEN None ELSE inFlight
    /\ UNCHANGED activeToken

\* The owner's finally: forget the attempt unless another one took its place.
ReleaseFlight(a) ==
    /\ inFlight' = IF inFlight = a THEN None ELSE inFlight
    /\ activeToken' = IF inFlight = a THEN None ELSE activeToken

\* Mutant of Kept: the generation is not compared.
KeptAlways(a) == a \in Gens

\* The result of a is dropped once a newer generation exists.
Kept(a) == a = runGeneration

\* Mutant of Adopt: provisioningComplete is not set.
AdoptNameOnly(r) == lastProvisioned' = r /\ UNCHANGED complete

Adopt(r) == lastProvisioned' = r /\ complete' = TRUE

\* runFrom returned the result that all attempts of the run share: adopt and report it.
EndAttempt(a, snaps, ok) ==
    LET r == runOf[a]
        result == ok \/ succeeded[r]
    IN
    /\ pc' = [pc EXCEPT ![a] = "done"]
    /\ succeeded' = [succeeded EXCEPT ![r] = result]
    /\ IF Kept(a) /\ result THEN Adopt(r) ELSE UNCHANGED <<lastProvisioned, complete>>
    /\ posts' = IF Kept(a)
                THEN Append(snaps, [type |-> "finishComplete", run |-> r, by |-> a,
                                    ok |-> result])
                ELSE snaps
    /\ ReleaseFlight(a)
    /\ UNCHANGED at

\* runFrom threw ScanCancelledError: nothing is reported.
AbortAttempt(a) ==
    /\ pc' = [pc EXCEPT ![a] = "done"]
    /\ posts' = <<>>
    /\ ReleaseFlight(a)
    /\ UNCHANGED <<at, succeeded, lastProvisioned, complete>>

\* A stage's last snapshot, and the first of the next one's reporter.
NextSnaps(a, r, i, status) == Snap(a, r, i, status) \o Snap(a, r, i + 1, "running")

\* The stage at[a] reports its status and the loop of runStages takes the next one.
NextStage(a, status) ==
    LET r == runOf[a]
        i == at[a]
    IN
    \/ /\ i < StageCount(kind[r])
       /\ at' = [at EXCEPT ![a] = i + 1]
       /\ pc' = [pc EXCEPT ![a] = "working"]
       /\ posts' = NextSnaps(a, r, i, status)
       /\ UNCHANGED <<inFlight, activeToken, succeeded, lastProvisioned, complete>>
    \/ /\ i = StageCount(kind[r])
       /\ EndAttempt(a, Snap(a, r, i, status), TRUE)

HaltStage(a) == EndAttempt(a, Snap(a, runOf[a], at[a], "failed"), FALSE)

\* What no step of an attempt changes.
AttemptFrame ==
    UNCHANGED <<nextRunId, kind, activeRun, lastFinish, finishing, kubelogin, chats,
                runGeneration, cancelled, waiters, runOf>>

\* Mutant of EarlyIdle: the stage awaits a grant that may never have started.
EarlyDone(a) == early[a] = "done"

\* Neither a status tick nor the early grant is under way.
EarlyIdle(a) == early[a] \in {"none", "done"}

\* The remote calls of a stage succeeded.
StageSucceeds(a) ==
    /\ Settled
    /\ \/ pc[a] = "working" /\ ~Deploying(a)
       \/ pc[a] = "settling" /\ EarlyIdle(a)
    /\ NextStage(a, "succeeded")
    /\ AttemptFrame /\ UNCHANGED <<early, gateVars>>

\* The deployment is done; the stage still awaits its status ticks and early grant.
DeploymentDone(a) ==
    /\ Settled
    /\ pc[a] = "working" /\ Deploying(a)
    /\ pc' = [pc EXCEPT ![a] = "settling"]
    /\ posts' = <<>>
    /\ AttemptFrame
    /\ UNCHANGED <<at, early, gateVars, inFlight, activeToken, succeeded,
                   lastProvisioned, complete>>

\* A remote call of a stage failed.  Granting at attach does not stop a new cluster's
\* run, verify only warns, and roleAccess takes a failed probe for a missing permission.
StageFails(a) ==
    /\ Settled
    /\ pc[a] = "working"
    /\ \/ StageName(a) \in {"resourceGroup", "acr", "cluster"} /\ HaltStage(a)
       \/ /\ StageName(a) = "attach"
          /\ IF kind[runOf[a]] = "new" THEN NextStage(a, "failed") ELSE HaltStage(a)
       \/ StageName(a) = "verify" /\ NextStage(a, "warning")
    /\ AttemptFrame /\ UNCHANGED <<early, gateVars>>

\* pollUntil finds the token cancelled between two probes of verify.
VerifyCancelled(a) ==
    /\ Settled
    /\ pc[a] = "working" /\ StageName(a) = "verify" /\ a \in cancelled
    /\ AbortAttempt(a)
    /\ AttemptFrame /\ UNCHANGED <<early, gateVars>>

\* The probe of roleAccess answered no: look for eligible PIM grants to prompt with.
AccessMissing(a) ==
    /\ Settled
    /\ pc[a] = "working" /\ StageName(a) = "roleAccess"
    /\ pc' = [pc EXCEPT ![a] = "prompting"]
    /\ posts' = <<>>
    /\ AttemptFrame
    /\ UNCHANGED <<at, early, gateVars, inFlight, activeToken, succeeded,
                   lastProvisioned, complete>>

\* The prompt is ready: post it and park at the gate, evicting whoever waits there.
PromptReady(a) ==
    /\ Settled
    /\ pc[a] = "prompting"
    /\ pc' = [b \in Gens |-> IF b = a THEN "waiting"
                              ELSE IF b = gate THEN "denied" ELSE pc[b]]
    /\ gate' = a
    /\ rechecking' = FALSE
    /\ posts' = <<[type |-> "awaitingAccess", run |-> runOf[a]]>>
    /\ AttemptFrame
    /\ UNCHANGED <<at, early, probing, inFlight, activeToken, succeeded,
                   lastProvisioned, complete>>

\* waitForAccess resolved.
GateGranted(a) ==
    /\ pc[a] = "granted"
    /\ NextStage(a, "succeeded")
    /\ AttemptFrame /\ UNCHANGED <<early, gateVars>>

GateDenied(a) ==
    /\ pc[a] = "denied"
    /\ HaltStage(a)
    /\ AttemptFrame /\ UNCHANGED <<early, gateVars>>

-----------------------------------------------------------------------------
(* The early AcrPull grant of a cluster being deployed                      *)

EarlyFrame ==
    /\ AttemptFrame
    /\ UNCHANGED <<pc, at, gateVars, inFlight, activeToken, succeeded, complete>>

\* A tick of tickClusterStatus: neither settled nor cancelled, so read the cluster.
TickReads(a) ==
    /\ Settled
    /\ pc[a] = "working" /\ Deploying(a) /\ a \notin cancelled
    /\ early[a] = "none"
    /\ early' = [early EXCEPT ![a] = "reading"]
    /\ posts' = <<>>
    /\ EarlyFrame /\ UNCHANGED lastProvisioned

\* The read answers, with the kubelet identity of a cluster long enough in Creating or
\* without; the token is not looked at again.
TickAnswered(a) ==
    /\ Settled
    /\ early[a] = "reading"
    /\ \E next \in {"granting", "none"} : early' = [early EXCEPT ![a] = next]
    /\ posts' = <<>>
    /\ EarlyFrame /\ UNCHANGED lastProvisioned

\* AcrPull is assigned: handleClusterChatReady offers the chat if any run is active.
EarlyGranted(a) ==
    /\ Settled
    /\ early[a] = "granting"
    /\ early' = [early EXCEPT ![a] = "confirming"]
    /\ IF activeRun = None
       THEN posts' = <<>> /\ UNCHANGED lastProvisioned
       ELSE /\ lastProvisioned' = runOf[a]
            /\ posts' = <<[type |-> "clusterChatReady", run |-> runOf[a]]>>
    /\ EarlyFrame

\* The assignment failed, or confirmEarlyPullAccess is over (in whatever way).
EarlyOver(a) ==
    /\ Settled
    /\ early[a] \in {"granting", "confirming"}
    /\ early' = [early EXCEPT ![a] = "done"]
    /\ posts' = <<>>
    /\ EarlyFrame /\ UNCHANGED lastProvisioned

-----------------------------------------------------------------------------
(* Messages of the webview                                                  *)

\* handleFinish or handleUseExistingCluster up to globalState.update.
Finish(k) ==
    /\ nextRunId + finishing[k] < MaxRuns
    /\ Superseding \/ Quiet
    /\ lastFinish' = k
    /\ finishing' = [finishing EXCEPT ![k] = @ + 1]
    /\ posts' = <<>>
    /\ UNCHANGED <<nextRunId, kind, succeeded, activeRun, complete, lastProvisioned,
                   kubelogin, chats, flightVars, attemptVars, gateVars>>

FinishRequest(k) == Settled /\ Finish(k)

\* ... and after it: a new run becomes the active one, and its first attempt starts
\* or waits for the attempt it supersedes.
SelectionSaved(k) ==
    LET r == nextRunId IN
    /\ Settled
    /\ finishing[k] > 0 /\ nextRunId < MaxRuns
    /\ finishing' = [finishing EXCEPT ![k] = @ - 1]
    /\ kubelogin' = IF kubelogin = "none" THEN "fetching" ELSE kubelogin
    /\ nextRunId' = nextRunId + 1
    /\ kind' = [kind EXCEPT ![r] = k]
    /\ activeRun' = r
    /\ complete' = FALSE
    /\ RunProvisioningAttempt(r, 1)
    /\ UNCHANGED <<lastProvisioned, lastFinish, chats>>

\* handleRetry: ask for the last run again.
RetryRequest ==
    /\ Settled
    /\ \E k \in Kinds : lastFinish = k /\ Finish(k)

\* handleRetryStage; a stage of a run that is not the active one restarts everything.
RetryStageRequest(r, i) ==
    /\ Settled
    /\ r < nextRunId /\ i <= StageCount(kind[r])
    /\ IF activeRun # r
       THEN \E k \in Kinds : lastFinish = k /\ Finish(k)
       ELSE /\ Superseding \/ Quiet
            /\ RunProvisioningAttempt(r, RetryFrom(kind[r], i))
            /\ UNCHANGED <<nextRunId, kind, activeRun, complete, lastProvisioned,
                           lastFinish, finishing, kubelogin, chats>>

AbandonFlight ==
    /\ runGeneration' = runGeneration + 1
    /\ activeToken' = None
    /\ inFlight' = None

\* handleBackToSetup.
BackToSetupRequest ==
    /\ Settled
    /\ GenerationLeft
    /\ Superseding \/ \A k \in Kinds : finishing[k] = 0
    /\ CancelActiveToken
    /\ CancelGate
    /\ AbandonFlight
    /\ activeRun' = None
    /\ complete' = FALSE
    /\ posts' = <<>>
    /\ UNCHANGED <<nextRunId, kind, succeeded, lastProvisioned, lastFinish, finishing,
                   kubelogin, chats, waiters, runOf, at, early, probing>>

\* recheckProvisioningPermissionRequest: ProvisioningAccessGate.recheck up to its probe.
RecheckRequest(r) ==
    LET ignored == gate = None \/ runOf[gate] # r \/ rechecking IN
    /\ Settled
    /\ rechecking' = (rechecking \/ ~ignored)
    /\ probing' = IF ignored THEN probing ELSE probing \cup {gate}
    /\ posts' = <<>>
    /\ UNCHANGED <<panelVars, flightVars, attemptVars, gate>>

\* The probe found the permission: onResolved, then settle(true).
RecheckGranted(a) ==
    /\ gate' = None
    /\ rechecking' = FALSE
    /\ pc' = [pc EXCEPT ![a] = "granted"]
    /\ posts' = <<[type |-> "accessResolved", run |-> runOf[a]]>>

\* Mutants of RecheckBlocked: the flag is not reset; the wrong callback is called.
RecheckBlockedKeepsFlag(a) ==
    /\ posts' = <<[type |-> "awaitingAccess", run |-> runOf[a]]>>
    /\ UNCHANGED <<gate, pc, rechecking>>
RecheckBlockedResolves(a) ==
    /\ posts' = <<[type |-> "accessResolved", run |-> runOf[a]]>>
    /\ rechecking' = FALSE
    /\ UNCHANGED <<gate, pc>>

\* It did not: onStillBlocked, and finally the flag is reset.
RecheckBlocked(a) ==
    /\ rechecking' = FALSE
    /\ posts' = <<[type |-> "awaitingAccess", run |-> runOf[a]]>>
    /\ UNCHANGED <<gate, pc>>

\* The probe answered; that counts only if its request is still the active one.
RecheckAnswered(a) ==
    /\ Settled
    /\ a \in probing
    /\ probing' = probing \ {a}
    /\ \/ gate = a /\ (RecheckGranted(a) \/ RecheckBlocked(a))
       \/ gate # a /\ posts' = <<>> /\ UNCHANGED <<gate, rechecking, pc>>
    /\ UNCHANGED <<panelVars, flightVars, runOf, at, early>>

Handoff == [type |-> "chat", run |-> lastProvisioned, still |-> ~complete]

\* continueInChatRequest: wait for the kubelogin download, if it still runs.
ContinueInChatRequest ==
    /\ Settled
    /\ lastProvisioned # None
    /\ IF kubelogin = "fetching"
       THEN chats < MaxChats /\ chats' = chats + 1 /\ posts' = <<>>
       ELSE posts' = <<Handoff>> /\ UNCHANGED chats
    /\ UNCHANGED <<nextRunId, kind, succeeded, activeRun, complete, lastProvisioned,
                   lastFinish, finishing, kubelogin, flightVars, attemptVars, gateVars>>

KubeloginSettles ==
    /\ Settled
    /\ kubelogin = "fetching"
    /\ kubelogin' = "settled"
    /\ posts' = [n \in 1 .. chats |-> Handoff]
    /\ chats' = 0
    /\ UNCHANGED <<nextRunId, kind, succeeded, activeRun, complete, lastProvisioned,
                   lastFinish, finishing, flightVars, attemptVars, gateVars>>

-----------------------------------------------------------------------------
(* Specification                                                            *)

Microtask ==
    \/ \E n \in 1 .. Len(waiters) : ResumeWaiter(n)
    \/ \E a \in Gens : GateGranted(a) \/ GateDenied(a)

StageStep(a) ==
    StageSucceeds(a) \/ StageFails(a) \/ DeploymentDone(a) \/ VerifyCancelled(a)
        \/ AccessMissing(a) \/ PromptReady(a)

EarlyStep(a) == TickAnswered(a) \/ EarlyGranted(a) \/ EarlyOver(a)

UserRequest ==
    \/ \E k \in Kinds : FinishRequest(k)
    \/ RetryRequest
    \/ \E r \in Runs : RecheckRequest(r) \/ \E i \in StageIndices : RetryStageRequest(r, i)
    \/ BackToSetupRequest
    \/ ContinueInChatRequest

Next ==
    \/ Microtask
    \/ \E a \in Gens : StageStep(a) \/ EarlyStep(a) \/ TickReads(a) \/ RecheckAnswered(a)
    \/ \E k \in Kinds : SelectionSaved(k)
    \/ KubeloginSettles
    \/ UserRequest

Spec == Init /\ [][Next]_vars

-----------------------------------------------------------------------------
(* Properties                                                              *)

\* provisioningInFlight and activeProvisioningToken always belong to one attempt, and it
\* has not ended: "cancel the attempt in flight" never hits a finished or foreign token.
TokenTracksFlight ==
    /\ inFlight = activeToken
    /\ inFlight # None => Live(inFlight)

\* An attempt that waits for access is the one the gate would wake: no interleaving of
\* prompts, rechecks, retries and Back leaves a promise nobody can settle.
GateWaitersReachable == \A a \in Gens : pc[a] = "waiting" <=> gate = a

\* The rechecking flag is up only while a probe of the request now at the gate is in
\* flight, so the user's next Re-check is not ignored for ever.
RecheckFlagBacked == rechecking => gate \in probing

\* A retry waits only for an attempt that was told to stop, so it does not sit through
\* the full polling time of one that was not.
WaitersOnCancelled == \A n \in 1 .. Len(waiters) : waiters[n].on \in cancelled

\* The bookkeeping of attempts, the gate and the retries holds together.
PanelSafe ==
    TokenTracksFlight /\ GateWaitersReachable /\ RecheckFlagBacked /\ WaitersOnCancelled

\* The panel lets go of an attempt only when it is over or has been told to stop; there is
\* one exception, a second retry that had waited for the same attempt as the first one.
HoldsUntilStopped ==
    [][inFlight # None /\ inFlight' # inFlight =>
          \/ pc'[inFlight] = "done" \/ inFlight \in cancelled'
          \/ \E n \in 1 .. Len(waiters) :
                waiters[n].on # inFlight /\ pc[waiters[n].on] = "done"]_vars

\* At most one attempt is running that nobody told to stop.
OneAttemptAtATime ==
    \A a, b \in Gens : Live(a) /\ Live(b) /\ {a, b} \cap cancelled = {} => a = b

Reports(type) == {posts[n] : n \in {m \in 1 .. Len(posts) : posts[m].type = type}}

\* A superseded attempt reports no result: a newer attempt drops it.
SupersededStaysSilent ==
    [][\A p \in Reports("finishComplete")' : p.by \notin cancelled]_vars

\* An attempt that was told to stop ends without a result, of which neither the page nor the
\* chat learns, however far it got meanwhile, unless a retry still waits for it to end.
StoppedEndsUnseen ==
    [][\A a \in cancelled : Live(a) /\ ~Live(a)' =>
          \/ \E n \in 1 .. Len(waiters) : waiters[n].on = a
          \/ Reports("finishComplete")' = {} /\ UNCHANGED <<complete, lastProvisioned>>]_vars

\* Every attempt ends or parks at the gate until the user acts.
AttemptEndsOrParks ==
    \A a \in Gens : pc[a] \in {"working", "settling", "prompting"} ~> pc[a] \in {"waiting", "done"}

\* A retry that waits for the attempt it supersedes gets to run, unless an attempt parks
\* at the gate meanwhile.
WaitingRetryRuns == waiters # <<>> ~> (waiters = <<>> \/ gate # None)

\* The Re-check button works again after every recheck.
RecheckComesBack == rechecking ~> ~rechecking

\* Neither a retry nor the button of the gate is kept waiting for ever.
RetriesComeBack == WaitingRetryRuns /\ RecheckComesBack
=============================================================================
