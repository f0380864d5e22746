------------------------------- MODULE AsoInstall -------------------------------
(***************************************************************************)
(* The page that installs the Azure Service Operator on a cluster: the     *)
(* service principal is checked, a subscription is chosen, and the five    *)
(* steps of the installation then follow each other, each of them started  *)
(* by the page when the one before it has succeeded, and run by a handler  *)
(* of the panel with kubectl on the cluster.                               *)
(*                                                                         *)
(* The App ID and the password are one field that is filled or not; the    *)
(* cloud and the tenant come together with the subscriptions.  A message   *)
(* to the page is delivered when it is posted, and the effects of the page *)
(* follow the change that they watch.                                      *)
(***************************************************************************)
EXTENDS Naturals, Sequences

CONSTANTS Subscriptions, NoSubscription

ASSUME SubscriptionsAssumption == NoSubscription \notin Subscriptions

VARIABLES
    asoPage,       \* the page
    request,       \* the handler that is at work: its step, its rollouts, its parameters
    deployed       \* what is on the cluster

asoVars == <<asoPage, request, deployed>>

InstallSteps == <<"checkSP", "certManager", "waitForCertManager", "operator", "settings",
           "waitForControllerManager">>
StepNames == {InstallSteps[i] : i \in DOMAIN InstallSteps}
CertManager == {"cert-manager", "cainjector", "webhook"}

NoRollouts == [d \in CertManager |-> "running"]
NoRequest == [step |-> "none", rollouts |-> NoRollouts, sub |-> NoSubscription]
RequestOf(step, page) == [NoRequest EXCEPT !.step = step, !.sub = page.selected]

-----------------------------------------------------------------------------
(* The page.                                                               *)

AsoPage == [filled |-> FALSE, tenant |-> FALSE, subscriptions |-> {},
            selected |-> NoSubscription, threw |-> FALSE,
            status |-> [s \in StepNames |-> "NotStarted"]]

getRequiredInputs(page) == page.filled /\ page.tenant /\ page.selected # NoSubscription

CanEditSP == asoPage.status["checkSP"] \in {"NotStarted", "Failed"}
CanViewSubscriptions == asoPage.status["checkSP"] = "Succeeded"
InstallStarted == asoPage.status["certManager"] # "NotStarted"
\* Mutant: the subscription may still be changed while the installation is under way.
SelectableWhileInstalling == CanViewSubscriptions
CanSelectSubscription == CanViewSubscriptions /\ ~InstallStarted

\* The page sends the request of a step, and shows the step as in progress.
StartsStep(page, step) ==
    /\ asoPage' = [page EXCEPT !.status[step] = "InProgress"]
    /\ request' = RequestOf(step, page)

\* The effects that follow a step which has succeeded start the next one, if there is one
\* that was not started; the first is started by a button.  What the settings need must be
\* in the state, or the effect throws, and the page is gone.
NextStep(page, i) ==
    IF i = Len(InstallSteps) THEN asoPage' = page /\ request' = NoRequest
    ELSE IF InstallSteps[i + 1] = "settings" /\ ~getRequiredInputs(page)
    THEN asoPage' = [page EXCEPT !.threw = TRUE] /\ request' = NoRequest
    ELSE StartsStep(page, InstallSteps[i + 1])

StepCompleted(step, succeeded) ==
    LET page == [asoPage EXCEPT !.status[step] = IF succeeded THEN "Succeeded" ELSE "Failed"]
        i == CHOOSE n \in DOMAIN InstallSteps : InstallSteps[n] = step IN
    IF succeeded THEN NextStep(page, i) ELSE asoPage' = page /\ request' = NoRequest

handleServicePrincipalChange(filled) ==
    /\ CanEditSP
    /\ asoPage' = [asoPage EXCEPT !.filled = filled]
    /\ UNCHANGED <<request, deployed>>

\* The button lies in the form and has no type; it is disabled before it could submit.
handleCheckSPClick ==
    /\ CanEditSP /\ asoPage.filled
    /\ StartsStep(asoPage, "checkSP")
    /\ UNCHANGED deployed

handleSubscriptionChanged(sub) ==
    /\ CanSelectSubscription
    /\ sub \in asoPage.subscriptions \cup {NoSubscription}
    /\ asoPage' = [asoPage EXCEPT !.selected = sub]
    /\ UNCHANGED <<request, deployed>>

handleInstall ==
    /\ CanViewSubscriptions /\ ~InstallStarted /\ getRequiredInputs(asoPage)
    /\ StartsStep(asoPage, "certManager")
    /\ UNCHANGED deployed

\* The heading over the steps.
SaysInstalled == asoPage.status["waitForControllerManager"] = "Succeeded"

-----------------------------------------------------------------------------
(* The handlers of the panel.                                              *)

\* The check lists the subscriptions of the user; it never uses the service principal.
handleCheckSPRequest(subs, succeeded) ==
    /\ request.step = "checkSP"
    /\ asoPage' = [asoPage EXCEPT !.status["checkSP"] = IF succeeded THEN "Succeeded" ELSE "Failed",
                                  !.tenant = succeeded,
                                  !.subscriptions = IF succeeded THEN subs ELSE {},
                                  !.selected = IF succeeded /\ \E s \in subs : subs = {s}
                                               THEN CHOOSE s \in subs : TRUE ELSE NoSubscription]
    /\ request' = NoRequest
    /\ UNCHANGED deployed

\* kubectl create succeeds if it creates everything; else it may have created a part.
handleInstallCertManagerRequest ==
    /\ request.step = "certManager"
    /\ \/ /\ deployed.cert = [d \in CertManager |-> "absent"]
          /\ deployed' = [deployed EXCEPT !.cert = [d \in CertManager |-> "created"]]
          /\ StepCompleted("certManager", TRUE)
       \/ /\ \E part \in SUBSET CertManager :
                 deployed' = [deployed EXCEPT !.cert =
                     [d \in CertManager |-> IF d \in part /\ @[d] = "absent" THEN "created" ELSE @[d]]]
          /\ StepCompleted("certManager", FALSE)

\* One of the three commands that wait: it ends well only for a deployment that is ready.
RolloutEnds(d) ==
    /\ request.step = "waitForCertManager" /\ request.rollouts[d] = "running"
    /\ \E end \in {"ready", "failed"} :
           /\ end = "ready" => deployed.cert[d] = "ready"
           /\ request' = [request EXCEPT !.rollouts[d] = end]
    /\ UNCHANGED <<asoPage, deployed>>

\* Mutant: the last of the three decides.
AnyRolloutEnded(rollouts) == \E d \in CertManager : rollouts[d] = "ready"
RolledOut(rollouts) == \A d \in CertManager : rollouts[d] = "ready"

handleWaitForCertManagerRequest ==
    /\ request.step = "waitForCertManager"
    /\ \A d \in CertManager : request.rollouts[d] # "running"
    /\ StepCompleted("waitForCertManager", RolledOut(request.rollouts))
    /\ UNCHANGED deployed

\* create, not apply: an operator that is there already is not touched.
handleInstallOperatorRequest ==
    /\ request.step = "operator"
    /\ \/ /\ deployed.operator = "absent"
          /\ deployed' = [deployed EXCEPT !.operator = "created"]
          /\ StepCompleted("operator", TRUE)
       \/ /\ \E part \in {deployed.operator, "part"} :
                 /\ part = "part" => deployed.operator = "absent"
                 /\ deployed' = [deployed EXCEPT !.operator = part]
          /\ StepCompleted("operator", FALSE)

\* The settings are applied, over those that may be there.
handleInstallOperatorSettingsRequest ==
    /\ request.step = "settings"
    /\ \/ /\ deployed' = [deployed EXCEPT !.settings = request.sub]
          /\ StepCompleted("settings", TRUE)
       \/ StepCompleted("settings", FALSE) /\ UNCHANGED deployed

handleWaitForControllerManagerRequest ==
    /\ request.step = "waitForControllerManager"
    /\ \/ deployed.operator = "ready" /\ StepCompleted("waitForControllerManager", TRUE)
       \/ StepCompleted("waitForControllerManager", FALSE)
    /\ UNCHANGED deployed

-----------------------------------------------------------------------------
(* The cluster: a deployment becomes ready after it was created, that of   *)
(* the operator once cert-manager is ready and its settings are there.     *)

BecomesReady ==
    /\ \/ \E d \in CertManager :
              /\ deployed.cert[d] = "created"
              /\ deployed' = [deployed EXCEPT !.cert[d] = "ready"]
       \/ /\ deployed.operator = "created" /\ deployed.settings # NoSubscription
          /\ \A d \in CertManager : deployed.cert[d] = "ready"
          /\ deployed' = [deployed EXCEPT !.operator = "ready"]
    /\ UNCHANGED <<asoPage, request>>

\* A cluster on which nothing, or what an earlier installation left, is found.
AsoInit ==
    /\ asoPage = AsoPage
    /\ request = NoRequest
    /\ deployed \in [cert : {[d \in CertManager |-> c] : c \in {"absent", "ready"}},
                     operator : {"absent", "part", "created"},
                     settings : Subscriptions \cup {NoSubscription}]

AsoUser ==
    \/ \E filled \in BOOLEAN : handleServicePrincipalChange(filled)
    \/ handleCheckSPClick
    \/ \E sub \in Subscriptions \cup {NoSubscription} : handleSubscriptionChanged(sub)
    \/ handleInstall

AsoHandler ==
    \/ \E subs \in SUBSET Subscriptions, succeeded \in BOOLEAN : handleCheckSPRequest(subs, succeeded)
    \/ handleInstallCertManagerRequest
    \/ \E d \in CertManager : RolloutEnds(d)
    \/ handleWaitForCertManagerRequest
    \/ handleInstallOperatorRequest
    \/ handleInstallOperatorSettingsRequest
    \/ handleWaitForControllerManagerRequest

AsoNext == (~asoPage.threw /\ (AsoUser \/ AsoHandler)) \/ BecomesReady

AsoSpec == AsoInit /\ [][AsoNext]_asoVars

-----------------------------------------------------------------------------
\* The effects never find a setting missing, which they would answer with an exception;
\* the operator is created only after every deployment of cert-manager was ready; and the
\* page that says the operator is installed has given it the subscription it shows.
OperatorAsChosen ==
    /\ ~asoPage.threw
    /\ request.step \in {"operator", "settings", "waitForControllerManager"} =>
        \A d \in CertManager : deployed.cert[d] = "ready"
    /\ SaysInstalled => deployed.operator = "ready" /\ deployed.settings = asoPage.selected
=============================================================================
