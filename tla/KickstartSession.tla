--------------------------- MODULE KickstartSession ---------------------------
(***************************************************************************)
(* KickstartPanel composed with the webview that drives it: the reducer of *)
(* KickstartCluster/helpers/state.ts, the buttons KickstartCluster.tsx     *)
(* shows in each stage, and the ordered channel that carries the panel's   *)
(* messages.                                                               *)
(*                                                                         *)
(* A click changes the webview's state and is handled by the panel in one  *)
(* step.  Nothing is lost by it: what the panel posts while a click is on  *)
(* its way is still undelivered when the click happens here.  Superseding  *)
(* lets the user click on such a page, and while an attempt is in flight;  *)
(* otherwise the page is up to date and the panel quiet at every click.    *)
(***************************************************************************)
EXTENDS KickstartPanel

CONSTANT MaxLag     \* bound on the panel's undelivered messages

ASSUME LagAssumption == MaxLag \in Nat

VARIABLES
    web,            \* the webview's state
    toWebview       \* messages posted by the panel and not yet delivered

sessionVars == <<vars, web, toWebview>>

NoStages == [i \in StageIndices |-> "none"]

Statuses == {"running", "succeeded", "warning", "failed"}

\* What the page may be: stages are listed of a run only.
Pages ==
    {w \in [stage : {"collecting", "provisioning", "complete"},
            run : Runs \cup {None},
            stages : [StageIndices -> Statuses \cup {"none"}],
            access : Runs \cup {None},
            result : {"none", "failed", "ok"},
            chat : BOOLEAN] :
        w.run = None => w.stages = NoStages}

\* The messages for the webview.
Posted ==
    [type : {"snapshot"}, run : Runs, stage : StageIndices, status : Statuses]
      \cup [type : {"finishComplete"}, run : Runs, by : Gens, ok : BOOLEAN]
      \cup [type : {"clusterChatReady", "awaitingAccess", "accessResolved"}, run : Runs]

SessionTypeOK == TypeOK /\ web \in Pages /\ toWebview \in Seq(Posted)

SessionInit ==
    /\ Init
    /\ web = [stage |-> "collecting", run |-> None, stages |-> NoStages, access |-> None,
              result |-> "none", chat |-> FALSE]
    /\ toWebview = <<>>

-----------------------------------------------------------------------------
(* The reducer's handlers of the panel's messages                          *)

\* applySnapshot: an older run is ignored, a newer one replaces the list of stages.
ApplySnapshot(w, m) ==
    CASE w.run # None /\ m.run < w.run -> w
      [] w.run = m.run -> [w EXCEPT !.stages[m.stage] = m.status]
      [] OTHER -> [w EXCEPT !.run = m.run, !.stages = [NoStages EXCEPT ![m.stage] = m.status]]

Received(w, m) ==
    CASE m.type = "snapshot" -> ApplySnapshot(w, m)
      [] m.type = "finishComplete" ->
            [w EXCEPT !.stage = "complete", !.result = IF m.ok THEN "ok" ELSE "failed",
                      !.access = None]
      [] m.type = "clusterChatReady" -> [w EXCEPT !.chat = TRUE]
      [] m.type = "awaitingAccess" -> [w EXCEPT !.access = m.run]
      [] m.type = "accessResolved" ->
            IF w.access \notin {None, m.run} THEN w ELSE [w EXCEPT !.access = None]

Receive ==
    /\ toWebview # <<>>
    /\ web' = Received(web, Head(toWebview))
    /\ toWebview' = Tail(toWebview)
    /\ UNCHANGED vars

-----------------------------------------------------------------------------
(* The user's clicks, in the stages that show the button                    *)

\* What the panel posts goes to the webview; the handoff to the chat does not.  A step
\* posts or hands off, never both.
SendPosts ==
    toWebview' = IF \E n \in DOMAIN posts' : posts'[n].type # "chat"
                 THEN toWebview \o posts' ELSE toWebview

\* ClusterInput and ExistingClusterInput: post the request, then setProvisioning.
ClickFinish(k) ==
    /\ web.stage = "collecting"
    /\ web' = [web EXCEPT !.stage = "provisioning", !.access = None, !.chat = FALSE]
    /\ FinishRequest(k)

Failed == web.stage = "complete" /\ web.result # "ok"

\* "Try again": retryProvisioning.
ClickTryAgain ==
    /\ Failed
    /\ web' = [web EXCEPT !.stage = "provisioning", !.result = "none", !.access = None,
                          !.chat = FALSE, !.run = None, !.stages = NoStages]
    /\ RetryRequest

\* "Retry this step", on a failed or warned stage, provisioning or complete.
ClickRetryStage(i) ==
    /\ web.stage \in {"provisioning", "complete"}
    /\ web.stages[i] \in {"failed", "warning"}
    /\ web' = [web EXCEPT !.stage = "provisioning", !.result = "none", !.access = None]
    /\ RetryStageRequest(web.run, i)

\* Mutant of ClickBack: the panel is not told.
ClickBackSilently ==
    /\ web.stage = "provisioning" \/ Failed
    /\ web' = [web EXCEPT !.stage = "collecting", !.result = "none", !.access = None,
                          !.chat = FALSE, !.run = None, !.stages = NoStages]
    /\ posts' = <<>>
    /\ UNCHANGED <<panelVars, flightVars, attemptVars, gateVars>>

\* "Back to setup".
ClickBack ==
    /\ web.stage = "provisioning" \/ Failed
    /\ web' = [web EXCEPT !.stage = "collecting", !.result = "none", !.access = None,
                          !.chat = FALSE, !.run = None, !.stages = NoStages]
    /\ BackToSetupRequest

\* "Use an existing cluster": goToExistingClusterSelection tells the panel nothing.
ClickUseExisting ==
    /\ Failed
    /\ web' = [web EXCEPT !.stage = "collecting", !.result = "none", !.chat = FALSE,
                          !.run = None, !.stages = NoStages]
    /\ posts' = <<>>
    /\ UNCHANGED <<panelVars, flightVars, attemptVars, gateVars>>

\* "Continue in chat".
ClickContinue ==
    /\ \/ web.stage = "provisioning" /\ web.chat
       \/ web.stage = "complete" /\ web.result = "ok"
    /\ ContinueInChatRequest
    /\ UNCHANGED web

\* The recheck timer of ProvisioningAccessPanel, mounted while a prompt is shown.
RecheckTimer ==
    /\ web.stage = "provisioning" /\ web.access # None
    /\ RecheckRequest(web.access)
    /\ UNCHANGED web

Click ==
    \/ \E k \in Kinds : ClickFinish(k)
    \/ ClickTryAgain
    \/ \E i \in StageIndices : ClickRetryStage(i)
    \/ ClickBack
    \/ ClickUseExisting
    \/ ClickContinue
    \/ RecheckTimer

PanelStep ==
    \/ Microtask
    \/ /\ Len(toWebview) <= MaxLag
       /\ \/ \E a \in Gens :
                StageStep(a) \/ EarlyStep(a) \/ TickReads(a) \/ RecheckAnswered(a)
          \/ \E k \in Kinds : SelectionSaved(k)
          \/ KubeloginSettles

SessionNext ==
    \/ Receive
    \/ (PanelStep /\ SendPosts /\ UNCHANGED web)
    \/ ((IF Superseding THEN Len(toWebview) <= MaxLag ELSE toWebview = <<>>) /\ Click /\ SendPosts)

SessionSpec == SessionInit /\ [][SessionNext]_sessionVars

\* Messages are delivered, and the panel is scheduled as in KickstartPanel.  The access
\* panel's timer fires while its prompt is shown.
SessionFairness ==
    /\ WF_sessionVars(Receive)
    /\ WF_sessionVars(Microtask /\ SendPosts /\ UNCHANGED web)
    /\ \A a \in Gens :
          /\ WF_sessionVars(Len(toWebview) <= MaxLag /\ StageStep(a) /\ SendPosts /\ UNCHANGED web)
          /\ WF_sessionVars(Len(toWebview) <= MaxLag /\ EarlyStep(a) /\ SendPosts /\ UNCHANGED web)
          /\ WF_sessionVars(Len(toWebview) <= MaxLag /\ RecheckAnswered(a) /\ SendPosts
                            /\ UNCHANGED web)
    /\ \A k \in Kinds :
          WF_sessionVars(Len(toWebview) <= MaxLag /\ SelectionSaved(k) /\ SendPosts
                         /\ UNCHANGED web)

-----------------------------------------------------------------------------
(* Properties                                                              *)

Delivered == toWebview = <<>>

\* While the attempt the panel counts as its own waits for access, the user sees its
\* prompt: the recheck that alone can release it is on the screen.
PromptIsOnScreen ==
    Delivered /\ gate # None /\ gate = inFlight =>
        web.stage = "provisioning" /\ web.access = runOf[gate]

\* The Complete page appears only once the panel's attempts are over.
CompleteMeansOver ==
    web.stage = "complete" => inFlight = None /\ waiters = <<>>

\* On the setup page no run is active in the panel.
SetupMeansIdle ==
    web.stage = "collecting" /\ Delivered => inFlight = None

\* The Provisioning page shows the stage that the attempt in flight executes, as running.
ScreenShowsCurrentStage ==
    Delivered /\ web.stage = "provisioning" /\ inFlight # None =>
        web.run = activeRun /\ web.stages[at[inFlight]] = "running"

\* A "ready" page, and the offer to continue in chat there, concern a cluster the panel
\* would describe as ready.
ReadyPageAgrees ==
    Delivered /\ web.stage = "complete" /\ web.result = "ok" =>
        complete /\ lastProvisioned # None

\* What the page shows, once it has read all its messages, is what the panel does.
PagesAgree ==
    /\ PromptIsOnScreen /\ CompleteMeansOver /\ SetupMeansIdle
    /\ ScreenShowsCurrentStage /\ ReadyPageAgrees

\* A run the user started ends on the Complete page, unless it stays parked or the user
\* leaves or retries for ever.
RunReachesPage ==
    (web.stage = "provisioning") ~> (web.stage # "provisioning" \/ gate # None)
=============================================================================
