----------------------------- MODULE InspektorGadget -----------------------------
(***************************************************************************)
(* The page that deploys Inspektor Gadget and runs its traces, the panel   *)
(* that answers it, and the watcher that holds the one stream whose output *)
(* the page follows.  A watch lets go of the stream it holds at once, and  *)
(* takes hold of its own only when the first line of it arrives, so a      *)
(* request that comes in between finds nothing to let go of.               *)
(*                                                                         *)
(* Of the two tabs whose traces are streams, and of the two whose traces   *)
(* run to their end, there is one each.  The lists of nodes, namespaces,   *)
(* pods and containers, and what a new trace filters on and sorts by, are  *)
(* left out.  The messages of the page are delivered when they are sent.   *)
(***************************************************************************)
EXTENDS Naturals, Sequences, FiniteSets

CONSTANTS MaxTraces,      \* bounds the traces that are created
          MaxWatches,     \* bounds the streams that are asked for
          NoTrace

ASSUME GadgetAssumption == MaxTraces \in Nat /\ MaxWatches \in Nat /\ NoTrace \notin Nat

VARIABLES
    gadgetPage,      \* what the page knows of Inspektor Gadget, its tab and its traces
    traceTable,      \* the state of the tab with traces that is shown
    gadgetJobs,      \* the version, deploy and undeploy requests at work
    traceRuns,       \* the traces whose run to the end is at work
    watches,         \* every stream that was asked for: its trace, and how far it is
    currentStream,   \* the stream that the watcher holds, or 0
    excused          \* what has happened that may leave a stream on its own

gadgetVars == <<gadgetPage, traceTable, gadgetJobs, traceRuns, watches, currentStream, excused>>

TraceTabs == {"trace", "profile"}
isStreamingTrace == gadgetPage.tab = "trace"
isDeployed(page) == page.version \in {"valid", "odd"}

\* The gadget that a command names opens the dialog of its tab at once.
NewTable(page) == [shown |-> isDeployed(page) /\ page.tab = page.preset,
                   checked |-> {}, selected |-> NoTrace, watching |-> FALSE]

-----------------------------------------------------------------------------
(* The watcher of traces.                                                  *)

Opening == {w \in DOMAIN watches : watches[w].state = "opening"}
Overtakes == IF Opening # {} THEN {"overtaken"} ELSE {}

\* The streams after the one that is held was disposed of.
Disposed == [w \in DOMAIN watches |->
                IF w = currentStream THEN [watches[w] EXCEPT !.state = "ended"] ELSE watches[w]]

stopWatching ==
    /\ watches' = Disposed
    /\ currentStream' = 0
    /\ excused' = excused \cup Overtakes

\* Mutant: the stream that is held is let go of only when the new one is there.
WatchesOnly(t) ==
    /\ Len(watches) < MaxWatches
    /\ watches' = Append(watches, [trace |-> t, state |-> "opening"])
    /\ currentStream' = currentStream
    /\ excused' = excused \cup Overtakes

watch(t) ==
    /\ Len(watches) < MaxWatches
    /\ watches' = Append(Disposed, [trace |-> t, state |-> "opening"])
    /\ currentStream' = 0
    /\ excused' = excused \cup Overtakes

KeepsStreams == UNCHANGED <<watches, currentStream, excused>>

-----------------------------------------------------------------------------
(* The page: its tabs, and the deployment.                                 *)

\* The tab with traces is built anew when another is shown, and forgets its stream.
Shows(page) ==
    /\ gadgetPage' = page
    /\ IF page.tab = gadgetPage.tab /\ isDeployed(page) = isDeployed(gadgetPage)
       THEN UNCHANGED traceTable ELSE traceTable' = NewTable(page)

LeavesStream == IF traceTable.watching THEN {"left"} ELSE {}

\* The page asks for the version once.
FirstGadgetEffect ==
    /\ gadgetPage.status = "Initializing" /\ ~gadgetPage.started
    /\ gadgetPage' = [gadgetPage EXCEPT !.started = TRUE]
    /\ gadgetJobs' = gadgetJobs \cup {"version"}
    /\ UNCHANGED <<traceTable, traceRuns, watches, currentStream, excused>>

ChoosesTab(tab) ==
    /\ tab \in TraceTabs => isDeployed(gadgetPage)
    /\ tab # gadgetPage.tab
    /\ Shows([gadgetPage EXCEPT !.tab = tab])
    /\ excused' = excused \cup LeavesStream
    /\ UNCHANGED <<gadgetJobs, traceRuns, watches, currentStream>>

handleDeploy ==
    /\ gadgetPage.tab = "overview" /\ gadgetPage.version \in {"absent", "odd"}
    /\ Shows([gadgetPage EXCEPT !.status = "Deploying", !.version = "unknown"])
    /\ gadgetJobs' = gadgetJobs \cup {"deploy"}
    /\ UNCHANGED <<traceRuns, watches, currentStream, excused>>

\* From the overview or from a tab with traces; the stream goes on.
handleUndeploy ==
    /\ isDeployed(gadgetPage)
    /\ Shows([gadgetPage EXCEPT !.status = "Undeploying", !.version = "unknown",
                                !.tab = "overview"])
    /\ gadgetJobs' = gadgetJobs \cup {"undeploy"}
    /\ excused' = excused \cup LeavesStream
    /\ UNCHANGED <<traceRuns, watches, currentStream>>

\* Without the gadget on the cluster, an effect goes back to the overview.
updateVersion(version) ==
    Shows([gadgetPage EXCEPT !.status = "Known", !.version = version,
                             !.tab = IF version = "absent" THEN "overview" ELSE @])

\* Mutant: a deployment that fails is only told by a notification.
FailsQuietly(job) == job \in gadgetJobs /\ UNCHANGED <<gadgetPage, traceTable>>

\* A version that cannot be read is only told by a notification.
GadgetJobFails(job) ==
    /\ job \in gadgetJobs
    /\ IF job = "version" THEN UNCHANGED <<gadgetPage, traceTable>>
       ELSE Shows([gadgetPage EXCEPT !.status = "Failed", !.version = "absent"])

GadgetJobEnds(job) ==
    /\ job \in gadgetJobs
    /\ \/ \E version \in {"absent", "valid", "odd"} : updateVersion(version)
       \/ GadgetJobFails(job)
    /\ gadgetJobs' = gadgetJobs \ {job}
    /\ UNCHANGED <<traceRuns, watches, currentStream, excused>>

-----------------------------------------------------------------------------
(* The table of the traces of a tab.                                       *)

TracesShown == isDeployed(gadgetPage) /\ gadgetPage.tab \in TraceTabs
Listed == {t \in gadgetPage.traces : t.tab = gadgetPage.tab}
ListedIds == {t.id : t \in Listed}

handleAdd ==
    /\ TracesShown /\ ~traceTable.shown
    /\ traceTable' = [traceTable EXCEPT !.shown = TRUE]
    /\ UNCHANGED <<gadgetPage, gadgetJobs, traceRuns, watches, currentStream, excused>>

handleNewTraceDialogCancel ==
    /\ TracesShown /\ traceTable.shown
    /\ traceTable' = [traceTable EXCEPT !.shown = FALSE]
    /\ gadgetPage' = [gadgetPage EXCEPT !.preset = "none"]
    /\ UNCHANGED <<gadgetJobs, traceRuns, watches, currentStream, excused>>

handleNewTraceDialogAccept ==
    LET traceId == gadgetPage.next IN
    /\ TracesShown /\ traceTable.shown /\ traceId <= MaxTraces
    /\ IF isStreamingTrace
       THEN watch(traceId) /\ UNCHANGED traceRuns
       ELSE traceRuns' = traceRuns \cup {traceId} /\ KeepsStreams
    /\ gadgetPage' = [gadgetPage EXCEPT
           !.next = @ + 1, !.preset = "none",
           !.traces = @ \cup {[id |-> traceId, tab |-> gadgetPage.tab, output |-> FALSE]}]
    /\ traceTable' = [traceTable EXCEPT !.shown = FALSE, !.selected = traceId,
                                        !.watching = isStreamingTrace \/ @]
    /\ UNCHANGED gadgetJobs

toggleCheckedTraceId(id) ==
    /\ TracesShown /\ ~traceTable.shown /\ id \in ListedIds
    /\ traceTable' = [traceTable EXCEPT
           !.checked = IF id \in @ THEN @ \ {id} ELSE @ \cup {id}]
    /\ UNCHANGED <<gadgetPage, gadgetJobs, traceRuns, watches, currentStream, excused>>

\* The eye beside the name of the selected trace.
toggleIsWatching ==
    /\ TracesShown /\ ~traceTable.shown /\ isStreamingTrace
    /\ traceTable.selected \in ListedIds
    /\ IF traceTable.watching THEN stopWatching ELSE watch(traceTable.selected)
    /\ traceTable' = [traceTable EXCEPT !.watching = ~@]
    /\ UNCHANGED <<gadgetPage, gadgetJobs, traceRuns>>

\* A trace that is selected, and is not deleted, goes on.
handleDelete ==
    LET deselects == traceTable.selected \in traceTable.checked IN
    /\ TracesShown /\ ~traceTable.shown /\ traceTable.checked # {}
    /\ IF deselects /\ traceTable.watching /\ isStreamingTrace THEN stopWatching ELSE KeepsStreams
    /\ gadgetPage' = [gadgetPage EXCEPT !.traces = {t \in @ : t.id \notin traceTable.checked}]
    /\ traceTable' = [traceTable EXCEPT !.checked = {},
                                        !.selected = IF deselects THEN NoTrace ELSE @]
    /\ UNCHANGED <<gadgetJobs, traceRuns>>

\* A click on the selected trace deselects it; the eye stays open.  The stop that is
\* sent before the run does what the run begins with.
handleRowClick(id) ==
    LET isNewTraceSelected == id # traceTable.selected IN
    /\ TracesShown /\ ~traceTable.shown /\ id \in ListedIds
    /\ IF ~(traceTable.watching /\ isStreamingTrace) THEN KeepsStreams
       ELSE IF isNewTraceSelected THEN watch(id) ELSE stopWatching
    /\ traceTable' = [traceTable EXCEPT !.selected = IF isNewTraceSelected THEN id ELSE NoTrace]
    /\ UNCHANGED <<gadgetPage, gadgetJobs, traceRuns>>

-----------------------------------------------------------------------------
(* The runs and the streams.                                               *)

runTraceResponse(id) ==
    gadgetPage' = [gadgetPage EXCEPT
        !.traces = {IF t.id = id THEN [t EXCEPT !.output = TRUE] ELSE t : t \in @}]

\* A run that fails is only told by a notification: its trace stays without output.
BlockingTraceEnds(id) ==
    /\ id \in traceRuns
    /\ traceRuns' = traceRuns \ {id}
    /\ runTraceResponse(id) \/ UNCHANGED gadgetPage
    /\ UNCHANGED <<traceTable, gadgetJobs, watches, currentStream, excused>>

\* The first line of a stream, which the watcher now holds, whatever it held before.
FirstLine(w) ==
    /\ w \in Opening
    /\ watches' = [watches EXCEPT ![w].state = "live"]
    /\ currentStream' = w
    /\ UNCHANGED <<gadgetPage, traceTable, gadgetJobs, traceRuns, excused>>

\* A stream fails or ends before its first line; in the second case the watcher holds
\* an empty stream.
EndsUnheard(w) ==
    /\ w \in Opening
    /\ watches' = [watches EXCEPT ![w].state = "ended"]
    /\ currentStream' \in {currentStream, w}
    /\ UNCHANGED <<gadgetPage, traceTable, gadgetJobs, traceRuns, excused>>

Line(w) ==
    /\ w \in DOMAIN watches /\ watches[w].state = "live"
    /\ runTraceResponse(watches[w].trace)
    /\ UNCHANGED <<traceTable, gadgetJobs, traceRuns, watches, currentStream, excused>>

StreamEnds(w) ==
    /\ w \in DOMAIN watches /\ watches[w].state = "live"
    /\ watches' = [watches EXCEPT ![w].state = "ended"]
    /\ UNCHANGED <<gadgetPage, traceTable, gadgetJobs, traceRuns, currentStream, excused>>

\* The panel disposes of the watcher when it is closed; the page is gone then.
PanelIsClosed ==
    /\ gadgetPage.status # "Closed"
    /\ stopWatching
    /\ gadgetPage' = [gadgetPage EXCEPT !.status = "Closed", !.version = "unknown",
                                        !.traces = {}, !.tab = "overview"]
    /\ traceTable' = NewTable(gadgetPage') /\ gadgetJobs' = {} /\ traceRuns' = {}

-----------------------------------------------------------------------------
\* Opened on the overview, or by a command on a tab and a gadget of it.
GadgetInit ==
    /\ \E tab \in TraceTabs \cup {"overview"} :
           gadgetPage = [status |-> "Initializing", version |-> "unknown", started |-> FALSE,
                         tab |-> tab, preset |-> IF tab \in TraceTabs THEN tab ELSE "none",
                         next |-> 1, traces |-> {}]
    /\ traceTable = NewTable(gadgetPage)
    /\ gadgetJobs = {} /\ traceRuns = {}
    /\ watches = <<>> /\ currentStream = 0 /\ excused = {}

GadgetUser ==
    \/ FirstGadgetEffect
    \/ \E tab \in TraceTabs \cup {"overview"} : ChoosesTab(tab)
    \/ handleDeploy \/ handleUndeploy
    \/ handleAdd \/ handleNewTraceDialogCancel \/ handleNewTraceDialogAccept
    \/ \E id \in ListedIds : toggleCheckedTraceId(id) \/ handleRowClick(id)
    \/ toggleIsWatching \/ handleDelete
    \/ PanelIsClosed

GadgetNext ==
    \/ GadgetUser
    \/ \E job \in gadgetJobs : GadgetJobEnds(job)
    \/ \E id \in traceRuns : BlockingTraceEnds(id)
    \/ \E w \in DOMAIN watches : FirstLine(w) \/ EndsUnheard(w) \/ Line(w) \/ StreamEnds(w)

GadgetSpec == GadgetInit /\ [][GadgetNext]_gadgetVars

-----------------------------------------------------------------------------
\* Unless a request came while a stream had yet to show its first line, the watcher holds
\* every stream that runs; and if moreover its tab was never left, the stream is that of
\* the trace which is selected, beside an open eye.
StreamsAreHeld ==
    \A w \in DOMAIN watches : watches[w].state = "live" /\ "overtaken" \notin excused =>
        /\ w = currentStream
        /\ "left" \notin excused => traceTable.watching /\ traceTable.selected = watches[w].trace

\* A page that says it deploys or undeploys has the request for it at work.
DeploymentIsBacked ==
    /\ gadgetPage.status = "Deploying" => "deploy" \in gadgetJobs
    /\ gadgetPage.status = "Undeploying" => "undeploy" \in gadgetJobs
=============================================================================
