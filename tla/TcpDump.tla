--------------------------------- MODULE TcpDump ---------------------------------
(***************************************************************************)
(* The TCP capture panel, for one node: the page's state of the node       *)
(* (webview-ui/src/TCPDump), the panel's handlers (panels/TcpDumpPanel.ts) *)
(* and the debug pod they drive with kubectl.  Nodes share nothing but the *)
(* selector, so one stands for all.                                        *)
(*                                                                         *)
(* A handler is a call whose kubectl commands are its steps.  A command    *)
(* may fail, and one that changes the pod may fail after it did.  The page *)
(* offers no button of the node until the answer is in, so that the answer *)
(* is applied where it is posted.  Downloads run beside everything else.   *)
(***************************************************************************)
EXTENDS Naturals

CONSTANTS
    MaxCaptures,  \* bound on the captures started
    MaxDownloads, \* bound on the downloads of a capture at once
    None

ASSUME BoundsAssumption == MaxCaptures \in Nat /\ MaxDownloads \in Nat
ASSUME FreshNone == None \notin Nat

Captures == 1 .. MaxCaptures

VARIABLES
    pod,        \* the debug pod of the node
    tools,      \* tcpdump and procps are installed in it
    procs,      \* the captures whose tcpdump runs in it
    files,      \* the captures with a file in it
    stray,      \* a file named like a capture lies below the directory of the captures: "none",
                \* "there", or "thrown" when it has thrown a handler
    drawn,      \* the capture names drawn so far: 1 .. drawn
    call,       \* the handler under way for the node
    downloads,  \* capture -> downloads under way
    selected,   \* the node is the one selected on the page
    status,     \* NodeStatus
    current,    \* currentCaptureName
    listed      \* capture -> its CaptureStatus in completedCaptures, or "none"

podVars == <<pod, tools, procs, files>>
page == <<status, current, listed>>
vars == <<podVars, stray, drawn, call, downloads, selected, page>>

Busy == {"Checking", "CreatingDebugPod", "DeletingDebugPod", "CaptureStarting",
         "CaptureStopping"}
Statuses == Busy \cup {"Unknown", "Clean", "DebugPodRunning", "CaptureRunning"}

CaptureStatuses == {"Completed", "Downloading", "Downloaded"}

\* The page shows the table of captures.
Shown == status \in {"DebugPodRunning", "CaptureStarting", "CaptureRunning", "CaptureStopping"}

\* Handler op at step p, for the capture c; found are the running captures it has read.
Call(op, p, c, found) == [op |-> op, at |-> p, capture |-> c, found |-> found]
NoCall == Call("none", "none", None, {})

TypeOK ==
    /\ pod \in {"absent", "starting", "ready", "terminating"}
    /\ tools \in BOOLEAN
    /\ procs \in SUBSET Captures /\ files \in SUBSET Captures
    /\ stray \in {"none", "there", "thrown"}
    /\ drawn \in 0 .. MaxCaptures
    /\ call \in [op : {"none", "check", "create", "delete", "start", "stop"},
                 at : {"none", "pods", "apply", "ready", "install", "delete", "deleted", "exec",
                       "procs", "kill", "files"},
                 capture : Captures \cup {None}, found : SUBSET Captures]
    /\ downloads \in [Captures -> 0 .. MaxDownloads]
    /\ selected \in BOOLEAN
    /\ status \in Statuses
    /\ current \in Captures \cup {None}
    /\ listed \in [Captures -> CaptureStatuses \cup {"none"}]

NoneListed == [c \in Captures |-> "none"]

\* The panel opens; an earlier one may have left the pod, with captures, and somebody a
\* directory in it.
Init ==
    /\ pod \in {"absent", "ready"}
    /\ tools \in BOOLEAN
    /\ drawn \in {n \in {0, 1} : n <= MaxCaptures}
    /\ files \in SUBSET (1 .. drawn) /\ procs \in SUBSET files
    /\ stray \in {"none", "there"}
    /\ pod = "absent" => ~tools /\ files = {} /\ stray = "none"
    /\ procs # {} => tools
    /\ call = NoCall
    /\ downloads = [c \in Captures |-> 0]
    /\ selected = FALSE
    /\ status = "Unknown"
    /\ current = None
    /\ listed = NoneListed

-----------------------------------------------------------------------------
(* The cluster                                                              *)

Panel == <<drawn, call, downloads, selected, page>>

PodReady ==
    /\ pod = "starting" /\ pod' = "ready"
    /\ UNCHANGED <<tools, procs, files, stray, Panel>>

\* The pod is deleted, or lost with its node: what ran and lay in it is gone.
PodGone ==
    /\ pod # "absent" /\ pod' = "absent"
    /\ tools' = FALSE /\ procs' = {} /\ files' = {}
    /\ stray' = IF stray = "thrown" THEN stray ELSE "none"
    /\ UNCHANGED Panel

\* tcpdump opens its file.
FileAppears(c) ==
    /\ c \in procs \ files
    /\ files' = files \cup {c}
    /\ UNCHANGED <<pod, tools, procs, stray, Panel>>

\* tcpdump ends, after a signal or by itself: a bad filter, no space left.
CaptureEnds(c) ==
    /\ c \in procs
    /\ procs' = procs \ {c}
    /\ UNCHANGED <<pod, tools, files, stray, Panel>>

\* kubectl exec and kubectl cp get through.
Reachable == pod \in {"ready", "terminating"}

-----------------------------------------------------------------------------
(* The answers, as the reducer applies them                                 *)

Others == UNCHANGED <<stray, drawn, downloads, selected>>

GoOn(p) == call' = [call EXCEPT !.at = p] /\ UNCHANGED page

\* updateFromNodeCheck, with the completed captures s.
CheckAnswer(podRunning, running, s) ==
    /\ call' = NoCall
    /\ status' = IF ~podRunning THEN "Clean"
                 ELSE IF running = None THEN "DebugPodRunning" ELSE "CaptureRunning"
    /\ current' = running
    /\ listed' = [c \in Captures |-> IF c \in s THEN "Completed" ELSE "none"]

\* updateFromStartPodResult.
StartPodAnswer(ok) ==
    /\ call' = NoCall
    /\ status' = IF ok THEN "DebugPodRunning" ELSE "Unknown"
    /\ UNCHANGED <<current, listed>>

\* Mutant of DeletePodAnswer: the captures of the deleted pod stay listed.
DeletePodAnswerKeepsList(ok) ==
    /\ call' = NoCall
    /\ status' = IF ok THEN "Clean" ELSE "Unknown"
    /\ current' = None
    /\ UNCHANGED listed

\* updateFromDeletePodResult.
DeletePodAnswer(ok) ==
    /\ call' = NoCall
    /\ status' = IF ok THEN "Clean" ELSE "Unknown"
    /\ current' = None
    /\ listed' = NoneListed

\* updateFromCaptureStartResult.
StartAnswer(ok) ==
    /\ call' = NoCall
    /\ status' = IF ok THEN "CaptureRunning" ELSE "DebugPodRunning"
    /\ current' = IF ok THEN current ELSE None
    /\ UNCHANGED listed

\* updateFromCaptureStopResult; a stopped capture goes to the end of the list.
StopAnswer(ok) ==
    /\ call' = NoCall
    /\ status' = IF ok THEN "DebugPodRunning" ELSE "Unknown"
    /\ listed' = IF ok THEN [listed EXCEPT ![call.capture] = "Completed"] ELSE listed
    /\ UNCHANGED current

-----------------------------------------------------------------------------
(* handleCheckNodeState                                                     *)

CheckPods ==
    /\ call.op = "check" /\ call.at = "pods"
    /\ \/ pod # "absent" /\ GoOn("ready")
       \/ CheckAnswer(FALSE, None, {})
    /\ UNCHANGED podVars /\ Others

CheckReady ==
    /\ call.op = "check" /\ call.at = "ready"
    /\ \/ Reachable /\ GoOn("procs")
       \/ CheckAnswer(TRUE, None, {})
    /\ UNCHANGED podVars /\ Others

CheckProcs ==
    /\ call.op = "check" /\ call.at = "procs"
    /\ \/ /\ Reachable /\ tools
          /\ call' = [call EXCEPT !.at = "files", !.found = procs]
          /\ UNCHANGED page
       \/ CheckAnswer(TRUE, None, {})
    /\ UNCHANGED podVars /\ Others

\* Mutant of Completed: the files of running captures are listed too.
CompletedAll == files

\* getCompletedCaptures, without the captures found running.
Completed == files \ call.found

\* asCompletedCapture finds no name in a path below another directory, and throws.
CapturesThrow ==
    /\ call.op \in {"check", "stop"} /\ call.at = "files"
    /\ Reachable /\ stray = "there"
    /\ stray' = "thrown"
    /\ call' = NoCall
    /\ UNCHANGED <<podVars, drawn, downloads, selected, page>>

CheckFiles ==
    /\ call.op = "check" /\ call.at = "files"
    /\ \E running \in IF call.found = {} THEN {None} ELSE call.found :
          \/ Reachable /\ stray = "none" /\ CheckAnswer(TRUE, running, Completed)
          \/ CheckAnswer(TRUE, running, {})
    /\ UNCHANGED podVars /\ Others

-----------------------------------------------------------------------------
(* handleStartDebugPod and handleDeleteDebugPod                             *)

\* kubectl apply: it leaves a pod that is there as it is.
ApplyPod ==
    /\ call.op = "create" /\ call.at = "apply"
    /\ \/ pod' = (IF pod = "absent" THEN "starting" ELSE pod)
             /\ (GoOn("ready") \/ StartPodAnswer(FALSE))
       \/ UNCHANGED pod /\ StartPodAnswer(FALSE)
    /\ UNCHANGED <<tools, procs, files>> /\ Others

\* Mutant of AwaitPod: a pod that is not ready gets no answer.
AwaitPodForever ==
    /\ call.op = "create" /\ call.at = "ready"
    /\ \/ Reachable /\ GoOn("install")
       \/ call' = NoCall /\ UNCHANGED page
    /\ UNCHANGED podVars /\ Others

AwaitPod ==
    /\ call.op = "create" /\ call.at = "ready"
    /\ \/ Reachable /\ GoOn("install")
       \/ StartPodAnswer(FALSE)
    /\ UNCHANGED podVars /\ Others

InstallTools ==
    /\ call.op = "create" /\ call.at = "install"
    /\ \/ Reachable /\ tools' = TRUE /\ (StartPodAnswer(TRUE) \/ StartPodAnswer(FALSE))
       \/ UNCHANGED tools /\ StartPodAnswer(FALSE)
    /\ UNCHANGED <<pod, procs, files>> /\ Others

DeletePod ==
    /\ call.op = "delete" /\ call.at = "delete"
    /\ \/ pod # "absent" /\ pod' = "terminating" /\ (GoOn("deleted") \/ DeletePodAnswer(FALSE))
       \/ UNCHANGED pod /\ DeletePodAnswer(FALSE)
    /\ UNCHANGED <<tools, procs, files>> /\ Others

\* A pod that is not gone in time is answered as a failed start.
AwaitDeletion ==
    /\ call.op = "delete" /\ call.at = "deleted"
    /\ \/ pod = "absent" /\ DeletePodAnswer(TRUE)
       \/ StartPodAnswer(FALSE)
    /\ UNCHANGED podVars /\ Others

-----------------------------------------------------------------------------
(* handleStartCapture, handleStopCapture and handleDownloadCaptureFile      *)

\* tcpdump is put in the background of a shell that ends well in any case.
ExecCapture ==
    /\ call.op = "start" /\ call.at = "exec"
    /\ \/ /\ Reachable
          /\ procs' = IF tools THEN procs \cup {call.capture} ELSE procs
          /\ StartAnswer(TRUE) \/ StartAnswer(FALSE)
       \/ UNCHANGED procs /\ StartAnswer(FALSE)
    /\ UNCHANGED <<pod, tools, files>> /\ Others

FindCapture ==
    /\ call.op = "stop" /\ call.at = "procs"
    /\ \/ Reachable /\ tools /\ call.capture \in procs /\ GoOn("kill")
       \/ StopAnswer(FALSE)
    /\ UNCHANGED podVars /\ Others

\* The process may take a while to end after the signal.
KillCapture ==
    /\ call.op = "stop" /\ call.at = "kill"
    /\ \/ /\ Reachable
          /\ procs' \in {procs, procs \ {call.capture}}
          /\ GoOn("files") \/ StopAnswer(FALSE)
       \/ UNCHANGED procs /\ StopAnswer(FALSE)
    /\ UNCHANGED <<pod, tools, files>> /\ Others

FindFile ==
    /\ call.op = "stop" /\ call.at = "files"
    /\ \/ Reachable /\ stray = "none" /\ call.capture \in files /\ StopAnswer(TRUE)
       \/ StopAnswer(FALSE)
    /\ UNCHANGED podVars /\ Others

DownloadedStatus(ok) == IF ok THEN "Downloaded" ELSE "Completed"

\* updateCompletedCapture: nothing, where the capture is no longer listed.
SetCapture(c, x) == IF listed[c] = "none" THEN listed ELSE [listed EXCEPT ![c] = x]

\* The file was copied, or the dialog was closed, or the copy failed.
DownloadEnds(c) ==
    /\ downloads[c] > 0
    /\ downloads' = [downloads EXCEPT ![c] = @ - 1]
    /\ \E ok \in BOOLEAN :
          /\ ok => Reachable /\ c \in files
          /\ listed' = SetCapture(c, DownloadedStatus(ok))
    /\ UNCHANGED <<podVars, stray, drawn, call, selected, status, current>>

-----------------------------------------------------------------------------
(* The page                                                                 *)

\* The user picks the node, or another one.
SelectNode ==
    /\ selected' = ~selected
    /\ UNCHANGED <<podVars, stray, drawn, call, downloads, page>>

\* prepareData: the selected node is checked when nothing is known of it.
PostCheck ==
    /\ selected /\ status = "Unknown"
    /\ status' = "Checking"
    /\ call' = Call("check", "pods", None, {})
    /\ UNCHANGED <<podVars, stray, drawn, downloads, selected, current, listed>>

ClickCreate ==
    /\ selected /\ status = "Clean"
    /\ status' = "CreatingDebugPod"
    /\ call' = Call("create", "apply", None, {})
    /\ UNCHANGED <<podVars, stray, drawn, downloads, selected, current, listed>>

ClickDelete ==
    /\ selected /\ status = "DebugPodRunning"
    /\ status' = "DeletingDebugPod"
    /\ call' = Call("delete", "delete", None, {})
    /\ UNCHANGED <<podVars, stray, drawn, downloads, selected, current, listed>>

\* The name is the time in seconds, later than that of the last capture.
ClickStart ==
    /\ selected /\ status = "DebugPodRunning" /\ drawn < MaxCaptures
    /\ drawn' = drawn + 1
    /\ status' = "CaptureStarting"
    /\ current' = drawn'
    /\ call' = Call("start", "exec", drawn', {})
    /\ UNCHANGED <<podVars, stray, downloads, selected, listed>>

ClickStop ==
    /\ selected /\ status = "CaptureRunning" /\ current # None
    /\ status' = "CaptureStopping"
    /\ call' = Call("stop", "procs", current, {})
    /\ UNCHANGED <<podVars, stray, drawn, downloads, selected, current, listed>>

ClickDownload(c) ==
    /\ selected /\ Shown /\ listed[c] = "Completed"
    /\ downloads[c] < MaxDownloads
    /\ downloads' = [downloads EXCEPT ![c] = @ + 1]
    /\ listed' = [listed EXCEPT ![c] = "Downloading"]
    /\ UNCHANGED <<podVars, stray, drawn, call, selected, status, current>>

-----------------------------------------------------------------------------
(* Specification                                                            *)

Cluster == PodReady \/ PodGone \/ \E c \in Captures : FileAppears(c) \/ CaptureEnds(c)

Handler ==
    \/ CheckPods \/ CheckReady \/ CheckProcs \/ CheckFiles \/ CapturesThrow
    \/ ApplyPod \/ AwaitPod \/ InstallTools \/ DeletePod \/ AwaitDeletion
    \/ ExecCapture \/ FindCapture \/ KillCapture \/ FindFile

User ==
    \/ SelectNode \/ ClickCreate \/ ClickDelete \/ ClickStart \/ ClickStop
    \/ \E c \in Captures : ClickDownload(c)

Next == Cluster \/ Handler \/ PostCheck \/ User \/ \E c \in Captures : DownloadEnds(c)

Spec == Init /\ [][Next]_vars

\* kubectl commands end, the dialog is answered, and the page renders.
DumpFairness ==
    /\ WF_vars(Handler) /\ WF_vars(PostCheck)
    /\ \A c \in Captures : WF_vars(DownloadEnds(c))

-----------------------------------------------------------------------------
(* Properties                                                               *)

\* A spinner of the node stands for the handler that will end it, and a page without one has
\* no handler under way (the answers are spread over five response messages and two reducers
\* answer for another handler), unless a file out of place has thrown the handler.
SpinnerIsBacked ==
    \/ stray = "thrown"
    \/ call.op = (CASE status = "Checking" -> "check" [] status = "CreatingDebugPod" -> "create"
                    [] status = "DeletingDebugPod" -> "delete"
                    [] status = "CaptureStarting" -> "start"
                    [] status = "CaptureStopping" -> "stop" [] OTHER -> "none")

\* A capture that is shown as running can be stopped: handleStopCapture returns early without
\* its name.
RunningIsNamed == status = "CaptureRunning" => current # None

\* Captures on offer have their file in the pod, whatever pods came and went before.
ListedCapturesExist ==
    pod = "ready" /\ Shown => \A c \in Captures : listed[c] # "none" => c \in files

\* The capture being stopped is not on the list it will be appended to.
StoppedCaptureIsNew == call.op = "stop" => listed[call.capture] = "none"

\* The page of TCP dump can stop what it shows as running, and lists each file of the debug pod
\* once.
CapturesAreTrue == RunningIsNamed /\ ListedCapturesExist /\ StoppedCaptureIsNew

\* A download shown as under way is, also after the list was read again meanwhile.
DownloadIsBacked == \A c \in Captures : listed[c] = "Downloading" => downloads[c] > 0

\* Whatever command fails, the page of a node comes back with its buttons; only a file out of
\* place, on which the handler throws, keeps them.
ButtonsComeBack == (status \in Busy) ~> (status \notin Busy \/ stray = "thrown")
=============================================================================
