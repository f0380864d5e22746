------------------------------ MODULE TcpDumpProofs ------------------------------
(***************************************************************************)
(* What the TCP capture page shows of a node is right for every number of  *)
(* captures and downloads.                                                 *)
(***************************************************************************)
EXTENDS TcpDump, TLAPS

(* A handler that starts or stops a capture does so for the one the page   *)
(* names, which is not listed yet.                                         *)
CallIsNamed ==
    call.op \in {"start", "stop"} =>
        /\ call.capture = current
        /\ current # None
        /\ listed[current] = "none"

RunningIsNew == status = "CaptureRunning" => listed[current] = "none"

(* Only captures that were drawn run, have a file, are named or are listed. *)
OnlyDrawn ==
    /\ files \subseteq 1 .. drawn
    /\ procs \subseteq 1 .. drawn
    /\ call.found \subseteq 1 .. drawn
    /\ current # None => current \in 1 .. drawn
    /\ \A c \in Captures : listed[c] # "none" => c <= drawn

(* A page that offers to create a pod, or waits for one, lists nothing.    *)
CleanListsNone ==
    status \in {"Clean", "CreatingDebugPod"} => \A c \in Captures : listed[c] = "none"

(* ListedCapturesExist, also of a pod that is starting or being deleted.   *)
ListedExist ==
    pod # "absent" /\ Shown => \A c \in Captures : listed[c] # "none" => c \in files

(* A handler that was thrown has left the spinner of a check or of a stop. *)
ThrownRests ==
    stray = "thrown" => call.op = "none" /\ status \in {"Checking", "CaptureStopping"}

IInv ==
    /\ TypeOK
    /\ SpinnerIsBacked
    /\ ThrownRests
    /\ RunningIsNamed
    /\ DownloadIsBacked
    /\ CallIsNamed
    /\ RunningIsNew
    /\ OnlyDrawn
    /\ CleanListsNone
    /\ ListedExist
-----------------------------------------------------------------------------
(* The effect of a handler's step                                           *)

Steps == {"none", "pods", "apply", "ready", "install", "delete", "deleted", "exec",
          "procs", "kill", "files"}

(* The handler goes on to its next command.                                 *)
NextCommand ==
    /\ \E p \in Steps, found \in {call.found, procs} :
          call' = [call EXCEPT !.at = p, !.found = found]
    /\ UNCHANGED page

(* The check answers with no list, or with one that it read from the pod.   *)
Checks ==
    /\ call.op = "check"
    /\ \/ CheckAnswer(FALSE, None, {})
       \/ \E running \in call.found \cup {None} : CheckAnswer(TRUE, running, {})
       \/ \E running \in call.found \cup {None} : CheckAnswer(TRUE, running, files \ call.found)

Creates == call.op = "create" /\ \E ok \in BOOLEAN : StartPodAnswer(ok)

Deletes ==
    call.op = "delete" /\ ((\E ok \in BOOLEAN : DeletePodAnswer(ok)) \/ StartPodAnswer(FALSE))

Starts == call.op = "start" /\ \E ok \in BOOLEAN : StartAnswer(ok)

Stops ==
    /\ call.op = "stop"
    /\ StopAnswer(FALSE) \/ (call.capture \in files /\ StopAnswer(TRUE))

(* Only an apply makes a pod, only a start adds a process, and no handler   *)
(* touches the files.                                                       *)
PodEffect ==
    /\ \/ pod' = pod
       \/ pod # "absent" /\ pod' = "terminating"
       \/ call.op = "create" /\ pod' = "starting"
    /\ tools' \in BOOLEAN
    /\ files' = files
    /\ \/ procs' \subseteq procs
       \/ call.op = "start" /\ procs' = procs \cup {call.capture}

HandlerEffect ==
    \/ CapturesThrow
    \/ /\ PodEffect
       /\ Others
       /\ NextCommand \/ Checks \/ Creates \/ Deletes \/ Starts \/ Stops

LEMMA HandlerEffects == ASSUME TypeOK, Handler PROVE HandlerEffect
<1> USE DEF TypeOK, PodEffect, podVars
<1>1. ASSUME NEW p \in Steps, GoOn(p) PROVE NextCommand
    BY <1>1 DEF GoOn, NextCommand
<1>2. CASE CheckPods
    BY <1>1, <1>2 DEF CheckPods, HandlerEffect, Steps, Checks
<1>3. CASE CheckReady
    BY <1>1, <1>3 DEF CheckReady, HandlerEffect, Steps, Checks
<1>4. CASE CheckProcs
  <2>1. CASE call' = [call EXCEPT !.at = "files", !.found = procs] /\ UNCHANGED page
    <3>1. NextCommand
        BY <2>1 DEF NextCommand, Steps
    <3>2. QED
        BY <1>4, <3>1 DEF CheckProcs, HandlerEffect
  <2>2. CASE CheckAnswer(TRUE, None, {})
      BY <1>4, <2>2 DEF CheckProcs, HandlerEffect, Checks
  <2>3. QED
      BY <1>4, <2>1, <2>2 DEF CheckProcs
<1>5. CASE CheckFiles
  <2>1. PICK running \in IF call.found = {} THEN {None} ELSE call.found :
          CheckAnswer(TRUE, running, Completed) \/ CheckAnswer(TRUE, running, {})
      BY <1>5 DEF CheckFiles
  <2>2. running \in call.found \cup {None}
      BY <2>1
  <2>3. QED
      BY <1>5, <2>1, <2>2 DEF CheckFiles, HandlerEffect, Checks, Completed
<1>6. CASE ApplyPod
    BY <1>1, <1>6 DEF ApplyPod, HandlerEffect, Steps, Creates
<1>7. CASE AwaitPod
    BY <1>1, <1>7 DEF AwaitPod, HandlerEffect, Steps, Creates
<1>8. CASE InstallTools
    BY <1>8 DEF InstallTools, HandlerEffect, Creates
<1>9. CASE DeletePod
    BY <1>1, <1>9 DEF DeletePod, HandlerEffect, Steps, Deletes
<1>10. CASE AwaitDeletion
    BY <1>10 DEF AwaitDeletion, HandlerEffect, Deletes
<1>11. CASE ExecCapture
    BY <1>11 DEF ExecCapture, HandlerEffect, Starts
<1>12. CASE FindCapture
    BY <1>1, <1>12 DEF FindCapture, HandlerEffect, Steps, Stops
<1>13. CASE KillCapture
    BY <1>1, <1>13 DEF KillCapture, HandlerEffect, Steps, Stops
<1>14. CASE FindFile
    BY <1>14 DEF FindFile, HandlerEffect, Stops
<1>15. CASE CapturesThrow
    BY <1>15 DEF HandlerEffect
<1>16. QED
    BY <1>15, <1>2, <1>3, <1>4, <1>5, <1>6, <1>7, <1>8, <1>9, <1>10, <1>11, <1>12, <1>13, <1>14
       DEF Handler
-----------------------------------------------------------------------------
(* The invariant is inductive                                               *)

(* SpinnerIsBacked, one status at a time.                                   *)
LEMMA Spinners ==
    ASSUME TypeOK, SpinnerIsBacked, ThrownRests
    PROVE  /\ call.op = "check" => status = "Checking"
           /\ call.op = "create" => status = "CreatingDebugPod"
           /\ call.op = "delete" => status = "DeletingDebugPod"
           /\ call.op = "start" => status = "CaptureStarting"
           /\ call.op = "stop" => status = "CaptureStopping"
PROOF BY DEF TypeOK, SpinnerIsBacked, ThrownRests

(* The numbers of two captures can be compared, and None is none of them.   *)
LEMMA CaptureFacts ==
    /\ MaxCaptures \in Nat /\ MaxDownloads \in Nat
    /\ Captures \subseteq Nat
    /\ None \notin Captures
PROOF BY BoundsAssumption, FreshNone DEF Captures

(* What the cluster does by itself concerns the pod only.                   *)
LEMMA ClusterStep == ASSUME IInv, Cluster PROVE IInv'
<1> USE DEF IInv
<1>1. /\ UNCHANGED Panel
      /\ pod' = pod \/ pod' = "absent" \/ (pod = "starting" /\ pod' = "ready")
      /\ tools' \in BOOLEAN
      /\ procs' \subseteq procs
      /\ files' \subseteq files \cup procs
      /\ pod' # "absent" => files \subseteq files'
      /\ stray' = stray \/ (stray = "there" /\ stray' = "none")
    BY DEF Cluster, PodReady, PodGone, FileAppears, CaptureEnds, TypeOK
<1>2. TypeOK'
    BY <1>1 DEF TypeOK, Panel, page
<1>3. OnlyDrawn'
    BY <1>1 DEF OnlyDrawn, Panel, page
<1>4. ListedExist'
    BY <1>1 DEF ListedExist, Shown, Panel, page
<1>5. QED
    BY <1>1, <1>2, <1>3, <1>4
       DEF Panel, page, SpinnerIsBacked, ThrownRests, RunningIsNamed, DownloadIsBacked,
           CallIsNamed, RunningIsNew, CleanListsNone

(* A handler leaves a pod of the type, with captures that were drawn.       *)
LEMMA PodTypes ==
    ASSUME IInv, PodEffect
    PROVE  /\ pod' \in {"absent", "starting", "ready", "terminating"}
           /\ tools' \in BOOLEAN
           /\ procs' \in SUBSET Captures /\ procs' \subseteq 1 .. drawn
           /\ files' = files
<1>1. call.op = "start" => call.capture \in Captures /\ call.capture \in 1 .. drawn
    BY DEF IInv, TypeOK, CallIsNamed, OnlyDrawn
<1>2. QED
    BY <1>1 DEF IInv, TypeOK, OnlyDrawn, PodEffect

(* A handler that goes on changes nothing that the page depends on.         *)
LEMMA NextCommandStep == ASSUME IInv, PodEffect, Others, NextCommand PROVE IInv'
<1> USE DEF IInv
<1>1. /\ call' \in [op : {"none", "check", "create", "delete", "start", "stop"}, at : Steps,
                    capture : Captures \cup {None}, found : SUBSET Captures]
      /\ call'.op = call.op /\ call'.capture = call.capture
      /\ call'.found \in {call.found, procs}
    BY DEF NextCommand, TypeOK, Steps
<1>2. TypeOK'
    BY <1>1, PodTypes DEF TypeOK, Steps, Others, NextCommand, page
<1>3. UNCHANGED <<stray, drawn, downloads, selected, page, files>>
    BY DEF Others, NextCommand, PodEffect
<1>4. SpinnerIsBacked' /\ ThrownRests' /\ CallIsNamed'
    BY <1>1, <1>3 DEF SpinnerIsBacked, ThrownRests, CallIsNamed, page
<1>5. OnlyDrawn'
    BY <1>1, <1>3, PodTypes DEF OnlyDrawn, page
<1>6. ListedExist'
  <2>1. pod' # "absent" /\ Shown' => pod # "absent" /\ Shown
      BY <1>3, Spinners DEF PodEffect, Shown, page
  <2>2. QED
      BY <1>3, <2>1 DEF ListedExist, page
<1>7. QED
    BY <1>2, <1>3, <1>4, <1>5, <1>6
       DEF page, RunningIsNamed, DownloadIsBacked, RunningIsNew, CleanListsNone

(* A handler that answers leaves its call, and what it read, behind.        *)
LEMMA AnswerStep ==
    ASSUME IInv, PodEffect, Others, call' = NoCall,
           status' \in Statuses \ Busy,
           current' \in Captures \cup {None},
           current' # None => current' \in 1 .. drawn,
           listed' \in [Captures -> CaptureStatuses \cup {"none"}],
           \A c \in Captures : listed'[c] = "Downloading" => listed[c] = "Downloading",
           \A c \in Captures : listed'[c] # "none" => c <= drawn,
           RunningIsNamed', RunningIsNew', CleanListsNone', ListedExist',
           call.op # "none"
    PROVE  IInv'
<1> USE DEF IInv
<1>1. UNCHANGED <<stray, drawn, downloads, selected, files>> /\ stray # "thrown"
    BY DEF Others, PodEffect, ThrownRests
<1>2. TypeOK'
  <2>1. call' \in [op : {"none", "check", "create", "delete", "start", "stop"}, at : Steps,
                    capture : Captures \cup {None}, found : SUBSET Captures]
      BY DEF NoCall, Call, Steps
  <2>2. QED
      BY <1>1, <2>1, PodTypes DEF TypeOK, Steps
<1>3. SpinnerIsBacked' /\ ThrownRests' /\ CallIsNamed'
    BY <1>1 DEF SpinnerIsBacked, ThrownRests, CallIsNamed, NoCall, Call, Statuses, Busy
<1>4. OnlyDrawn'
    BY <1>1, PodTypes DEF OnlyDrawn, NoCall, Call
<1>5. DownloadIsBacked'
    BY <1>1 DEF DownloadIsBacked
<1>6. QED
    BY <1>2, <1>3, <1>4, <1>5
LEMMA ChecksStep == ASSUME IInv, PodEffect, Others, Checks PROVE IInv'
<1> USE DEF IInv
<1>1. PICK running \in call.found \cup {None}, s \in {{}, files \ call.found}, up \in BOOLEAN :
        /\ CheckAnswer(up, running, s)
        /\ ~up => running = None /\ s = {}
    BY DEF Checks
<1>2. /\ call' = NoCall
      /\ status' = (IF ~up THEN "Clean"
                    ELSE IF running = None THEN "DebugPodRunning" ELSE "CaptureRunning")
      /\ current' = running
      /\ listed' = [c \in Captures |-> IF c \in s THEN "Completed" ELSE "none"]
    BY <1>1 DEF CheckAnswer
<1>3. /\ running # None => running \in 1 .. drawn
      /\ running \in Captures \cup {None}
      /\ running \notin s
    BY CaptureFacts DEF OnlyDrawn, TypeOK
<1>4. /\ status' \in Statuses \ Busy
      /\ listed' \in [Captures -> CaptureStatuses \cup {"none"}]
    BY <1>2 DEF Statuses, Busy, CaptureStatuses
<1>5. \A c \in Captures : listed'[c] # "none" => c <= drawn
    BY <1>2, CaptureFacts DEF OnlyDrawn, TypeOK
<1>6. \A c \in Captures : listed'[c] = "Downloading" => listed[c] = "Downloading"
    BY <1>2
<1>7. RunningIsNamed' /\ RunningIsNew'
    BY <1>2, <1>3, CaptureFacts DEF RunningIsNamed, RunningIsNew
<1>8. CleanListsNone'
    BY <1>1, <1>2 DEF CleanListsNone
<1>9. ListedExist'
    BY <1>2 DEF ListedExist, PodEffect
<1>10. QED
    BY <1>2, <1>3, <1>4, <1>5, <1>6, <1>7, <1>8, <1>9, AnswerStep DEF Checks

LEMMA CreatesStep == ASSUME IInv, PodEffect, Others, Creates PROVE IInv'
<1> USE DEF IInv
<1>1. /\ call' = NoCall
      /\ status' \in {"DebugPodRunning", "Unknown"}
      /\ UNCHANGED <<current, listed>>
    BY DEF Creates, StartPodAnswer
<1>2. \A c \in Captures : listed[c] = "none"
    BY Spinners DEF Creates, CleanListsNone
<1>3. /\ RunningIsNamed' /\ RunningIsNew' /\ CleanListsNone' /\ ListedExist'
      /\ status' \in Statuses \ Busy
    BY <1>1, <1>2
       DEF RunningIsNamed, RunningIsNew, CleanListsNone, ListedExist, Statuses, Busy
<1>4. QED
    BY <1>1, <1>2, <1>3, AnswerStep DEF Creates, TypeOK, OnlyDrawn

LEMMA DeletesStep == ASSUME IInv, PodEffect, Others, Deletes PROVE IInv'
<1> USE DEF IInv
<1>1. /\ call' = NoCall
      /\ \/ status' = "Unknown" /\ UNCHANGED <<current, listed>>
         \/ status' \in {"Clean", "Unknown"} /\ current' = None /\ listed' = NoneListed
    BY DEF Deletes, StartPodAnswer, DeletePodAnswer
<1>2. NoneListed \in [Captures -> CaptureStatuses \cup {"none"}]
      /\ \A c \in Captures : NoneListed[c] = "none"
    BY DEF NoneListed
<1>3. /\ RunningIsNamed' /\ RunningIsNew' /\ CleanListsNone' /\ ListedExist'
      /\ status' \in Statuses \ Busy
    BY <1>1, <1>2
       DEF RunningIsNamed, RunningIsNew, CleanListsNone, ListedExist, Shown, Statuses, Busy
<1>4. QED
    BY <1>1, <1>2, <1>3, AnswerStep DEF Deletes, TypeOK, OnlyDrawn

LEMMA CaptureStartsStep == ASSUME IInv, PodEffect, Others, Starts PROVE IInv'
<1> USE DEF IInv
<1>1. /\ call' = NoCall
      /\ \/ status' = "CaptureRunning" /\ UNCHANGED current
         \/ status' = "DebugPodRunning" /\ current' = None
      /\ UNCHANGED listed
    BY DEF Starts, StartAnswer
<1>2. current # None /\ listed[current] = "none"
    BY DEF Starts, CallIsNamed
<1>3. pod' # "absent" => pod # "absent"
    BY DEF PodEffect, Starts
<1>4. /\ RunningIsNamed' /\ RunningIsNew' /\ CleanListsNone'
      /\ status' \in Statuses \ Busy
    BY <1>1, <1>2 DEF RunningIsNamed, RunningIsNew, CleanListsNone, Statuses, Busy
<1>5. ListedExist'
    BY <1>1, <1>3, Spinners DEF ListedExist, Shown, PodEffect, Starts
<1>6. QED
    BY <1>1, <1>4, <1>5, AnswerStep DEF Starts, TypeOK, OnlyDrawn

LEMMA StopsStep == ASSUME IInv, PodEffect, Others, Stops PROVE IInv'
<1> USE DEF IInv
<1>1. /\ call' = NoCall
      /\ UNCHANGED current
      /\ \/ status' = "Unknown" /\ UNCHANGED listed
         \/ /\ call.capture \in files
            /\ status' = "DebugPodRunning"
            /\ listed' = [listed EXCEPT ![call.capture] = "Completed"]
    BY DEF Stops, StopAnswer
<1>2. call.capture = current /\ current \in 1 .. drawn /\ current \in Captures
    BY DEF Stops, CallIsNamed, OnlyDrawn, TypeOK
<1>3. /\ listed' \in [Captures -> CaptureStatuses \cup {"none"}]
      /\ \A c \in Captures : listed'[c] = listed[c]
              \/ (c = current /\ c \in files /\ listed'[c] = "Completed")
    BY <1>1, <1>2 DEF TypeOK, CaptureStatuses
<1>4. pod' # "absent" => pod # "absent"
    BY DEF PodEffect, Stops
<1>5. /\ RunningIsNamed' /\ RunningIsNew' /\ CleanListsNone'
      /\ status' \in Statuses \ Busy
    BY <1>1 DEF RunningIsNamed, RunningIsNew, CleanListsNone, Statuses, Busy
<1>6. ListedExist'
    BY <1>1, <1>3, <1>4, Spinners DEF ListedExist, Shown, PodEffect, Stops
<1>7. \A c \in Captures : listed'[c] # "none" => c <= drawn
    BY <1>2, <1>3, CaptureFacts DEF OnlyDrawn, TypeOK
<1>8. QED
    BY <1>1, <1>2, <1>3, <1>5, <1>6, <1>7, AnswerStep DEF Stops, TypeOK, OnlyDrawn

(* A handler that is thrown leaves all as it is, the spinner included.      *)
LEMMA ThrowStep == ASSUME IInv, CapturesThrow PROVE IInv'
<1> USE DEF IInv
<1>1. /\ UNCHANGED <<podVars, drawn, downloads, selected, page>>
      /\ call' = NoCall /\ stray' = "thrown"
      /\ status \in {"Checking", "CaptureStopping"}
    BY Spinners DEF CapturesThrow
<1>2. call' \in [op : {"none", "check", "create", "delete", "start", "stop"}, at : Steps,
                 capture : Captures \cup {None}, found : SUBSET Captures]
    BY <1>1 DEF NoCall, Call, Steps
<1>3. TypeOK'
    BY <1>1, <1>2 DEF TypeOK, Steps, podVars, page
<1>4. SpinnerIsBacked' /\ ThrownRests' /\ CallIsNamed'
    BY <1>1 DEF SpinnerIsBacked, ThrownRests, CallIsNamed, NoCall, Call, page
<1>5. OnlyDrawn'
    BY <1>1 DEF OnlyDrawn, NoCall, Call, podVars, page
<1>6. QED
    BY <1>1, <1>3, <1>4, <1>5
       DEF RunningIsNamed, DownloadIsBacked, RunningIsNew, CleanListsNone, ListedExist, Shown,
           podVars, page

LEMMA HandlersStep == ASSUME IInv, Handler PROVE IInv'
PROOF BY HandlerEffects, NextCommandStep, ChecksStep, CreatesStep, DeletesStep, CaptureStartsStep,
         StopsStep, ThrowStep DEF HandlerEffect, IInv
(* A click, or the check of a new node, calls the handler of its spinner.   *)
LEMMA PageCalls ==
    ASSUME IInv, NEW op \in {"check", "create", "delete", "start", "stop"},
           NEW p \in Steps, NEW c \in Captures \cup {None},
           call' = Call(op, p, c, {}),
           UNCHANGED <<podVars, stray, downloads, selected, listed>>,
           status \notin {"Checking", "CaptureStopping"},
           drawn' \in 0 .. MaxCaptures, drawn <= drawn',
           current' \in Captures \cup {None}, current' # None => current' \in 1 .. drawn',
           status' \in Busy,
           SpinnerIsBacked', CallIsNamed', CleanListsNone', ListedExist'
    PROVE  IInv'
<1> USE DEF IInv
<1>1. call' \in [op : {"none", "check", "create", "delete", "start", "stop"}, at : Steps,
                 capture : Captures \cup {None}, found : SUBSET Captures]
    BY DEF Call
<1>2. TypeOK'
    BY <1>1 DEF TypeOK, Steps, podVars, Statuses
<1>3. OnlyDrawn'
  <2>1. drawn \in Nat /\ drawn' \in Nat /\ 1 .. drawn \subseteq 1 .. drawn'
      BY CaptureFacts DEF TypeOK
  <2>2. \A c1 \in Captures : listed[c1] # "none" => c1 <= drawn'
      BY <2>1, CaptureFacts DEF OnlyDrawn
  <2>3. call'.found = {}
      BY DEF Call
  <2>4. QED
      BY <2>1, <2>2, <2>3 DEF OnlyDrawn, podVars
<1>4. RunningIsNamed' /\ RunningIsNew' /\ DownloadIsBacked' /\ ThrownRests'
    BY DEF RunningIsNamed, RunningIsNew, DownloadIsBacked, ThrownRests, Busy
<1>5. QED
    BY <1>2, <1>3, <1>4

LEMMA ClickStep ==
    ASSUME IInv, PostCheck \/ ClickCreate \/ ClickDelete \/ ClickStart \/ ClickStop
    PROVE  IInv'
<1> USE DEF IInv
<1>1. /\ drawn \in 0 .. MaxCaptures /\ drawn <= drawn
      /\ current \in Captures \cup {None} /\ None \in Captures \cup {None}
      /\ current # None => current \in 1 .. drawn
    BY CaptureFacts DEF TypeOK, OnlyDrawn
<1>2. CASE PostCheck
  <2>1. SpinnerIsBacked' /\ CallIsNamed' /\ CleanListsNone' /\ ListedExist' /\ status' \in Busy
      BY <1>2 DEF PostCheck, SpinnerIsBacked, CallIsNamed, CleanListsNone, ListedExist, Shown,
                  Call, Busy
  <2>2. QED
      BY <1>1, <1>2, <2>1, PageCalls DEF PostCheck, Steps
<1>3. CASE ClickCreate
  <2>1. SpinnerIsBacked' /\ CallIsNamed' /\ CleanListsNone' /\ ListedExist' /\ status' \in Busy
      BY <1>3 DEF ClickCreate, SpinnerIsBacked, CallIsNamed, CleanListsNone, ListedExist, Shown,
                  Call, Busy
  <2>2. QED
      BY <1>1, <1>3, <2>1, PageCalls DEF ClickCreate, Steps
<1>4. CASE ClickDelete
  <2>1. SpinnerIsBacked' /\ CallIsNamed' /\ CleanListsNone' /\ ListedExist' /\ status' \in Busy
      BY <1>4 DEF ClickDelete, SpinnerIsBacked, CallIsNamed, CleanListsNone, ListedExist, Shown,
                  Call, Busy
  <2>2. QED
      BY <1>1, <1>4, <2>1, PageCalls DEF ClickDelete, Steps
<1>5. CASE ClickStop
  <2>1. /\ SpinnerIsBacked' /\ CleanListsNone' /\ status' \in Busy
        /\ call'.capture = current /\ listed' = listed /\ current' = current
      BY <1>5 DEF ClickStop, SpinnerIsBacked, CleanListsNone, Call, Busy
  <2>2. CallIsNamed'
      BY <1>5, <2>1 DEF ClickStop, CallIsNamed, RunningIsNew
  <2>3. ListedExist'
      BY <1>5 DEF ClickStop, ListedExist, Shown, podVars
  <2>4. QED
      BY <1>1, <1>5, <2>1, <2>2, <2>3, PageCalls DEF ClickStop, Steps
<1>6. CASE ClickStart
  <2>1. /\ drawn' = drawn + 1 /\ current' = drawn' /\ call' = Call("start", "exec", drawn', {})
        /\ drawn < MaxCaptures /\ status = "DebugPodRunning" /\ status' = "CaptureStarting"
        /\ UNCHANGED <<podVars, stray, downloads, selected, listed>>
      BY <1>6 DEF ClickStart
  <2>2. /\ drawn' \in 0 .. MaxCaptures /\ drawn <= drawn' /\ ~(drawn' <= drawn)
        /\ drawn' \in Captures /\ drawn' \in 1 .. drawn'
      BY <1>1, <2>1, CaptureFacts DEF Captures
  <2>3. listed[drawn'] = "none"
      BY <2>2 DEF OnlyDrawn
  <2>4. CallIsNamed'
      BY <2>1, <2>2, <2>3, CaptureFacts DEF CallIsNamed, Call
  <2>5. SpinnerIsBacked' /\ CleanListsNone' /\ status' \in Busy
      BY <2>1 DEF SpinnerIsBacked, CleanListsNone, Call, Busy
  <2>6. ListedExist'
      BY <2>1 DEF ListedExist, Shown, podVars
  <2>7. QED
      BY <2>1, <2>2, <2>4, <2>5, <2>6, PageCalls DEF Steps
<1>7. QED
    BY <1>2, <1>3, <1>4, <1>5, <1>6

(* A download begins on a completed capture, and ends on whatever the list  *)
(* says of it by then.                                                      *)
LEMMA DownloadStep ==
    ASSUME IInv, NEW c \in Captures, ClickDownload(c) \/ DownloadEnds(c)
    PROVE  IInv'
<1> USE DEF IInv
<1>1. /\ UNCHANGED <<podVars, stray, drawn, call, selected, status, current>>
      /\ downloads' \in [Captures -> 0 .. MaxDownloads]
      /\ \A d \in Captures \ {c} : downloads'[d] = downloads[d]
      /\ listed' \in [Captures -> CaptureStatuses \cup {"none"}]
      /\ \A d \in Captures : listed'[d] = listed[d]
             \/ (d = c /\ listed[c] # "none" /\ listed'[c] # "none")
      /\ listed'[c] = "Downloading" => downloads'[c] > 0
  <2>1. downloads[c] \in Nat /\ downloads[c] <= MaxDownloads /\ MaxDownloads \in Nat
      BY CaptureFacts DEF TypeOK
  <2>2. CASE ClickDownload(c)
      BY <2>1, <2>2 DEF ClickDownload, TypeOK, CaptureStatuses
  <2>3. CASE DownloadEnds(c)
    <3>1. PICK ok \in BOOLEAN : listed' = SetCapture(c, DownloadedStatus(ok))
        BY <2>3 DEF DownloadEnds
    <3>2. DownloadedStatus(ok) \in {"Downloaded", "Completed"}
        BY DEF DownloadedStatus
    <3>3. /\ listed' \in [Captures -> CaptureStatuses \cup {"none"}]
          /\ listed[c] = "none" => listed' = listed
          /\ listed[c] # "none" => listed'[c] \in {"Downloaded", "Completed"}
          /\ \A d \in Captures \ {c} : listed'[d] = listed[d]
        BY <3>1, <3>2 DEF SetCapture, TypeOK, CaptureStatuses
    <3>4. /\ downloads' \in [Captures -> 0 .. MaxDownloads]
          /\ \A d \in Captures \ {c} : downloads'[d] = downloads[d]
          /\ UNCHANGED <<podVars, stray, drawn, call, selected, status, current>>
        BY <2>1, <2>3 DEF DownloadEnds, TypeOK
    <3>5. QED
        BY <3>3, <3>4
  <2>4. QED
      BY <2>2, <2>3
<1>2. TypeOK'
    BY <1>1 DEF TypeOK, podVars
<1>3. \A d \in Captures : listed'[d] = "none" <=> listed[d] = "none"
    BY <1>1
<1>4. DownloadIsBacked'
    BY <1>1 DEF DownloadIsBacked
<1>5. /\ CallIsNamed' /\ RunningIsNew' /\ CleanListsNone' /\ RunningIsNamed'
      /\ SpinnerIsBacked' /\ ThrownRests'
    BY <1>1, <1>3
       DEF CallIsNamed, RunningIsNew, CleanListsNone, RunningIsNamed, SpinnerIsBacked,
           ThrownRests, TypeOK
<1>6. OnlyDrawn' /\ ListedExist'
    BY <1>1, <1>3 DEF OnlyDrawn, ListedExist, Shown, podVars
<1>7. QED
    BY <1>2, <1>4, <1>5, <1>6

-----------------------------------------------------------------------------
(* The theorems                                                             *)

LEMMA Starting == Init => IInv
<1> SUFFICES ASSUME Init PROVE IInv
    OBVIOUS
<1>1. /\ drawn \in 0 .. MaxCaptures
      /\ files \subseteq 1 .. drawn /\ procs \subseteq 1 .. drawn
      /\ 1 .. drawn \subseteq Captures
    BY CaptureFacts DEF Init, Captures
<1>2. NoCall \in [op : {"none", "check", "create", "delete", "start", "stop"}, at : Steps,
                  capture : Captures \cup {None}, found : SUBSET Captures]
    BY DEF NoCall, Call, Steps
<1>3. TypeOK
  <2>1. /\ downloads \in [Captures -> 0 .. MaxDownloads]
        /\ listed \in [Captures -> CaptureStatuses \cup {"none"}]
      BY CaptureFacts DEF Init, NoneListed
  <2>2. files \in SUBSET Captures /\ procs \in SUBSET Captures
      BY <1>1
  <2>3. tools \in BOOLEAN /\ selected \in BOOLEAN
      BY DEF Init
  <2>4. QED
      BY <1>1, <1>2, <2>1, <2>2, <2>3 DEF Init, TypeOK, Steps, Statuses
<1>4. OnlyDrawn
    BY <1>1 DEF Init, OnlyDrawn, NoneListed, NoCall, Call
<1>5. QED
    BY <1>3, <1>4
       DEF Init, IInv, SpinnerIsBacked, ThrownRests, RunningIsNamed, DownloadIsBacked, CallIsNamed,
           RunningIsNew, CleanListsNone, ListedExist, Shown, NoneListed, NoCall, Call

LEMMA Stepping == IInv /\ [Next]_vars => IInv'
<1> SUFFICES ASSUME IInv, [Next]_vars PROVE IInv'
    OBVIOUS
<1>1. CASE Cluster
    BY <1>1, ClusterStep
<1>2. CASE Handler
    BY <1>2, HandlersStep
<1>3. CASE PostCheck \/ ClickCreate \/ ClickDelete \/ ClickStart \/ ClickStop
    BY <1>3, ClickStep
<1>4. ASSUME NEW c \in Captures, ClickDownload(c) \/ DownloadEnds(c) PROVE IInv'
    BY <1>4, DownloadStep
<1>5. CASE SelectNode \/ UNCHANGED vars
  <2>1. /\ UNCHANGED <<podVars, stray, drawn, call, downloads, page>>
        /\ selected' \in BOOLEAN
      BY <1>5 DEF SelectNode, vars, IInv, TypeOK
  <2>2. QED
      BY <2>1 DEF IInv, podVars, page, TypeOK, SpinnerIsBacked, ThrownRests, RunningIsNamed,
                  DownloadIsBacked, CallIsNamed, RunningIsNew, OnlyDrawn, CleanListsNone,
                  ListedExist, Shown
<1>6. QED
    BY <1>1, <1>2, <1>3, <1>4, <1>5 DEF Next, User

LEMMA Invariance == Spec => []IInv
<1>1. QED
    BY Starting, Stepping, PTL DEF Spec

\* The state stays well-typed.
THEOREM TypeCorrect == Spec => []TypeOK
<1>1. IInv => TypeOK
    BY DEF IInv
<1>2. QED
    BY <1>1, Invariance, PTL

\* A spinner stands for the handler that will end it, unless a file out of place has thrown it.
THEOREM SpinnersBacked == Spec => []SpinnerIsBacked
<1>1. IInv => SpinnerIsBacked
    BY DEF IInv
<1>2. QED
    BY <1>1, Invariance, PTL

\* What the page says of the captures is true of the debug pod: a running one can be stopped,
\* what is on offer can be downloaded, and none is listed twice.
THEOREM CapturesListed == Spec => []CapturesAreTrue
<1>1. IInv => CapturesAreTrue
    BY DEF IInv, CapturesAreTrue, RunningIsNamed, ListedExist, ListedCapturesExist, CallIsNamed,
           StoppedCaptureIsNew
<1>2. QED
    BY <1>1, Invariance, PTL

\* A download shown as under way is.
THEOREM DownloadsBacked == Spec => []DownloadIsBacked
<1>1. IInv => DownloadIsBacked
    BY DEF IInv
<1>2. QED
    BY <1>1, Invariance, PTL
=============================================================================
