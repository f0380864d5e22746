------------------------ MODULE KickstartSessionProofs ------------------------
(***************************************************************************)
(* What holds of the panel, and of the panel with its page, for any number *)
(* of runs, attempts and chats.                                            *)
(***************************************************************************)
EXTENDS KickstartSession, SequenceTheorems, TLAPS

(* Attempts are numbered in the order in which they start, by runs that    *)
(* exist, at stages those runs have.                                       *)
Bookkeeping ==
    /\ \A a \in Gens : a > runGeneration => pc[a] = "idle" /\ a \notin cancelled
    /\ \A a \in Gens : pc[a] # "idle" => runOf[a] < nextRunId
    /\ \A n \in 1 .. Len(waiters) :
          /\ waiters[n].run < nextRunId
          /\ waiters[n].start <= StageCount(kind[waiters[n].run])
    /\ activeRun # None => activeRun < nextRunId
    /\ kubelogin = "none" => chats = 0

IInv ==
    /\ TypeOK
    /\ TokenTracksFlight
    /\ GateWaitersReachable
    /\ RecheckFlagBacked
    /\ WaitersOnCancelled
    /\ Bookkeeping

-----------------------------------------------------------------------------
(* Steps of one attempt                                                    *)

(* The effect of a step of attempt a on the attempts: a goes on, or it ends. *)
Progresses(a) ==
    /\ pc[a] \in {"working", "settling", "prompting", "granted", "denied"}
    /\ \/ /\ \E x \in {"working", "settling", "prompting"} : pc' = [pc EXCEPT ![a] = x]
          /\ UNCHANGED <<inFlight, activeToken>>
       \/ /\ pc' = [pc EXCEPT ![a] = "done"]
          /\ ReleaseFlight(a)
    /\ \/ UNCHANGED at
       \/ at[a] < StageCount(kind[runOf[a]]) /\ at' = [at EXCEPT ![a] = @ + 1]
    /\ succeeded' \in [Runs -> BOOLEAN]
    /\ lastProvisioned' \in Runs \cup {None}
    /\ complete' \in BOOLEAN
    /\ AttemptFrame
    /\ UNCHANGED <<early, gateVars>>

LEMMA NextStageProgresses ==
    ASSUME TypeOK, NEW a \in Gens, NEW status, NextStage(a, status),
           pc[a] \in {"working", "settling", "prompting", "granted", "denied"},
           AttemptFrame, UNCHANGED <<early, gateVars>>
    PROVE  Progresses(a)
<1> USE DEF TypeOK
<1>1. runOf[a] \in Runs
  BY NoneAssumption DEF AttemptTypeOK
<1>2. CASE at' = [at EXCEPT ![a] = at[a] + 1] /\ at[a] < StageCount(kind[runOf[a]])
           /\ pc' = [pc EXCEPT ![a] = "working"]
           /\ UNCHANGED <<inFlight, activeToken, succeeded, lastProvisioned, complete>>
  BY <1>2 DEF Progresses, PanelTypeOK
<1>3. ASSUME NEW snaps, EndAttempt(a, snaps, TRUE) PROVE Progresses(a)
  BY <1>1, <1>3 DEF Progresses, EndAttempt, Adopt, PanelTypeOK
<1> QED BY <1>2, <1>3 DEF NextStage

LEMMA HaltProgresses ==
    ASSUME TypeOK, NEW a \in Gens, HaltStage(a),
           pc[a] \in {"working", "settling", "prompting", "granted", "denied"},
           AttemptFrame, UNCHANGED <<early, gateVars>>
    PROVE  Progresses(a)
<1>1. runOf[a] \in Runs
  BY NoneAssumption DEF TypeOK, AttemptTypeOK
<1> QED BY <1>1 DEF TypeOK, Progresses, HaltStage, EndAttempt, Adopt, PanelTypeOK

LEMMA ProgressKeepsIInv ==
    ASSUME IInv, NEW a \in Gens, Progresses(a)
    PROVE  IInv'
<1> USE NoneAssumption DEF IInv, TypeOK
<1> USE DEF AttemptFrame, gateVars
<1>1. PanelTypeOK'
  BY DEF PanelTypeOK, Progresses
<1>2. FlightTypeOK'
  BY DEF FlightTypeOK, Progresses, ReleaseFlight
<1>3. at' \in [Gens -> StageIndices] /\ at'[a] <= StageCount(kind[runOf[a]])
      /\ \A b \in Gens : b # a => at'[b] = at[b]
  <2>1. kind[runOf[a]] \in AllKinds
    BY DEF AttemptTypeOK, PanelTypeOK, Progresses
  <2>2. StageCount(kind[runOf[a]]) \in 5 .. 6
    BY <2>1 DEF StageCount
  <2> QED BY <2>2 DEF AttemptTypeOK, Progresses, StageIndices
<1>4. AttemptTypeOK'
  BY <1>3 DEF AttemptTypeOK, Progresses, PCs, StageCount
<1>5. GateTypeOK'
  BY DEF GateTypeOK, Progresses
<1>6. TokenTracksFlight'
  <2>1. inFlight' = activeToken'
    BY DEF TokenTracksFlight, Progresses, ReleaseFlight
  <2>2. ASSUME inFlight' # None PROVE Live(inFlight)'
    <3>1. inFlight' = inFlight /\ inFlight \in Gens /\ Live(inFlight)
      BY <2>2 DEF TokenTracksFlight, FlightTypeOK, Progresses, ReleaseFlight
    <3>2. inFlight # a => pc'[inFlight] = pc[inFlight]
      BY <3>1 DEF Progresses, AttemptTypeOK
    <3>3. inFlight = a => pc'[a] \in {"working", "settling", "prompting"}
      BY <2>2, <3>1 DEF Progresses, AttemptTypeOK, ReleaseFlight
    <3> QED BY <3>1, <3>2, <3>3 DEF Live
  <2> QED BY <2>1, <2>2 DEF TokenTracksFlight
<1>7. GateWaitersReachable'
  BY DEF GateWaitersReachable, GateTypeOK, AttemptTypeOK, Progresses
<1>8. RecheckFlagBacked' /\ WaitersOnCancelled'
  BY DEF RecheckFlagBacked, WaitersOnCancelled, Progresses
<1>9. Bookkeeping'
  BY DEF Bookkeeping, AttemptTypeOK, Progresses
<1> QED BY <1>1, <1>2, <1>4, <1>5, <1>6, <1>7, <1>8, <1>9

-----------------------------------------------------------------------------
(* Starting an attempt, and superseding one                                *)

(* Runs are only ever added, and a run keeps its kind.                      *)
PanelGrows ==
    /\ PanelTypeOK'
    /\ nextRunId <= nextRunId'
    /\ \A r \in Runs : r < nextRunId => kind'[r] = kind[r]
    /\ activeRun' # None => activeRun' < nextRunId'

(* The next attempt may start at stage i of run r.                         *)
Startable(r, i) ==
    /\ r \in Runs /\ r < nextRunId'
    /\ i \in StageIndices /\ i <= StageCount(kind'[r])

LEMMA OlderAttemptsKeepStages ==
    ASSUME IInv, PanelGrows
    PROVE  /\ \A a \in Gens : pc[a] # "idle" =>
                 runOf[a] < nextRunId' /\ at[a] <= StageCount(kind'[runOf[a]])
           /\ \A n \in 1 .. Len(waiters) :
                 /\ waiters[n].run < nextRunId'
                 /\ waiters[n].start <= StageCount(kind'[waiters[n].run])
<1> USE DEF IInv, TypeOK, PanelGrows
<1>1. nextRunId \in Int /\ nextRunId' \in Int
  BY BoundsAssumption DEF PanelTypeOK
<1>2. ASSUME NEW a \in Gens, pc[a] # "idle"
      PROVE  runOf[a] < nextRunId' /\ at[a] <= StageCount(kind'[runOf[a]])
  <2>1. runOf[a] \in Runs /\ runOf[a] < nextRunId /\ runOf[a] \in Int
    BY <1>2, NoneAssumption, BoundsAssumption DEF AttemptTypeOK, Bookkeeping, Runs
  <2> QED BY <1>1, <1>2, <2>1 DEF AttemptTypeOK
<1>3. ASSUME NEW n \in 1 .. Len(waiters)
      PROVE  /\ waiters[n].run < nextRunId'
             /\ waiters[n].start <= StageCount(kind'[waiters[n].run])
  <2>1. waiters[n] \in Waiters
    BY ElementOfSeq DEF FlightTypeOK
  <2>2. waiters[n].run \in Runs /\ waiters[n].run \in Int /\ waiters[n].run < nextRunId
    BY <2>1, BoundsAssumption DEF Waiters, Bookkeeping, Runs
  <2> QED BY <1>1, <2>2 DEF Bookkeeping
<1> QED BY <1>2, <1>3

LEMMA StartKeepsIInv ==
    ASSUME IInv, PanelGrows, NEW r, NEW i, Startable(r, i), StartAttempt(r, i),
           kubelogin' = "none" => chats' = 0,
           waiters' \in Seq(Waiters),
           runGeneration + 1 + Len(waiters') <= MaxGen,
           \A n \in 1 .. Len(waiters') : \E m \in 1 .. Len(waiters) : waiters'[n] = waiters[m]
    PROVE  IInv'
<1> DEFINE a == runGeneration + 1
<1> USE DEF StartAttempt, Startable, gateVars
<1>1. Len(waiters') \in Nat /\ runGeneration \in Nat /\ MaxGen \in Nat
  BY LenProperties, BoundsAssumption DEF IInv, TypeOK, FlightTypeOK
<1>2. a \in Gens /\ a > runGeneration
  BY <1>1 DEF Gens
<1>3. pc[a] = "idle" /\ a \notin cancelled
  BY <1>2 DEF IInv, Bookkeeping
<1>4. FlightTypeOK'
  BY <1>1, <1>2 DEF IInv, TypeOK, FlightTypeOK
<1>5. AttemptTypeOK'
  <2>1. pc' = [pc EXCEPT ![a] = "working"] /\ runOf' = [runOf EXCEPT ![a] = r]
        /\ at' = [at EXCEPT ![a] = i] /\ early' = early
    OBVIOUS
  <2>2. ASSUME NEW b \in Gens, pc'[b] # "idle"
        PROVE  runOf'[b] # None /\ at'[b] <= StageCount(kind'[runOf'[b]])
    <3>1. CASE b = a
      BY <1>2, <2>1, <3>1, NoneAssumption, BoundsAssumption DEF IInv, TypeOK, AttemptTypeOK, Runs
    <3>2. CASE b # a
      BY <1>2, <2>1, <2>2, <3>2, OlderAttemptsKeepStages DEF IInv, TypeOK, AttemptTypeOK
    <3> QED BY <3>1, <3>2
  <2> QED BY <1>2, <2>1, <2>2 DEF IInv, TypeOK, AttemptTypeOK, PCs
<1>6. GateTypeOK' /\ RecheckFlagBacked'
  BY DEF IInv, TypeOK, GateTypeOK, RecheckFlagBacked
<1>7. TokenTracksFlight'
  BY <1>2 DEF IInv, TypeOK, AttemptTypeOK, TokenTracksFlight, Live
<1>8. GateWaitersReachable'
  BY <1>2, <1>3 DEF IInv, TypeOK, AttemptTypeOK, GateWaitersReachable
<1>9. WaitersOnCancelled'
  BY DEF IInv, WaitersOnCancelled
<1>10. Bookkeeping'
  <2>1. \A b \in Gens : b > runGeneration' => pc'[b] = "idle" /\ b \notin cancelled'
    BY <1>1, <1>2 DEF IInv, TypeOK, AttemptTypeOK, Bookkeeping, Gens
  <2>2. \A b \in Gens : pc'[b] # "idle" => runOf'[b] < nextRunId'
    BY <1>2, OlderAttemptsKeepStages DEF IInv, TypeOK, AttemptTypeOK
  <2> QED BY <2>1, <2>2, OlderAttemptsKeepStages DEF Bookkeeping, PanelGrows
<1> QED BY <1>4, <1>5, <1>6, <1>7, <1>8, <1>9, <1>10 DEF IInv, TypeOK, PanelGrows

LEMMA GateCancelled ==
    ASSUME IInv, CancelGate
    PROVE  /\ pc' \in [Gens -> PCs]
           /\ \A b \in Gens : pc'[b] = IF b = gate THEN "denied" ELSE pc[b]
           /\ \A b \in Gens : pc'[b] # "waiting"
           /\ \A b \in Gens : (pc'[b] = "idle") <=> (pc[b] = "idle")
           /\ \A b \in Gens : (pc'[b] = "done") <=> (pc[b] = "done")
           /\ GateTypeOK' \/ probing' # probing
<1>1. gate # None => gate \in Gens /\ pc[gate] = "waiting"
  BY DEF IInv, TypeOK, GateTypeOK, GateWaitersReachable
<1>2. pc \in [Gens -> PCs]
  BY DEF IInv, TypeOK, AttemptTypeOK
<1>3. None \notin Gens
  BY NoneAssumption DEF Gens
<1>4. /\ pc' \in [Gens -> PCs]
      /\ \A b \in Gens : pc'[b] = IF b = gate THEN "denied" ELSE pc[b]
  BY <1>1, <1>2, <1>3 DEF CancelGate, PCs
<1> QED BY <1>1, <1>4 DEF IInv, TypeOK, GateTypeOK, GateWaitersReachable, CancelGate

LEMMA SupersedeKeepsIInv ==
    ASSUME IInv, PanelGrows, NEW r, NEW i, Startable(r, i), Supersede(r, i),
           kubelogin' = "none" => chats' = 0,
           GenerationLeft, inFlight # None
    PROVE  IInv'
<1> DEFINE w == [run |-> r, start |-> i, on |-> inFlight]
<1> USE DEF Supersede, Startable
<1>1. w \in Waiters /\ waiters \in Seq(Waiters) /\ inFlight \in Gens /\ inFlight = activeToken
  BY DEF IInv, TypeOK, FlightTypeOK, TokenTracksFlight, Waiters
<1>2. waiters' \in Seq(Waiters) /\ Len(waiters') = Len(waiters) + 1
      /\ \A n \in 1 .. Len(waiters') :
            waiters'[n] = IF n = Len(waiters) + 1 THEN w ELSE waiters[n]
  BY <1>1, AppendProperties
<1>3. Len(waiters) \in Nat
  BY <1>1, LenProperties
<1>4. cancelled' = cancelled \cup {inFlight}
  BY <1>1 DEF CancelActiveToken
<1>5. FlightTypeOK'
  BY <1>1, <1>2, <1>3, <1>4, BoundsAssumption DEF IInv, TypeOK, FlightTypeOK, GenerationLeft
<1>6. AttemptTypeOK'
  BY GateCancelled, OlderAttemptsKeepStages DEF IInv, TypeOK, AttemptTypeOK
<1>7. GateTypeOK' /\ RecheckFlagBacked'
  BY DEF CancelGate, IInv, TypeOK, GateTypeOK, RecheckFlagBacked
<1>8. TokenTracksFlight'
  BY <1>1, GateCancelled DEF IInv, TokenTracksFlight, Live
<1>9. GateWaitersReachable'
  <2>1. \A b \in Gens : pc'[b] # "waiting"
    BY GateCancelled
  <2>2. gate' = None /\ None \notin Gens
    BY NoneAssumption DEF CancelGate, Gens
  <2> QED BY <2>1, <2>2 DEF GateWaitersReachable
<1>10. WaitersOnCancelled'
  BY <1>2, <1>3, <1>4 DEF IInv, WaitersOnCancelled
<1>11. Bookkeeping'
  <2>1. pc[inFlight] # "idle" /\ ~(inFlight > runGeneration)
    BY <1>1 DEF IInv, TokenTracksFlight, Live, Bookkeeping
  <2>2. \A b \in Gens : b > runGeneration' => pc'[b] = "idle" /\ b \notin cancelled'
    BY <1>4, <2>1, GateCancelled DEF IInv, Bookkeeping
  <2>3. \A b \in Gens : pc'[b] # "idle" => runOf'[b] < nextRunId'
    BY GateCancelled, OlderAttemptsKeepStages
  <2>4. \A n \in 1 .. Len(waiters') :
           waiters'[n].run < nextRunId' /\ waiters'[n].start <= StageCount(kind'[waiters'[n].run])
    BY <1>2, <1>3, OlderAttemptsKeepStages
  <2> QED BY <2>2, <2>3, <2>4 DEF Bookkeeping, PanelGrows
<1> QED BY <1>5, <1>6, <1>7, <1>8, <1>9, <1>10, <1>11 DEF IInv, TypeOK, PanelGrows

LEMMA RunAttemptKeepsIInv ==
    ASSUME IInv, PanelGrows, NEW r, NEW i, Startable(r, i), RunProvisioningAttempt(r, i),
           kubelogin' = "none" => chats' = 0
    PROVE  IInv'
<1>1. CASE inFlight # None
  BY <1>1, SupersedeKeepsIInv DEF RunProvisioningAttempt
<1>2. CASE inFlight = None
  <2>1. Len(waiters) \in Nat /\ runGeneration \in Nat /\ MaxGen \in Nat
    BY LenProperties, BoundsAssumption DEF IInv, TypeOK, FlightTypeOK
  <2>2. StartAttempt(r, i) /\ waiters' = waiters
    BY <1>2 DEF RunProvisioningAttempt
  <2>3. waiters' \in Seq(Waiters) /\ runGeneration + 1 + Len(waiters') <= MaxGen
    BY <2>1, <2>2 DEF RunProvisioningAttempt, GenerationLeft, IInv, TypeOK, FlightTypeOK
  <2> QED BY <2>2, <2>3, StartKeepsIInv
<1> QED BY <1>1, <1>2

-----------------------------------------------------------------------------
(* The other steps                                                         *)

\* A sequence without its n-th element.
LEMMA SeqWithout ==
    ASSUME NEW S, NEW s \in Seq(S), NEW n \in 1 .. Len(s),
           NEW t, t = SubSeq(s, 1, n - 1) \o SubSeq(s, n + 1, Len(s))
    PROVE  /\ t \in Seq(S) /\ Len(t) = Len(s) - 1
           /\ \A k \in 1 .. Len(s) - 1 : t[k] = IF k < n THEN s[k] ELSE s[k + 1]
<1> DEFINE front == SubSeq(s, 1, n - 1)
<1> DEFINE back == SubSeq(s, n + 1, Len(s))
<1>1. Len(s) \in Nat /\ n \in Int /\ 1 <= n /\ n <= Len(s)
  BY LenProperties
<1>2. \A k \in 1 .. Len(s) : s[k] \in S
  BY ElementOfSeq
<1>3. /\ front \in Seq(S) /\ Len(front) = n - 1
      /\ \A k \in 1 .. n - 1 : front[k] = s[k]
  <2>1. \A k \in 1 .. n - 1 : s[k] \in S
    BY <1>1, <1>2
  <2>2. /\ SubSeq(s, 1, n - 1) \in Seq(S)
        /\ Len(SubSeq(s, 1, n - 1)) = IF 1 <= n - 1 THEN n - 1 - 1 + 1 ELSE 0
        /\ \A k \in 1 .. n - 1 - 1 + 1 : SubSeq(s, 1, n - 1)[k] = s[1 + k - 1]
    BY <1>1, <2>1, SubSeqProperties
  <2> QED BY <1>1, <2>2
<1>4. /\ back \in Seq(S) /\ Len(back) = Len(s) - n
      /\ \A k \in 1 .. Len(s) - n : back[k] = s[n + k]
  <2>1. \A k \in n + 1 .. Len(s) : s[k] \in S
    BY <1>1, <1>2
  <2>2. /\ SubSeq(s, n + 1, Len(s)) \in Seq(S)
        /\ Len(SubSeq(s, n + 1, Len(s))) = IF n + 1 <= Len(s) THEN Len(s) - (n + 1) + 1 ELSE 0
        /\ \A k \in 1 .. Len(s) - (n + 1) + 1 :
              SubSeq(s, n + 1, Len(s))[k] = s[n + 1 + k - 1]
    BY <1>1, <2>1, SubSeqProperties
  <2> QED BY <1>1, <2>2
<1> HIDE DEF front, back
<1>5. /\ front \o back \in Seq(S)
      /\ Len(front \o back) = Len(front) + Len(back)
      /\ \A k \in 1 .. Len(front) + Len(back) :
            (front \o back)[k] = IF k <= Len(front) THEN front[k] ELSE back[k - Len(front)]
  BY <1>3, <1>4, ConcatProperties
<1>6. t = front \o back
  BY DEF front, back
<1>7. ASSUME NEW k \in 1 .. Len(s) - 1
      PROVE  t[k] = IF k < n THEN s[k] ELSE s[k + 1]
  <2>1. k \in 1 .. Len(front) + Len(back)
    BY <1>1, <1>3, <1>4
  <2>2. t[k] = IF k <= Len(front) THEN front[k] ELSE back[k - Len(front)]
    BY <1>5, <1>6, <2>1
  <2>3. CASE k < n
    <3>1. k <= Len(front) /\ k \in 1 .. n - 1
      BY <1>1, <1>3, <2>3
    <3> QED BY <1>3, <2>2, <2>3, <3>1
  <2>4. CASE ~(k < n)
    <3>1. ~(k <= Len(front)) /\ k - Len(front) \in 1 .. Len(s) - n /\ n + (k - Len(front)) = k + 1
      BY <1>1, <1>3, <2>4
    <3> QED BY <1>4, <2>2, <2>4, <3>1
  <2> QED BY <2>3, <2>4
<1>8. t \in Seq(S) /\ Len(t) = Len(s) - 1
  <2>1. Len(front) + Len(back) = Len(s) - 1
    BY <1>1, <1>3, <1>4
  <2> QED BY <1>5, <1>6, <2>1
<1> QED BY ONLY <1>7, <1>8

LEMMA ResumeKeepsIInv ==
    ASSUME IInv, NEW n \in 1 .. Len(waiters), ResumeWaiter(n)
    PROVE  IInv'
<1> DEFINE w == waiters[n]
<1> DEFINE len == Len(waiters)
<1>1. waiters \in Seq(Waiters) /\ len \in Nat /\ n \in Int
  BY LenProperties DEF IInv, TypeOK, FlightTypeOK
<1>2. \A k \in 1 .. len : waiters[k] \in Waiters
  BY <1>1, ElementOfSeq
<1>5. /\ waiters' \in Seq(Waiters) /\ Len(waiters') = len - 1
      /\ \A k \in 1 .. len - 1 : waiters'[k] = IF k < n THEN waiters[k] ELSE waiters[k + 1]
  <2>1. waiters' = SubSeq(waiters, 1, n - 1) \o SubSeq(waiters, n + 1, Len(waiters))
    BY DEF ResumeWaiter
  <2> QED BY ONLY n \in 1 .. Len(waiters), <1>1, <2>1, SeqWithout
<1>6. \A k \in 1 .. Len(waiters') : \E m \in 1 .. Len(waiters) : waiters'[k] = waiters[m]
  <2> TAKE k \in 1 .. Len(waiters')
  <2>1. k \in 1 .. len - 1
    BY <1>5
  <2>2. k \in 1 .. len /\ k + 1 \in 1 .. len
    BY <1>1, <2>1
  <2> QED BY <1>5, <2>1, <2>2
<1>7. w \in Waiters /\ w.run \in Runs /\ w.start \in StageIndices
  BY <1>2 DEF Waiters
<1>8. StartAttempt(w.run, w.start)
  BY DEF ResumeWaiter
<1>9. PanelGrows
  BY <1>7, <1>8, BoundsAssumption
  DEF PanelGrows, PanelTypeOK, ResumeWaiter, StartAttempt, IInv, TypeOK, Bookkeeping
<1>10. Startable(w.run, w.start)
  BY <1>7 DEF Startable, IInv, Bookkeeping, ResumeWaiter
<1>11. runGeneration + 1 + Len(waiters') <= MaxGen
  BY <1>1, <1>5, BoundsAssumption DEF IInv, TypeOK, FlightTypeOK
<1>12. kubelogin' = "none" => chats' = 0
  BY DEF IInv, Bookkeeping, ResumeWaiter
<1> HIDE DEF w
<1> QED BY <1>5, <1>6, <1>8, <1>9, <1>10, <1>11, <1>12, StartKeepsIInv

AttemptStep(a) ==
    \/ StageSucceeds(a) \/ StageFails(a) \/ DeploymentDone(a) \/ VerifyCancelled(a)
    \/ AccessMissing(a) \/ GateGranted(a) \/ GateDenied(a)

LEMMA AttemptStepProgresses ==
    ASSUME IInv, NEW a \in Gens, AttemptStep(a)
    PROVE  Progresses(a)
<1> USE DEF IInv
<1>1. ASSUME DeploymentDone(a) \/ AccessMissing(a) PROVE Progresses(a)
  BY <1>1 DEF DeploymentDone, AccessMissing, Progresses, TypeOK, PanelTypeOK
<1>2. ASSUME VerifyCancelled(a) PROVE Progresses(a)
  BY <1>2 DEF VerifyCancelled, AbortAttempt, Progresses, TypeOK, PanelTypeOK
<1>3. ASSUME StageSucceeds(a) PROVE Progresses(a)
  BY <1>3, NextStageProgresses DEF StageSucceeds
<1>4. ASSUME StageFails(a) PROVE Progresses(a)
  BY <1>4, NextStageProgresses, HaltProgresses DEF StageFails
<1>5. ASSUME GateGranted(a) \/ GateDenied(a) PROVE Progresses(a)
  BY <1>5, NextStageProgresses, HaltProgresses DEF GateGranted, GateDenied
<1> QED BY <1>1, <1>2, <1>3, <1>4, <1>5 DEF AttemptStep

LEMMA AttemptStepKeepsIInv ==
    ASSUME IInv, NEW a \in Gens, AttemptStep(a)
    PROVE  IInv'
PROOF BY AttemptStepProgresses, ProgressKeepsIInv

LEMMA EarlyStepKeepsIInv ==
    ASSUME IInv, NEW a \in Gens, EarlyStep(a) \/ TickReads(a)
    PROVE  IInv'
<1> USE DEF IInv, TypeOK, EarlyFrame, AttemptFrame, gateVars
<1>1. /\ EarlyFrame
      /\ \E x \in EarlyStates : early' = [early EXCEPT ![a] = x]
      /\ lastProvisioned' \in Runs \cup {None}
  <2>1. CASE TickReads(a)
    BY <2>1 DEF TickReads, PanelTypeOK, EarlyStates
  <2>2. CASE TickAnswered(a)
    BY <2>2 DEF TickAnswered, PanelTypeOK, EarlyStates
  <2>3. CASE EarlyGranted(a)
    BY <2>3 DEF EarlyGranted, PanelTypeOK, AttemptTypeOK, EarlyStates
  <2>4. CASE EarlyOver(a)
    BY <2>4 DEF EarlyOver, PanelTypeOK, EarlyStates
  <2> QED BY <2>1, <2>2, <2>3, <2>4 DEF EarlyStep
<1>2. PanelTypeOK' /\ FlightTypeOK' /\ GateTypeOK'
  BY <1>1 DEF PanelTypeOK, FlightTypeOK, GateTypeOK
<1>3. AttemptTypeOK'
  BY <1>1 DEF AttemptTypeOK
<1>4. TokenTracksFlight' /\ GateWaitersReachable' /\ RecheckFlagBacked' /\ WaitersOnCancelled'
  BY <1>1 DEF TokenTracksFlight, GateWaitersReachable, RecheckFlagBacked, WaitersOnCancelled, Live
<1>5. Bookkeeping'
  BY <1>1 DEF Bookkeeping
<1> QED BY <1>2, <1>3, <1>4, <1>5

LEMMA PromptReadyKeepsIInv ==
    ASSUME IInv, NEW a \in Gens, PromptReady(a)
    PROVE  IInv'
<1> USE DEF IInv, TypeOK, AttemptFrame
<1>1. /\ pc' = [b \in Gens |-> IF b = a THEN "waiting"
                               ELSE IF b = gate THEN "denied" ELSE pc[b]]
      /\ pc[a] = "prompting" /\ gate' = a /\ rechecking' = FALSE /\ probing' = probing
  BY DEF PromptReady
<1>2. PanelTypeOK' /\ FlightTypeOK' /\ GateTypeOK'
  BY DEF PanelTypeOK, FlightTypeOK, GateTypeOK, PromptReady
<1>3. \A b \in Gens : b = gate <=> pc[b] = "waiting"
  BY DEF GateWaitersReachable
<1>4. \A b \in Gens : /\ pc'[b] \in PCs
                      /\ (pc'[b] = "idle" <=> pc[b] = "idle")
                      /\ (pc'[b] = "done" <=> pc[b] = "done")
                      /\ (pc'[b] = "waiting" <=> b = a)
  BY <1>1, <1>3 DEF PCs, AttemptTypeOK
<1>5. AttemptTypeOK'
  BY <1>1, <1>4 DEF AttemptTypeOK, PromptReady
<1>6. TokenTracksFlight'
  BY <1>4 DEF TokenTracksFlight, FlightTypeOK, Live, PromptReady
<1>7. GateWaitersReachable' /\ RecheckFlagBacked' /\ WaitersOnCancelled'
  BY <1>1, <1>4 DEF GateWaitersReachable, RecheckFlagBacked, WaitersOnCancelled, PromptReady
<1>8. Bookkeeping'
  BY <1>4 DEF Bookkeeping, PromptReady
<1> QED BY <1>2, <1>5, <1>6, <1>7, <1>8

LEMMA RecheckKeepsIInv ==
    ASSUME IInv, (\E r \in Runs : RecheckRequest(r)) \/ (\E a \in Gens : RecheckAnswered(a))
    PROVE  IInv'
<1> USE DEF IInv, TypeOK, panelVars, flightVars, attemptVars
<1>1. ASSUME NEW r \in Runs, RecheckRequest(r) PROVE IInv'
  <2>1. PanelTypeOK' /\ FlightTypeOK' /\ AttemptTypeOK'
    BY <1>1 DEF PanelTypeOK, FlightTypeOK, AttemptTypeOK, RecheckRequest
  <2>2. GateTypeOK' /\ RecheckFlagBacked'
    BY <1>1 DEF GateTypeOK, RecheckFlagBacked, RecheckRequest
  <2>3. TokenTracksFlight' /\ GateWaitersReachable' /\ WaitersOnCancelled' /\ Bookkeeping'
    BY <1>1 DEF TokenTracksFlight, GateWaitersReachable, WaitersOnCancelled, Bookkeeping,
                RecheckRequest, Live
  <2> QED BY <2>1, <2>2, <2>3
<1>2. ASSUME NEW a \in Gens, RecheckAnswered(a) PROVE IInv'
  <2> USE <1>2 DEF RecheckAnswered
  <2>1. ASSUME \/ gate = a /\ RecheckBlocked(a)
               \/ gate # a /\ UNCHANGED <<gate, rechecking, pc>>
        PROVE  IInv'
    <3>1. UNCHANGED <<panelVars, flightVars, attemptVars, gate>> /\ probing' = probing \ {a}
      BY <2>1 DEF RecheckBlocked
    <3>2. rechecking' = FALSE \/ (rechecking' = rechecking /\ gate # a)
      BY <2>1 DEF RecheckBlocked
    <3>3. PanelTypeOK' /\ FlightTypeOK' /\ AttemptTypeOK' /\ GateTypeOK' /\ RecheckFlagBacked'
      <4>1. PanelTypeOK' /\ FlightTypeOK' /\ AttemptTypeOK'
        BY <3>1 DEF PanelTypeOK, FlightTypeOK, AttemptTypeOK
      <4>2. CASE rechecking' = FALSE
        BY <3>1, <4>1, <4>2 DEF GateTypeOK, RecheckFlagBacked
      <4>3. CASE rechecking' = rechecking /\ gate # a
        BY <3>1, <4>1, <4>3 DEF GateTypeOK, RecheckFlagBacked
      <4> QED BY <3>2, <4>2, <4>3
    <3>4. TokenTracksFlight' /\ GateWaitersReachable' /\ WaitersOnCancelled' /\ Bookkeeping'
      BY <3>1 DEF TokenTracksFlight, GateWaitersReachable, WaitersOnCancelled, Bookkeeping, Live
    <3> QED BY <3>3, <3>4
  <2>2. CASE gate = a /\ RecheckGranted(a)
    <3>1. /\ UNCHANGED <<panelVars, flightVars, runOf, at, early>>
          /\ pc' = [pc EXCEPT ![a] = "granted"] /\ pc[a] = "waiting"
          /\ gate' = None /\ rechecking' = FALSE
          /\ probing' = probing \ {a}
      BY <2>2 DEF RecheckGranted, GateWaitersReachable
    <3>2. PanelTypeOK' /\ FlightTypeOK' /\ GateTypeOK' /\ RecheckFlagBacked'
      BY <3>1 DEF PanelTypeOK, FlightTypeOK, GateTypeOK, RecheckFlagBacked
    <3>3. AttemptTypeOK'
      BY <3>1 DEF AttemptTypeOK, PCs
    <3>4. \A b \in Gens : /\ (pc'[b] = "idle" <=> pc[b] = "idle")
                          /\ (pc'[b] = "done" <=> pc[b] = "done")
                          /\ pc'[b] # "waiting"
      BY <2>2, <3>1 DEF AttemptTypeOK, GateWaitersReachable
    <3>5. None \notin Gens
      BY NoneAssumption DEF Gens
    <3>6. GateWaitersReachable'
      BY <3>1, <3>4, <3>5 DEF GateWaitersReachable
    <3>7. TokenTracksFlight' /\ WaitersOnCancelled' /\ Bookkeeping'
      BY <3>1, <3>4 DEF TokenTracksFlight, FlightTypeOK, WaitersOnCancelled, Bookkeeping, Live
    <3> QED BY <3>2, <3>3, <3>6, <3>7
  <2> QED BY <2>1, <2>2
<1> QED BY <1>1, <1>2

LEMMA FinishKeepsIInv ==
    ASSUME IInv, NEW k \in Kinds, Finish(k)
    PROVE  IInv'
<1> USE DEF IInv, TypeOK, Finish, flightVars, attemptVars, gateVars
<1>1. PanelTypeOK'
  BY DEF PanelTypeOK
<1>2. FlightTypeOK' /\ AttemptTypeOK' /\ GateTypeOK'
  BY DEF FlightTypeOK, AttemptTypeOK, GateTypeOK
<1>3. /\ TokenTracksFlight' /\ GateWaitersReachable' /\ RecheckFlagBacked'
      /\ WaitersOnCancelled' /\ Bookkeeping'
  BY DEF TokenTracksFlight, GateWaitersReachable, RecheckFlagBacked, WaitersOnCancelled,
         Bookkeeping, Live
<1> QED BY <1>1, <1>2, <1>3

LEMMA SelectionSavedKeepsIInv ==
    ASSUME IInv, NEW k \in Kinds, SelectionSaved(k)
    PROVE  IInv'
<1> USE DEF IInv, TypeOK
<1>1. nextRunId \in Runs /\ nextRunId \in Int /\ nextRunId' = nextRunId + 1
      /\ nextRunId' \in 0 .. MaxRuns
  BY BoundsAssumption DEF SelectionSaved, PanelTypeOK, Runs
<1>2. k \in AllKinds
  BY KindsAssumption
<1>3. succeeded' \in [Runs -> BOOLEAN]
  BY <1>1 DEF SelectionSaved, RunProvisioningAttempt, StartAttempt, Supersede, PanelTypeOK
<1>4. PanelTypeOK'
  <2>1. finishing' \in [Kinds -> Nat]
    BY DEF SelectionSaved, PanelTypeOK
  <2>2. kind' \in [Runs -> AllKinds]
    BY <1>1, <1>2 DEF SelectionSaved, PanelTypeOK
  <2>3. kubelogin' \in {"none", "fetching", "settled"}
    BY DEF SelectionSaved, PanelTypeOK
  <2>4. activeRun' \in Runs /\ complete' \in BOOLEAN
        /\ UNCHANGED <<lastProvisioned, lastFinish, chats>>
    BY <1>1 DEF SelectionSaved
  <2> QED BY <1>1, <1>3, <2>1, <2>2, <2>3, <2>4 DEF PanelTypeOK
<1>5. kind' = [kind EXCEPT ![nextRunId] = k] /\ activeRun' = nextRunId
  BY DEF SelectionSaved
<1>6. PanelGrows
  <2>1. \A r \in Runs : r \in Int
    BY DEF Runs
  <2> QED BY <1>1, <1>4, <1>5, <2>1 DEF PanelGrows, PanelTypeOK
<1>7. Startable(nextRunId, 1)
  <2>1. kind'[nextRunId] = k
    BY <1>1, <1>5 DEF PanelTypeOK
  <2>2. StageCount(k) \in 5 .. 6
    BY <1>2 DEF StageCount, AllKinds
  <2> QED BY <1>1, <2>1, <2>2 DEF Startable, StageIndices
<1>8. kubelogin' = "none" => chats' = 0
  BY DEF SelectionSaved
<1>9. RunProvisioningAttempt(nextRunId, 1)
  BY DEF SelectionSaved
<1> QED BY <1>6, <1>7, <1>8, <1>9, RunAttemptKeepsIInv

LEMMA RetryStageKeepsIInv ==
    ASSUME IInv, NEW r \in Runs, NEW i \in StageIndices, RetryStageRequest(r, i)
    PROVE  IInv'
<1> USE DEF IInv, TypeOK
<1>1. CASE activeRun # r
  BY <1>1, FinishKeepsIInv DEF RetryStageRequest
<1>2. CASE activeRun = r
  <2>1. /\ RunProvisioningAttempt(r, RetryFrom(kind[r], i))
        /\ UNCHANGED <<nextRunId, kind, activeRun, complete, lastProvisioned,
                       lastFinish, finishing, kubelogin, chats>>
    BY <1>2 DEF RetryStageRequest
  <2>2. r < nextRunId /\ i <= StageCount(kind[r])
    BY DEF RetryStageRequest
  <2>3. succeeded' \in [Runs -> BOOLEAN]
    BY <2>1 DEF RunProvisioningAttempt, StartAttempt, Supersede, PanelTypeOK
  <2>4. PanelGrows
    BY <2>1, <2>3, BoundsAssumption DEF PanelGrows, PanelTypeOK, Bookkeeping
  <2>5. StageCount(kind[r]) \in 5 .. 6
    BY DEF StageCount, AllKinds
  <2>6. RetryFrom(kind[r], i) \in StageIndices /\ RetryFrom(kind[r], i) <= StageCount(kind[r])
    BY <2>2, <2>5 DEF RetryFrom, StageIndices
  <2>7. Startable(r, RetryFrom(kind[r], i))
    BY <2>1, <2>2, <2>6 DEF Startable
  <2>8. kubelogin' = "none" => chats' = 0
    BY <2>1 DEF Bookkeeping
  <2> QED BY <2>1, <2>4, <2>7, <2>8, RunAttemptKeepsIInv
<1> QED BY <1>1, <1>2

LEMMA BackKeepsIInv ==
    ASSUME IInv, BackToSetupRequest
    PROVE  IInv'
<1> USE DEF BackToSetupRequest, AbandonFlight
<1>1. None \notin Gens
  BY NoneAssumption DEF Gens
<1>2. activeToken = None \/ (activeToken \in Gens /\ ~(activeToken > runGeneration))
  BY DEF IInv, TypeOK, FlightTypeOK, TokenTracksFlight, Live, Bookkeeping
<1>3. cancelled' = cancelled \cup ({activeToken} \ {None}) /\ CancelGate
  BY DEF CancelActiveToken
<1>4. PanelTypeOK' /\ FlightTypeOK'
  <2>1. Len(waiters) \in Nat /\ runGeneration \in Nat /\ MaxGen \in Nat
    BY LenProperties, BoundsAssumption DEF IInv, TypeOK, FlightTypeOK
  <2>2. PanelTypeOK'
    BY DEF IInv, TypeOK, PanelTypeOK
  <2>3. runGeneration' \in Nat /\ runGeneration' + Len(waiters') <= MaxGen
    BY <2>1 DEF GenerationLeft
  <2>4. cancelled' \in SUBSET Gens
    BY <1>2, <1>3 DEF IInv, TypeOK, FlightTypeOK
  <2> QED BY <2>2, <2>3, <2>4 DEF IInv, TypeOK, FlightTypeOK
<1>5. AttemptTypeOK'
  BY <1>3, GateCancelled DEF IInv, TypeOK, AttemptTypeOK
<1>6. GateTypeOK' /\ RecheckFlagBacked' /\ TokenTracksFlight'
  BY DEF CancelGate, IInv, TypeOK, GateTypeOK, RecheckFlagBacked, TokenTracksFlight
<1>7. GateWaitersReachable'
  <2>1. \A b \in Gens : pc'[b] # "waiting"
    BY <1>3, GateCancelled
  <2> QED BY <1>1, <2>1 DEF GateWaitersReachable, CancelGate
<1>8. WaitersOnCancelled'
  BY <1>3 DEF IInv, WaitersOnCancelled
<1>9. Bookkeeping'
  <2>1. runGeneration \in Nat /\ runGeneration' = runGeneration + 1 /\ Gens \subseteq Int
    BY DEF IInv, TypeOK, FlightTypeOK, Gens
  <2>2. \A b \in Gens : b > runGeneration' => b > runGeneration /\ b # activeToken
    BY <1>2, <2>1, <1>1
  <2>3. \A b \in Gens : b > runGeneration' => pc'[b] = "idle" /\ b \notin cancelled'
    BY <1>3, <2>2, GateCancelled DEF IInv, Bookkeeping
  <2>4. \A b \in Gens : pc'[b] # "idle" => runOf'[b] < nextRunId'
    BY <1>3, GateCancelled DEF IInv, Bookkeeping
  <2> QED BY <2>3, <2>4 DEF IInv, Bookkeeping
<1> QED BY <1>4, <1>5, <1>6, <1>7, <1>8, <1>9 DEF IInv, TypeOK

LEMMA ChatKeepsIInv ==
    ASSUME IInv, ContinueInChatRequest \/ KubeloginSettles \/ UNCHANGED vars
    PROVE  IInv'
<1> USE DEF IInv, TypeOK, ContinueInChatRequest, KubeloginSettles, vars, panelVars, flightVars,
            attemptVars, gateVars
<1>1. PanelTypeOK'
  BY DEF PanelTypeOK
<1>2. FlightTypeOK' /\ AttemptTypeOK' /\ GateTypeOK'
  BY DEF FlightTypeOK, AttemptTypeOK, GateTypeOK
<1>3. TokenTracksFlight' /\ GateWaitersReachable' /\ RecheckFlagBacked' /\ WaitersOnCancelled'
  BY DEF TokenTracksFlight, GateWaitersReachable, RecheckFlagBacked, WaitersOnCancelled, Live
<1>4. Bookkeeping'
  BY DEF Bookkeeping
<1> QED BY <1>1, <1>2, <1>3, <1>4

LEMMA NextKeepsIInv ==
    ASSUME IInv, [Next]_vars
    PROVE  IInv'
<1>1. CASE Microtask
  BY <1>1, ResumeKeepsIInv, AttemptStepKeepsIInv DEF Microtask, AttemptStep
<1>2. ASSUME NEW a \in Gens, StageStep(a) PROVE IInv'
  BY <1>2, AttemptStepKeepsIInv, PromptReadyKeepsIInv DEF StageStep, AttemptStep
<1>3. ASSUME NEW a \in Gens, EarlyStep(a) \/ TickReads(a) PROVE IInv'
  BY <1>3, EarlyStepKeepsIInv
<1>4. ASSUME NEW a \in Gens, RecheckAnswered(a) PROVE IInv'
  BY <1>4, RecheckKeepsIInv
<1>5. ASSUME NEW k \in Kinds, SelectionSaved(k) PROVE IInv'
  BY <1>5, SelectionSavedKeepsIInv
<1>6. CASE UserRequest
  BY <1>6, FinishKeepsIInv, RecheckKeepsIInv, RetryStageKeepsIInv, BackKeepsIInv, ChatKeepsIInv
  DEF UserRequest, FinishRequest, RetryRequest
<1>7. CASE KubeloginSettles \/ UNCHANGED vars
  BY <1>7, ChatKeepsIInv
<1> QED BY <1>1, <1>2, <1>3, <1>4, <1>5, <1>6, <1>7 DEF Next

LEMMA InitIInv == Init => IInv
<1> SUFFICES ASSUME Init PROVE IInv
  OBVIOUS
<1>0. 0 + 0 <= MaxGen
  BY BoundsAssumption
<1> USE NoneAssumption, BoundsAssumption DEF Init
<1>1. waiters = <<>> /\ Len(waiters) = 0 /\ waiters \in Seq(Waiters)
  BY EmptySeq
<1>2. PanelTypeOK
  <2>1. kind \in [Runs -> AllKinds] /\ succeeded \in [Runs -> BOOLEAN]
        /\ finishing \in [Kinds -> Nat]
    BY DEF AllKinds
  <2>2. nextRunId \in 0 .. MaxRuns
    OBVIOUS
  <2>3. activeRun = None /\ lastProvisioned = None /\ lastFinish = None /\ chats = 0
    OBVIOUS
  <2>4. complete \in BOOLEAN /\ kubelogin \in {"none", "fetching", "settled"}
    OBVIOUS
  <2> HIDE DEF Init
  <2> QED BY <2>1, <2>2, <2>3, <2>4 DEF PanelTypeOK
<1>3. FlightTypeOK /\ GateTypeOK
  BY <1>0, <1>1 DEF FlightTypeOK, GateTypeOK
<1>4. AttemptTypeOK
  BY DEF AttemptTypeOK, PCs, StageIndices, EarlyStates
<1>5. TokenTracksFlight /\ RecheckFlagBacked /\ WaitersOnCancelled
  BY <1>1 DEF TokenTracksFlight, RecheckFlagBacked, WaitersOnCancelled
<1>6. GateWaitersReachable /\ Bookkeeping
  BY <1>1 DEF GateWaitersReachable, Bookkeeping, Gens
<1> QED BY <1>2, <1>3, <1>4, <1>5, <1>6 DEF IInv, TypeOK

\* The state keeps its shape: attempts are numbered within the bound on generations, each
\* belongs to a run at a stage that run has, whatever messages and answers arrive.
THEOREM TypeCorrect == Spec => []TypeOK
<1>1. IInv => TypeOK
  BY DEF IInv
<1> QED BY InitIInv, NextKeepsIInv, <1>1, PTL DEF Spec

\* The token and the promise the panel keeps are always those of one attempt that has not
\* ended, so cancelling "the attempt in flight" never misses it; no attempt waits for access on
\* a request the gate has forgotten; Re-check is never ignored because of a probe that is over;
\* and a retry never waits for an attempt that was left running.
THEOREM PanelIsSafe == Spec => []PanelSafe
<1>1. IInv => PanelSafe
  BY DEF IInv, PanelSafe
<1> QED BY InitIInv, NextKeepsIInv, <1>1, PTL DEF Spec

Held ==
    \/ inFlight' = inFlight
    \/ pc'[inFlight] = "done"
    \/ inFlight \in cancelled'
    \/ \E n \in 1 .. Len(waiters) : waiters[n].on # inFlight /\ pc[waiters[n].on] = "done"

LEMMA NextHolds ==
    ASSUME IInv, [Next]_vars, inFlight # None
    PROVE  Held
<1> USE DEF Held
<1>1. Live(inFlight) /\ activeToken = inFlight /\ inFlight \in Gens
  BY DEF IInv, TypeOK, FlightTypeOK, TokenTracksFlight
<1>2. ASSUME NEW n \in 1 .. Len(waiters), ResumeWaiter(n) PROVE Held
  BY <1>1, <1>2 DEF ResumeWaiter, MayResume, Live
<1>3. ASSUME NEW a \in Gens, AttemptStep(a) PROVE Held
  <2>1. inFlight' = inFlight \/ (pc' = [pc EXCEPT ![a] = "done"] /\ ReleaseFlight(a))
    BY <1>3, AttemptStepProgresses DEF Progresses
  <2>2. pc \in [Gens -> PCs]
    BY DEF IInv, TypeOK, AttemptTypeOK
  <2> QED BY <1>1, <2>1, <2>2 DEF ReleaseFlight
<1>4. ASSUME NEW a \in Gens,
             PromptReady(a) \/ EarlyStep(a) \/ TickReads(a) \/ RecheckAnswered(a)
      PROVE  Held
  BY <1>4 DEF PromptReady, EarlyStep, TickReads, TickAnswered, EarlyGranted, EarlyOver, EarlyFrame,
              RecheckAnswered, flightVars
<1>5. ASSUME NEW k \in Kinds, SelectionSaved(k) PROVE Held
  BY <1>5 DEF SelectionSaved, RunProvisioningAttempt, Supersede
<1>6. ASSUME NEW k \in Kinds, Finish(k) PROVE Held
  BY <1>6 DEF Finish, flightVars
<1>7. ASSUME NEW r \in Runs, NEW i \in StageIndices, RetryStageRequest(r, i) PROVE Held
  BY <1>6, <1>7 DEF RetryStageRequest, RunProvisioningAttempt, Supersede
<1>8. CASE BackToSetupRequest
  BY <1>1, <1>8 DEF BackToSetupRequest, CancelActiveToken
<1>9. ASSUME NEW r \in Runs, RecheckRequest(r) PROVE Held
  BY <1>9 DEF RecheckRequest, flightVars
<1>10. CASE ContinueInChatRequest \/ KubeloginSettles \/ UNCHANGED vars
  BY <1>10 DEF ContinueInChatRequest, KubeloginSettles, vars, flightVars
<1>11. CASE Microtask
  BY <1>2, <1>3, <1>11 DEF Microtask, AttemptStep
<1>12. ASSUME NEW a \in Gens, StageStep(a) PROVE Held
  BY <1>3, <1>4, <1>12 DEF StageStep, AttemptStep
<1>13. CASE UserRequest
  BY <1>6, <1>7, <1>8, <1>9, <1>10, <1>13 DEF UserRequest, FinishRequest, RetryRequest
<1> HIDE DEF Held
<1> QED BY <1>4, <1>5, <1>10, <1>11, <1>12, <1>13 DEF Next

\* The panel loses hold of an attempt that is neither over nor told to stop in one way only: a
\* second retry that had waited for the same attempt as the first goes on.
THEOREM AttemptsHeld == Spec => HoldsUntilStopped
<1>1. IInv /\ [Next]_vars =>
        [inFlight # None /\ inFlight' # inFlight =>
            \/ pc'[inFlight] = "done" \/ inFlight \in cancelled'
            \/ \E n \in 1 .. Len(waiters) :
                  waiters[n].on # inFlight /\ pc[waiters[n].on] = "done"]_vars
  BY NextHolds DEF Held
<1> QED BY InitIInv, NextKeepsIInv, <1>1, PTL DEF Spec, HoldsUntilStopped

-----------------------------------------------------------------------------
(* The session, whatever the user clicks and whenever                      *)

Snapshot(r, i, status) == [type |-> "snapshot", run |-> r, stage |-> i, status |-> status]

EarlyOfRuns == \A a \in Gens : early[a] # "none" => runOf[a] # None

LEMMA ReceivedShape ==
    ASSUME NEW w \in Pages, NEW m \in Posted
    PROVE  /\ Received(w, m) \in Pages
           /\ m.type # "finishComplete" => Received(w, m).stage = w.stage
<1>1. CASE m \in [type : {"snapshot"}, run : Runs, stage : StageIndices, status : Statuses]
  <2>1. Received(w, m) = ApplySnapshot(w, m)
    BY <1>1 DEF Received
  <2>2. /\ NoStages \in [StageIndices -> Statuses \cup {"none"}]
        /\ m.run # None /\ m.run \in Int /\ (w.run # None => w.run \in Int)
    BY <1>1, NoneAssumption DEF NoStages, Runs, Pages
  <2>3. CASE w.run # None /\ m.run < w.run
    <3>1. Received(w, m) = w
      BY <2>1, <2>2, <2>3 DEF ApplySnapshot
    <3> QED BY <3>1
  <2>4. CASE ~(w.run # None /\ m.run < w.run) /\ w.run = m.run
    <3>1. ApplySnapshot(w, m) = [w EXCEPT !.stages[m.stage] = m.status]
      BY <2>4 DEF ApplySnapshot
    <3> QED BY <1>1, <2>1, <2>2, <2>4, <3>1 DEF Pages
  <2>5. CASE ~(w.run # None /\ m.run < w.run) /\ w.run # m.run
    <3> DEFINE listed == [NoStages EXCEPT ![m.stage] = m.status]
    <3>1. listed \in [StageIndices -> Statuses \cup {"none"}]
      BY <1>1, <2>2
    <3>2. Received(w, m) = [w EXCEPT !.run = m.run, !.stages = listed]
      BY <2>1, <2>2, <2>5 DEF ApplySnapshot
    <3>3. m.run \in Runs
      BY <1>1
    <3> HIDE DEF listed
    <3> QED BY <2>2, <3>1, <3>2, <3>3 DEF Pages
  <2> QED BY <2>3, <2>4, <2>5
<1>2. CASE m \in [type : {"finishComplete"}, run : Runs, by : Gens, ok : BOOLEAN]
  <2>1. Received(w, m) = [w EXCEPT !.stage = "complete",
                                   !.result = IF m.ok THEN "ok" ELSE "failed", !.access = None]
    BY <1>2 DEF Received
  <2> QED BY <1>2, <2>1 DEF Pages
<1>3. CASE m \in [type : {"clusterChatReady", "awaitingAccess", "accessResolved"}, run : Runs]
  <2>1. \/ Received(w, m) = [w EXCEPT !.chat = TRUE]
        \/ Received(w, m) = [w EXCEPT !.access = m.run]
        \/ Received(w, m) = [w EXCEPT !.access = None]
        \/ Received(w, m) = w
    BY <1>3 DEF Received
  <2> QED BY <1>3, <2>1 DEF Pages
<1> QED BY <1>1, <1>2, <1>3 DEF Posted

LEMMA NothingSent ==
    ASSUME SendPosts, \A n \in DOMAIN posts' : posts'[n].type = "chat"
    PROVE  toWebview' = toWebview
PROOF BY DEF SendPosts

LEMMA StartKeepsRuns ==
    ASSUME IInv, NEW r \in Runs, NEW i, RunProvisioningAttempt(r, i) \/ StartAttempt(r, i)
    PROVE  early' = early /\ \A a \in Gens : runOf'[a] \in {runOf[a], r}
PROOF BY DEF RunProvisioningAttempt, StartAttempt, Supersede, IInv, TypeOK, AttemptTypeOK

\* An attempt keeps its run once it has an early grant.
LEMMA StepKeepsEarly ==
    ASSUME IInv, EarlyOfRuns, [Next]_vars \/ ClickUseExisting
    PROVE  EarlyOfRuns'
<1>0. /\ \A a \in Gens : early[a] # "none" \/ pc[a] # "idle" => runOf[a] # None
      /\ \A r \in Runs : r # None
      /\ early \in [Gens -> EarlyStates]
  BY NoneAssumption DEF IInv, TypeOK, AttemptTypeOK, EarlyOfRuns, Runs
<1>1. CASE UNCHANGED <<early, runOf>>
  BY <1>1 DEF EarlyOfRuns
<1>2. ASSUME NEW r \in Runs, NEW i, RunProvisioningAttempt(r, i) \/ StartAttempt(r, i)
      PROVE  EarlyOfRuns'
  BY <1>0, <1>2, StartKeepsRuns DEF EarlyOfRuns
<1>3. ASSUME NEW a \in Gens, EarlyStep(a) \/ TickReads(a) PROVE EarlyOfRuns'
  <2>1. /\ runOf' = runOf /\ (early[a] # "none" \/ pc[a] # "idle")
        /\ \E x \in EarlyStates : early' = [early EXCEPT ![a] = x]
    BY <1>3
    DEF EarlyStep, TickReads, TickAnswered, EarlyGranted, EarlyOver, EarlyFrame, AttemptFrame,
        EarlyStates
  <2> QED BY <1>0, <2>1 DEF EarlyOfRuns
<1>4. ASSUME NEW a \in Gens, AttemptStep(a) PROVE EarlyOfRuns'
  BY <1>1, <1>4, AttemptStepProgresses DEF Progresses, AttemptFrame
<1>5. ASSUME NEW a \in Gens, PromptReady(a) \/ RecheckAnswered(a) PROVE EarlyOfRuns'
  BY <1>1, <1>5 DEF PromptReady, RecheckAnswered, AttemptFrame
<1>6. ASSUME NEW k \in Kinds, SelectionSaved(k) PROVE EarlyOfRuns'
  <2>1. nextRunId \in Runs
    BY <1>6, BoundsAssumption DEF SelectionSaved, IInv, TypeOK, PanelTypeOK, Runs
  <2> QED BY <1>2, <1>6, <2>1 DEF SelectionSaved
<1>7. ASSUME NEW k \in Kinds, Finish(k) PROVE EarlyOfRuns'
  BY <1>1, <1>7 DEF Finish, attemptVars
<1>8. ASSUME NEW r \in Runs, NEW i \in StageIndices, RetryStageRequest(r, i) PROVE EarlyOfRuns'
  BY <1>2, <1>7, <1>8 DEF RetryStageRequest
<1>9. CASE BackToSetupRequest \/ (\E r \in Runs : RecheckRequest(r)) \/ ContinueInChatRequest
           \/ KubeloginSettles \/ UNCHANGED vars \/ ClickUseExisting
  BY <1>1, <1>9 DEF BackToSetupRequest, RecheckRequest, ContinueInChatRequest, KubeloginSettles,
                    vars, attemptVars, ClickUseExisting
<1>10. ASSUME NEW n \in 1 .. Len(waiters), ResumeWaiter(n) PROVE EarlyOfRuns'
  <2>1. waiters[n].run \in Runs
    <3>1. waiters[n] \in Waiters
      BY ElementOfSeq DEF IInv, TypeOK, FlightTypeOK
    <3> QED BY <3>1 DEF Waiters
  <2> QED BY <1>2, <1>10, <2>1 DEF ResumeWaiter
<1>11. CASE UserRequest
  BY <1>7, <1>8, <1>9, <1>11 DEF UserRequest, FinishRequest, RetryRequest
<1>12. CASE Microtask
  BY <1>4, <1>10, <1>12 DEF Microtask, AttemptStep
<1>13. ASSUME NEW a \in Gens, StageStep(a) PROVE EarlyOfRuns'
  BY <1>4, <1>5, <1>13 DEF StageStep, AttemptStep
<1>14. CASE Next
  BY <1>3, <1>5, <1>6, <1>9, <1>11, <1>12, <1>13, <1>14 DEF Next
<1> QED BY <1>9, <1>14

LEMMA SnapPosted ==
    ASSUME NEW a, NEW r \in Runs, NEW i \in StageIndices, NEW status \in Statuses
    PROVE  Snap(a, r, i, status) \in Seq(Posted)
<1>1. Snapshot(r, i, status) \in Posted
  BY DEF Snapshot, Posted
<1>2. Snap(a, r, i, status) \in {<<>>, <<Snapshot(r, i, status)>>}
  BY DEF Snap, Snapshot
<1>3. <<>> \in Seq(Posted) /\ <<Snapshot(r, i, status)>> \in Seq(Posted)
  BY <1>1
<1> QED BY ONLY <1>2, <1>3

LEMMA EndPosts ==
    ASSUME IInv, NEW a \in Gens, runOf[a] \in Runs, NEW snaps \in Seq(Posted),
           NEW ok \in BOOLEAN, EndAttempt(a, snaps, ok)
    PROVE  posts' \in Seq(Posted)
<1>1. ok \/ succeeded[runOf[a]] \in BOOLEAN
  BY DEF IInv, TypeOK, PanelTypeOK
<1>2. [type |-> "finishComplete", run |-> runOf[a], by |-> a,
       ok |-> ok \/ succeeded[runOf[a]]] \in Posted
  BY <1>1 DEF Posted, IInv, TypeOK, PanelTypeOK
<1> QED BY <1>2, AppendProperties DEF EndAttempt

LEMMA AttemptPosts ==
    ASSUME IInv, NEW a \in Gens, AttemptStep(a)
    PROVE  posts' \in Seq(Posted)
<1> DEFINE r == runOf[a]
<1>1. pc[a] # "idle"
  BY AttemptStepProgresses DEF Progresses
<1>2. r \in Runs /\ at[a] \in StageIndices /\ StageCount(kind[r]) \in 5 .. 6
  BY <1>1 DEF IInv, TypeOK, AttemptTypeOK, StageCount
<1>3. ASSUME NEW status \in Statuses, NextStage(a, status) PROVE posts' \in Seq(Posted)
  <2>1. CASE at[a] < StageCount(kind[r]) /\ posts' = NextSnaps(a, r, at[a], status)
    <3>1. at[a] + 1 \in StageIndices /\ "running" \in Statuses
      BY <1>2, <2>1 DEF StageIndices, Statuses
    <3>2. /\ Snap(a, r, at[a], status) \in Seq(Posted)
          /\ Snap(a, r, at[a] + 1, "running") \in Seq(Posted)
      BY <1>2, <3>1, SnapPosted
    <3> QED BY <2>1, <3>2, ConcatProperties DEF NextSnaps
  <2>2. CASE EndAttempt(a, Snap(a, r, at[a], status), TRUE)
    BY <1>2, <2>2, SnapPosted, EndPosts
  <2> QED BY <1>3, <2>1, <2>2 DEF NextStage
<1>4. ASSUME HaltStage(a) PROVE posts' \in Seq(Posted)
  <2>1. Snap(a, r, at[a], "failed") \in Seq(Posted)
    BY <1>2, SnapPosted DEF Statuses
  <2> QED BY <1>2, <1>4, <2>1, EndPosts DEF HaltStage
<1>5. CASE DeploymentDone(a) \/ VerifyCancelled(a) \/ AccessMissing(a)
  <2>1. posts' = <<>>
    BY <1>5 DEF DeploymentDone, VerifyCancelled, AbortAttempt, AccessMissing
  <2> QED BY <2>1
<1>6. CASE StageSucceeds(a) \/ StageFails(a)
  BY <1>3, <1>4, <1>6 DEF StageSucceeds, StageFails, Statuses
<1>7. CASE GateGranted(a) \/ GateDenied(a)
  BY <1>3, <1>4, <1>7 DEF GateGranted, GateDenied, Statuses
<1> QED BY <1>5, <1>6, <1>7 DEF AttemptStep

LEMMA StartPosts ==
    ASSUME NEW r \in Runs, NEW i \in StageIndices,
           StartAttempt(r, i) \/ RunProvisioningAttempt(r, i)
    PROVE  posts' \in Seq(Posted)
<1>1. posts' = <<>> \/ posts' = Snap(runGeneration + 1, r, i, "running")
  BY DEF StartAttempt, RunProvisioningAttempt, Supersede
<1>2. Snap(runGeneration + 1, r, i, "running") \in Seq(Posted)
  BY SnapPosted DEF Statuses
<1>3. <<>> \in Seq(Posted)
  OBVIOUS
<1> QED BY ONLY <1>1, <1>2, <1>3

ForChat == \A n \in DOMAIN posts' : posts'[n].type = "chat"

LEMMA OnePosts ==
    ASSUME NEW type \in {"clusterChatReady", "awaitingAccess", "accessResolved"},
           NEW r \in Runs, posts' = <<[type |-> type, run |-> r]>>
    PROVE  posts' \in Seq(Posted)
<1>1. [type |-> type, run |-> r] \in Posted
  BY DEF Posted
<1> QED BY <1>1

LEMMA HandoffsPosted ==
    ASSUME IInv, KubeloginSettles
    PROVE  /\ posts' \in Seq({Handoff}) /\ DOMAIN posts' = 1 .. Len(posts')
           /\ \A n \in DOMAIN posts' : posts'[n] = Handoff
<1>1. chats \in Nat
  BY DEF IInv, TypeOK, PanelTypeOK
<1>2. posts' \in [1 .. chats -> {Handoff}]
  BY DEF KubeloginSettles
<1> QED BY <1>1, <1>2, LenProperties

LEMMA NextPosts ==
    ASSUME IInv, EarlyOfRuns, Next
    PROVE  posts' \in Seq(Posted) \/ ForChat
<1> DEFINE Goal == posts' \in Seq(Posted) \/ ForChat
<1>0. CASE posts' = <<>>
  BY <1>0
<1>1. ASSUME NEW n \in 1 .. Len(waiters), ResumeWaiter(n) PROVE Goal
  <2>1. waiters[n] \in Waiters
    BY ElementOfSeq DEF IInv, TypeOK, FlightTypeOK
  <2> QED BY <1>1, <2>1, StartPosts DEF ResumeWaiter, Waiters
<1>2. ASSUME NEW a \in Gens, AttemptStep(a) PROVE Goal
  BY <1>2, AttemptPosts
<1>3. ASSUME NEW a \in Gens, PromptReady(a) PROVE Goal
  <2>1. runOf[a] \in Runs
    BY <1>3 DEF IInv, TypeOK, AttemptTypeOK, PromptReady
  <2> QED BY <1>3, <2>1, OnePosts DEF PromptReady
<1>4. ASSUME NEW a \in Gens, EarlyStep(a) \/ TickReads(a) PROVE Goal
  <2>1. \/ posts' = <<>>
        \/ early[a] = "granting" /\ posts' = <<[type |-> "clusterChatReady", run |-> runOf[a]]>>
    BY <1>4 DEF EarlyStep, TickReads, TickAnswered, EarlyGranted, EarlyOver
  <2>2. early[a] = "granting" => runOf[a] \in Runs
    BY DEF IInv, TypeOK, AttemptTypeOK, EarlyOfRuns
  <2> QED BY <1>0, <2>1, <2>2, OnePosts
<1>5. ASSUME NEW a \in Gens, RecheckAnswered(a) PROVE Goal
  <2>1. \/ posts' = <<>>
        \/ gate = a /\ \E type \in {"awaitingAccess", "accessResolved"} :
                          posts' = <<[type |-> type, run |-> runOf[a]]>>
    BY <1>5 DEF RecheckAnswered, RecheckGranted, RecheckBlocked
  <2>2. gate = a => runOf[a] \in Runs
    BY DEF IInv, TypeOK, AttemptTypeOK, GateWaitersReachable
  <2> QED BY <1>0, <2>1, <2>2, OnePosts
<1>6. ASSUME NEW k \in Kinds, SelectionSaved(k) PROVE Goal
  <2>1. nextRunId \in Runs /\ 1 \in StageIndices
    BY <1>6, BoundsAssumption DEF SelectionSaved, IInv, TypeOK, PanelTypeOK, Runs, StageIndices
  <2> QED BY <1>6, <2>1, StartPosts DEF SelectionSaved
<1>7. ASSUME NEW k \in Kinds, Finish(k) PROVE Goal
  BY <1>0, <1>7 DEF Finish
<1>8. ASSUME NEW r \in Runs, NEW i \in StageIndices, RetryStageRequest(r, i) PROVE Goal
  <2>1. RetryFrom(kind[r], i) \in StageIndices
    BY <1>8 DEF RetryStageRequest, RetryFrom, StageCount, StageIndices
  <2> QED BY <1>7, <1>8, <2>1, StartPosts DEF RetryStageRequest
<1>9. CASE BackToSetupRequest \/ \E r \in Runs : RecheckRequest(r)
  BY <1>0, <1>9 DEF BackToSetupRequest, RecheckRequest
<1>10. CASE ContinueInChatRequest
  <2>1. CASE posts' = <<Handoff>>
    <3>1. Handoff.type = "chat"
      BY DEF Handoff
    <3>2. \A n \in DOMAIN posts' : posts'[n] = Handoff
      BY <2>1
    <3> QED BY <3>1, <3>2 DEF ForChat
  <2> QED BY <1>0, <1>10, <2>1 DEF ContinueInChatRequest
<1>11. CASE KubeloginSettles
  BY <1>11, HandoffsPosted DEF ForChat, Handoff
<1> HIDE DEF Goal
<1>12. ASSUME Microtask \/ (\E a \in Gens : StageStep(a)) PROVE Goal
  BY <1>1, <1>2, <1>3, <1>12 DEF Microtask, StageStep, AttemptStep
<1>13. ASSUME UserRequest PROVE Goal
  BY <1>7, <1>8, <1>9, <1>10, <1>13 DEF UserRequest, FinishRequest, RetryRequest, Goal
<1> QED BY <1>4, <1>5, <1>6, <1>11, <1>12, <1>13 DEF Next, Goal

SessionTyped == IInv /\ EarlyOfRuns /\ web \in Pages /\ toWebview \in Seq(Posted)

\* The page without a run, in any of its stages.
LEMMA Emptied ==
    ASSUME NEW w \in Pages, NEW stage \in {"collecting", "provisioning"},
           NEW v, \/ v = [w EXCEPT !.stage = stage, !.result = "none", !.access = None,
                                   !.chat = FALSE, !.run = None, !.stages = NoStages]
                  \/ v = [w EXCEPT !.stage = stage, !.result = "none",
                                   !.chat = FALSE, !.run = None, !.stages = NoStages]
    PROVE  v \in Pages /\ v.stage = stage /\ v.run = None
<1>1. NoStages \in [StageIndices -> Statuses \cup {"none"}]
  BY DEF NoStages
<1> QED BY <1>1 DEF Pages

LEMMA RetryStageClicked ==
    ASSUME web \in Pages, NEW i \in StageIndices, ClickRetryStage(i)
    PROVE  web.run \in Runs /\ RetryStageRequest(web.run, i)
<1>1. web.stages[i] # "none"
  BY DEF ClickRetryStage
<1>2. web.run # None
  BY <1>1 DEF Pages, NoStages
<1> QED BY <1>1, <1>2 DEF Pages, ClickRetryStage

\* A click is a request the panel handles, or stays in the page.
LEMMA ClickIsRequest ==
    ASSUME web \in Pages, Click
    PROVE  Next \/ ClickUseExisting
<1>1. ASSUME NEW i \in StageIndices, ClickRetryStage(i) PROVE UserRequest
  BY <1>1, RetryStageClicked DEF UserRequest
<1>2. CASE RecheckTimer
  <2>1. web.access \in Runs
    BY <1>2 DEF RecheckTimer, Pages
  <2> QED BY <1>2, <2>1 DEF RecheckTimer, UserRequest, Next
<1> QED BY <1>1, <1>2
    DEF Click, ClickFinish, ClickTryAgain, ClickBack, ClickContinue, UserRequest, Next

LEMMA SessionStepIsNext ==
    ASSUME web \in Pages, [SessionNext]_sessionVars
    PROVE  [Next]_vars \/ ClickUseExisting
<1>1. CASE Receive
  BY <1>1 DEF Receive
<1>2. CASE PanelStep
  BY <1>2 DEF PanelStep, Next
<1>3. CASE (IF Superseding THEN Len(toWebview) <= MaxLag ELSE toWebview = <<>>) /\ Click
  BY <1>3, ClickIsRequest
<1>4. CASE UNCHANGED sessionVars
  BY <1>4 DEF sessionVars
<1> QED BY <1>1, <1>2, <1>3, <1>4 DEF SessionNext

LEMMA UseExistingKeepsIInv ==
    ASSUME IInv, ClickUseExisting
    PROVE  IInv'
<1>1. UNCHANGED <<panelVars, flightVars, attemptVars, gateVars>>
  BY DEF ClickUseExisting
<1> USE <1>1 DEF panelVars, flightVars, attemptVars, gateVars
<1>2. TypeOK'
  <2>1. PanelTypeOK'
    BY DEF IInv, TypeOK, PanelTypeOK
  <2>2. FlightTypeOK' /\ AttemptTypeOK' /\ GateTypeOK'
    BY DEF IInv, TypeOK, FlightTypeOK, AttemptTypeOK, GateTypeOK
  <2> QED BY <2>1, <2>2 DEF TypeOK
<1>3. TokenTracksFlight' /\ GateWaitersReachable' /\ RecheckFlagBacked' /\ WaitersOnCancelled'
  BY DEF IInv, TokenTracksFlight, GateWaitersReachable, RecheckFlagBacked,
         WaitersOnCancelled, Live
<1>4. Bookkeeping'
  BY DEF IInv, Bookkeeping
<1> QED BY <1>2, <1>3, <1>4 DEF IInv

LEMMA ClickTyped ==
    ASSUME web \in Pages, Click
    PROVE  web' \in Pages
<1>1. ASSUME NEW k \in Kinds, ClickFinish(k) PROVE web' \in Pages
  BY <1>1 DEF ClickFinish, Pages
<1>2. ASSUME ClickTryAgain \/ ClickBack \/ ClickUseExisting PROVE web' \in Pages
  BY <1>2, Emptied DEF ClickTryAgain, ClickBack, ClickUseExisting
<1>3. ASSUME NEW i \in StageIndices, ClickRetryStage(i) PROVE web' \in Pages
  BY <1>3 DEF ClickRetryStage, Pages
<1>4. ASSUME ClickContinue \/ RecheckTimer PROVE web' \in Pages
  BY <1>4 DEF ClickContinue, RecheckTimer
<1> QED BY <1>1, <1>2, <1>3, <1>4 DEF Click

LEMMA TypedKept ==
    ASSUME SessionTyped, [SessionNext]_sessionVars
    PROVE  SessionTyped'
<1> USE DEF SessionTyped
<1>1. [Next]_vars \/ ClickUseExisting
  BY SessionStepIsNext
<1>2. IInv' /\ EarlyOfRuns'
  BY <1>1, NextKeepsIInv, UseExistingKeepsIInv, StepKeepsEarly
<1>3. ASSUME SendPosts, posts' \in Seq(Posted) \/ ForChat PROVE toWebview' \in Seq(Posted)
  BY <1>3, ConcatProperties, NothingSent DEF SendPosts, ForChat
<1>4. CASE Receive
  <2>1. Head(toWebview) \in Posted /\ Tail(toWebview) \in Seq(Posted)
    BY <1>4, HeadTailProperties DEF Receive
  <2> QED BY <1>2, <1>4, <2>1, ReceivedShape DEF Receive
<1>5. CASE PanelStep /\ SendPosts /\ UNCHANGED web
  <2>1. Next
    BY <1>5 DEF PanelStep, Next
  <2> QED BY <1>2, <1>3, <1>5, <2>1, NextPosts
<1>6. CASE Click /\ SendPosts
  <2>1. Next \/ posts' = <<>>
    BY <1>6, ClickIsRequest DEF ClickUseExisting
  <2>2. posts' \in Seq(Posted) \/ ForChat
    <3>1. CASE posts' = <<>>
      BY <3>1
    <3> QED BY <2>1, <3>1, NextPosts
  <2> QED BY <1>2, <1>3, <1>6, <2>2, ClickTyped
<1>7. CASE UNCHANGED sessionVars
  BY <1>2, <1>7 DEF sessionVars
<1> QED BY <1>4, <1>5, <1>6, <1>7 DEF SessionNext

LEMMA TypedFromStart ==
    ASSUME SessionInit
    PROVE  SessionTyped
<1>1. web \in Pages /\ toWebview \in Seq(Posted)
  BY DEF SessionInit, Pages, NoStages
<1> QED BY <1>1, InitIInv DEF SessionInit, Init, SessionTyped, EarlyOfRuns

\* The page names only runs and stages that exist, and lists stages of a run only; every
\* message on its way is one the reducer knows.
THEOREM SessionTypeCorrect == SessionSpec => []SessionTypeOK
<1>1. SessionInit => SessionTyped
  BY TypedFromStart
<1>2. SessionTyped /\ [SessionNext]_sessionVars => SessionTyped'
  BY TypedKept
<1>3. SessionTyped => SessionTypeOK
  BY DEF SessionTyped, IInv, SessionTypeOK
<1> QED BY <1>1, <1>2, <1>3, PTL DEF SessionSpec

\* The panel's bookkeeping holds together behind its page as well: whatever the user clicks on
\* a page, up to date or not, names runs and stages that exist.
THEOREM PanelSafeInSession == SessionSpec => []PanelSafe
<1>1. SessionInit => SessionTyped
  BY TypedFromStart
<1>2. SessionTyped /\ [SessionNext]_sessionVars => SessionTyped'
  BY TypedKept
<1>3. SessionTyped => PanelSafe
  BY DEF SessionTyped, IInv, PanelSafe
<1> QED BY <1>1, <1>2, <1>3, PTL DEF SessionSpec

-----------------------------------------------------------------------------
(* Attempts that were told to stop                                         *)

(* One that was superseded is still the latest, and a retry waits for it.  *)
StoppedAwaited ==
    \A a \in cancelled :
        Live(a) /\ a = runGeneration => \E n \in 1 .. Len(waiters) : waiters[n].on = a

LEMMA NewestNotStopped ==
    ASSUME IInv, cancelled' \subseteq cancelled \cup {activeToken},
           runGeneration' = runGeneration + 1
    PROVE  StoppedAwaited'
<1>1. cancelled \subseteq Gens /\ activeToken \in Gens \cup {None} /\ runGeneration \in Nat
  BY DEF IInv, TypeOK, FlightTypeOK
<1>2. activeToken # None => activeToken <= runGeneration
  BY <1>1 DEF IInv, TokenTracksFlight, Bookkeeping, Live, Gens
<1>3. \A a \in cancelled : a <= runGeneration
  BY <1>1 DEF IInv, Bookkeeping, Gens
<1>4. cancelled' \subseteq Gens \cup {None}
  BY <1>1
<1>5. runGeneration' \notin cancelled'
  BY <1>1, <1>2, <1>3, NoneAssumption DEF Gens
<1> QED BY <1>5 DEF StoppedAwaited

LEMMA StartKeepsAwaited ==
    ASSUME IInv, StoppedAwaited, NEW r, NEW i,
           RunProvisioningAttempt(r, i) \/ StartAttempt(r, i)
    PROVE  StoppedAwaited'
<1>1. CASE StartAttempt(r, i)
  BY <1>1, NewestNotStopped DEF StartAttempt
<1>2. CASE Supersede(r, i)
  <2> DEFINE w == [run |-> r, start |-> i, on |-> inFlight]
  <2>1. /\ cancelled' = cancelled \cup ({activeToken} \ {None})
        /\ waiters' = Append(waiters, w) /\ UNCHANGED runGeneration
    BY <1>2 DEF Supersede, CancelActiveToken
  <2>2. /\ Len(waiters') = Len(waiters) + 1 /\ Len(waiters) \in Nat
        /\ waiters'[Len(waiters) + 1] = w
        /\ \A n \in 1 .. Len(waiters) : waiters'[n] = waiters[n]
    BY <2>1 DEF IInv, TypeOK, FlightTypeOK
  <2>3. \A b \in Gens : Live(b)' => Live(b)
    BY <1>2 DEF Supersede, CancelGate, Live, IInv, TypeOK, AttemptTypeOK, GateTypeOK,
                GateWaitersReachable
  <2> SUFFICES ASSUME NEW a \in cancelled', Live(a)', a = runGeneration'
               PROVE  \E n \in 1 .. Len(waiters') : waiters'[n].on = a
    BY DEF StoppedAwaited
  <2>4. CASE a \in cancelled
    <3>1. a \in Gens /\ Live(a)
      BY <2>3, <2>4 DEF IInv, TypeOK, FlightTypeOK
    <3>2. PICK n \in 1 .. Len(waiters) : waiters[n].on = a
      BY <2>1, <2>4, <3>1 DEF StoppedAwaited
    <3> QED BY <2>2, <3>2
  <2>5. CASE a \notin cancelled
    <3>1. a = inFlight
      BY <2>1, <2>5 DEF IInv, TokenTracksFlight
    <3> QED BY <2>2, <3>1
  <2> QED BY <2>4, <2>5
<1> QED BY <1>1, <1>2 DEF RunProvisioningAttempt

LEMMA SameWaitsKeepAwaited ==
    ASSUME IInv, StoppedAwaited, UNCHANGED <<runGeneration, cancelled, waiters>>,
           \A b \in Gens : Live(b)' => Live(b)
    PROVE  StoppedAwaited'
PROOF BY DEF IInv, TypeOK, FlightTypeOK, StoppedAwaited

LEMMA NextKeepsAwaited ==
    ASSUME IInv, StoppedAwaited, [Next]_vars
    PROVE  StoppedAwaited'
<1>1. pc \in [Gens -> PCs] /\ gate \in Gens \cup {None}
  BY DEF IInv, TypeOK, AttemptTypeOK, GateTypeOK
<1>2. ASSUME NEW n \in 1 .. Len(waiters), ResumeWaiter(n) PROVE StoppedAwaited'
  BY <1>2, StartKeepsAwaited DEF ResumeWaiter
<1>3. ASSUME NEW a \in Gens, AttemptStep(a) PROVE StoppedAwaited'
  <2>1. Progresses(a)
    BY <1>3, AttemptStepProgresses
  <2>2. \A b \in Gens : Live(b)' => Live(b)
    BY <1>1, <2>1 DEF Progresses, Live
  <2> QED BY <2>1, <2>2, SameWaitsKeepAwaited DEF Progresses, AttemptFrame
<1>4. ASSUME NEW a \in Gens, PromptReady(a) PROVE StoppedAwaited'
  BY <1>1, <1>4, SameWaitsKeepAwaited
  DEF PromptReady, AttemptFrame, Live, IInv, GateWaitersReachable
<1>5. ASSUME NEW a \in Gens, EarlyStep(a) \/ TickReads(a) PROVE StoppedAwaited'
  BY <1>5, SameWaitsKeepAwaited
  DEF EarlyStep, TickReads, TickAnswered, EarlyGranted, EarlyOver, EarlyFrame, AttemptFrame, Live
<1>6. ASSUME NEW a \in Gens, RecheckAnswered(a) PROVE StoppedAwaited'
  <2>1. \A b \in Gens : Live(b)' => Live(b)
    BY <1>1, <1>6 DEF RecheckAnswered, RecheckGranted, RecheckBlocked, Live, IInv,
                     GateWaitersReachable
  <2> QED BY <1>6, <2>1, SameWaitsKeepAwaited DEF RecheckAnswered, flightVars
<1>7. ASSUME NEW k \in Kinds, SelectionSaved(k) PROVE StoppedAwaited'
  BY <1>7, StartKeepsAwaited DEF SelectionSaved
<1>8. ASSUME NEW k \in Kinds, Finish(k) PROVE StoppedAwaited'
  BY <1>8, SameWaitsKeepAwaited DEF Finish, flightVars, attemptVars, Live
<1>9. ASSUME NEW r \in Runs, NEW i \in StageIndices, RetryStageRequest(r, i)
      PROVE  StoppedAwaited'
  BY <1>8, <1>9, StartKeepsAwaited DEF RetryStageRequest
<1>10. CASE BackToSetupRequest
  BY <1>10, NewestNotStopped DEF BackToSetupRequest, CancelActiveToken, AbandonFlight
<1>11. ASSUME NEW r \in Runs, RecheckRequest(r) PROVE StoppedAwaited'
  BY <1>11, SameWaitsKeepAwaited DEF RecheckRequest, flightVars, attemptVars, Live
<1>12. CASE ContinueInChatRequest \/ KubeloginSettles \/ UNCHANGED vars
  BY <1>12, SameWaitsKeepAwaited
  DEF ContinueInChatRequest, KubeloginSettles, vars, flightVars, attemptVars, Live
<1>13. CASE Microtask
  BY <1>2, <1>3, <1>13 DEF Microtask, AttemptStep
<1>14. ASSUME NEW a \in Gens, StageStep(a) PROVE StoppedAwaited'
  BY <1>3, <1>4, <1>14 DEF StageStep, AttemptStep
<1>15. CASE UserRequest
  BY <1>8, <1>9, <1>10, <1>11, <1>12, <1>15 DEF UserRequest, FinishRequest, RetryRequest
<1> QED BY <1>5, <1>6, <1>7, <1>12, <1>13, <1>14, <1>15 DEF Next

(* No result is posted, and neither page nor chat gets to know of one.     *)
Unseen == Reports("finishComplete")' = {} /\ UNCHANGED <<complete, lastProvisioned>>

LEMMA DroppedUnseen ==
    ASSUME NEW a, NEW r, NEW i, NEW status, NEW ok, ~Kept(a),
           EndAttempt(a, Snap(a, r, i, status), ok)
    PROVE  Unseen
<1>1. posts' \in {<<>>, <<Snapshot(r, i, status)>>} /\ UNCHANGED <<complete, lastProvisioned>>
  BY DEF EndAttempt, Snap, Snapshot
<1>2. \A n \in 1 .. Len(posts') : posts'[n].type # "finishComplete"
  BY <1>1 DEF Snapshot
<1> QED BY <1>1, <1>2 DEF Unseen, Reports

LEMMA AttemptEnds ==
    ASSUME IInv, NEW a \in Gens, AttemptStep(a), pc'[a] = "done", a # runGeneration
    PROVE  Unseen
<1>1. pc \in [Gens -> PCs] /\ ~Kept(a)
  BY DEF IInv, TypeOK, AttemptTypeOK, Kept
<1>2. ASSUME NEW status, NextStage(a, status) PROVE Unseen
  BY <1>1, <1>2, DroppedUnseen DEF NextStage
<1>3. ASSUME HaltStage(a) PROVE Unseen
  BY <1>1, <1>3, DroppedUnseen DEF HaltStage
<1>4. ASSUME DeploymentDone(a) \/ AccessMissing(a) PROVE FALSE
  BY <1>1, <1>4 DEF DeploymentDone, AccessMissing
<1>5. ASSUME VerifyCancelled(a) PROVE Unseen
  BY <1>5 DEF VerifyCancelled, AbortAttempt, Unseen, Reports
<1> HIDE DEF Unseen
<1> QED BY <1>2, <1>3, <1>4, <1>5
    DEF AttemptStep, StageSucceeds, StageFails, GateGranted, GateDenied

LEMMA StoppedEnds ==
    ASSUME IInv, StoppedAwaited, [Next]_vars, NEW a \in cancelled, Live(a), ~Live(a)'
    PROVE  (\E n \in 1 .. Len(waiters) : waiters[n].on = a) \/ Unseen
<1>1. /\ pc \in [Gens -> PCs] /\ gate \in Gens \cup {None} /\ a \in Gens
      /\ pc[a] \notin {"idle", "done"} /\ pc'[a] \in {"idle", "done"}
  BY DEF IInv, TypeOK, AttemptTypeOK, GateTypeOK, FlightTypeOK, Live
<1>2. ASSUME NEW b \in Gens, AttemptStep(b)
      PROVE  (\E n \in 1 .. Len(waiters) : waiters[n].on = a) \/ Unseen
  <2>1. Progresses(b)
    BY <1>2, AttemptStepProgresses
  <2>2. a = b /\ pc'[a] = "done"
    BY <1>1, <2>1 DEF Progresses
  <2>3. CASE a = runGeneration
    BY <2>3 DEF StoppedAwaited
  <2>4. CASE a # runGeneration
    BY <1>2, <2>2, <2>4, AttemptEnds
  <2> QED BY <2>3, <2>4
<1>3. ASSUME NEW r, NEW i, StartAttempt(r, i) PROVE FALSE
  BY <1>1, <1>3 DEF StartAttempt
<1>4. ASSUME NEW r, NEW i, RunProvisioningAttempt(r, i) PROVE FALSE
  BY <1>1, <1>3, <1>4 DEF RunProvisioningAttempt, Supersede, CancelGate
<1>5. ASSUME NEW b \in Gens,
             PromptReady(b) \/ EarlyStep(b) \/ TickReads(b) \/ RecheckAnswered(b)
      PROVE  FALSE
  <2>1. CASE PromptReady(b)
    BY <1>1, <2>1 DEF PromptReady
  <2>2. CASE EarlyStep(b) \/ TickReads(b)
    BY <1>1, <2>2 DEF EarlyStep, TickReads, TickAnswered, EarlyGranted, EarlyOver, EarlyFrame
  <2>3. CASE RecheckAnswered(b)
    BY <1>1, <2>3 DEF RecheckAnswered, RecheckGranted, RecheckBlocked
  <2> QED BY <1>5, <2>1, <2>2, <2>3
<1>6. ASSUME NEW n \in 1 .. Len(waiters), ResumeWaiter(n) PROVE FALSE
  BY <1>3, <1>6 DEF ResumeWaiter
<1>7. ASSUME NEW k \in Kinds, SelectionSaved(k) \/ Finish(k) PROVE FALSE
  BY <1>1, <1>4, <1>7 DEF SelectionSaved, Finish, attemptVars
<1>8. ASSUME NEW r \in Runs, NEW i \in StageIndices, RetryStageRequest(r, i) PROVE FALSE
  BY <1>4, <1>7, <1>8 DEF RetryStageRequest
<1>9. CASE BackToSetupRequest
  BY <1>1, <1>9 DEF BackToSetupRequest, CancelGate
<1>10. ASSUME \/ \E r \in Runs : RecheckRequest(r)
              \/ ContinueInChatRequest \/ KubeloginSettles \/ UNCHANGED vars
       PROVE  FALSE
  BY <1>1, <1>10 DEF RecheckRequest, ContinueInChatRequest, KubeloginSettles, vars, attemptVars
<1>11. CASE UserRequest
  BY <1>7, <1>8, <1>9, <1>10, <1>11 DEF UserRequest, FinishRequest, RetryRequest
<1>12. CASE Microtask
  BY <1>2, <1>6, <1>12 DEF Microtask, AttemptStep
<1>13. ASSUME NEW b \in Gens, StageStep(b)
       PROVE  (\E n \in 1 .. Len(waiters) : waiters[n].on = a) \/ Unseen
  BY <1>2, <1>5, <1>13 DEF StageStep, AttemptStep
<1> QED BY <1>5, <1>7, <1>10, <1>11, <1>12, <1>13 DEF Next

LEMMA AwaitedInSession ==
    ASSUME SessionTyped, StoppedAwaited, [SessionNext]_sessionVars
    PROVE  StoppedAwaited'
<1>1. CASE [Next]_vars
  BY <1>1, NextKeepsAwaited DEF SessionTyped
<1>2. CASE ClickUseExisting
  BY <1>2, SameWaitsKeepAwaited DEF SessionTyped, ClickUseExisting, flightVars, attemptVars, Live
<1> QED BY <1>1, <1>2, SessionStepIsNext DEF SessionTyped

\* Whatever the user clicks and whenever, an attempt that was told to stop reports no result
\* and changes nothing the chat is told of, unless a retry still waits for its end.
THEOREM StoppedIsUnseen == SessionSpec => StoppedEndsUnseen
<1>1. SessionInit => SessionTyped /\ StoppedAwaited
  BY TypedFromStart DEF SessionInit, Init, StoppedAwaited
<1>2. SessionTyped /\ StoppedAwaited /\ [SessionNext]_sessionVars
        => (SessionTyped /\ StoppedAwaited)'
  BY TypedKept, AwaitedInSession
<1>3. SessionTyped /\ StoppedAwaited /\ [SessionNext]_sessionVars =>
        [\A a \in cancelled : Live(a) /\ ~Live(a)' =>
            \/ \E n \in 1 .. Len(waiters) : waiters[n].on = a
            \/ Reports("finishComplete")' = {} /\ UNCHANGED <<complete, lastProvisioned>>]_vars
  <2> SUFFICES ASSUME SessionTyped, StoppedAwaited, [SessionNext]_sessionVars,
                      NEW a \in cancelled, Live(a), ~Live(a)'
               PROVE  (\E n \in 1 .. Len(waiters) : waiters[n].on = a) \/ Unseen
    BY DEF Unseen
  <2>1. ~ClickUseExisting
    BY DEF ClickUseExisting, attemptVars, Live
  <2> QED BY <2>1, SessionStepIsNext, StoppedEnds DEF SessionTyped
<1> QED BY <1>1, <1>2, <1>3, PTL DEF SessionSpec, StoppedEndsUnseen

-----------------------------------------------------------------------------
(* One attempt at work                                                     *)

(* The panel is about to work on a run, or does.                           *)
Busy == inFlight # None \/ \E k \in Kinds : finishing[k] > 0

(* While requests are quiet a run is asked for when nothing is under way,   *)
(* and whatever else still runs was told to stop.                          *)
OneAtWork ==
    /\ waiters = <<>>
    /\ \A k, j \in Kinds : finishing[k] > 0 /\ finishing[j] > 0 => k = j
    /\ \A k \in Kinds : finishing[k] \in 0 .. 1
    /\ \A k \in Kinds : finishing[k] > 0 => inFlight = None
    /\ \A a \in Gens : Live(a) => a = inFlight \/ (a \in cancelled /\ a # runGeneration)
    /\ inFlight # None =>
          /\ inFlight = runGeneration /\ inFlight \notin cancelled
          /\ runOf[inFlight] = activeRun

QuietInv == IInv /\ Superseding = FALSE /\ OneAtWork

(* What a step of an attempt does to the panel and posts.                  *)

(* An attempt that was told to stop changes nothing that is seen.           *)
StopsUnseen(a) ==
    /\ a # inFlight
    /\ posts' = <<>>
    /\ UNCHANGED <<inFlight, lastProvisioned, complete>>

(* The attempt in flight goes on within its stage ...                      *)
StaysInStage(a) ==
    /\ a = inFlight
    /\ posts' = <<>>
    /\ UNCHANGED <<at, inFlight, lastProvisioned, complete>>

(* ... takes the next one ...                                              *)
TakesNext(a) ==
    /\ a = inFlight
    /\ at[a] + 1 \in StageIndices
    /\ at'[a] = at[a] + 1
    /\ \E status \in Statuses :
          posts' = <<Snapshot(runOf[a], at[a], status), Snapshot(runOf[a], at[a] + 1, "running")>>
    /\ UNCHANGED <<inFlight, lastProvisioned, complete>>

(* ... or ends with a result.                                              *)
Ends(a) ==
    /\ a = inFlight /\ inFlight' = None
    /\ \E status \in Statuses, ok \in BOOLEAN :
          /\ posts' = <<Snapshot(runOf[a], at[a], status),
                        [type |-> "finishComplete", run |-> runOf[a], by |-> a, ok |-> ok]>>
          /\ ok => complete' /\ lastProvisioned' \in Runs

AttemptEffect(a) == StopsUnseen(a) \/ StaysInStage(a) \/ TakesNext(a) \/ Ends(a)

\* Two messages posted one after the other, and two lists of one.
LEMMA PairOf ==
    ASSUME NEW x, NEW y
    PROVE  Append(<<x>>, y) = <<x, y>> /\ <<x>> \o <<y>> = <<x, y>>
<1>1. <<x>> \in Seq({x, y}) /\ <<x, y>> \in Seq({x, y}) /\ y \in {x, y}
  OBVIOUS
<1>2. /\ Append(<<x>>, y) \in Seq({x, y}) /\ Len(Append(<<x>>, y)) = 2
      /\ Append(<<x>>, y)[1] = x /\ Append(<<x>>, y)[2] = y
  BY <1>1
<1>3. Len(<<x, y>>) = 2 /\ <<x, y>>[1] = x /\ <<x, y>>[2] = y
  OBVIOUS
<1>4. \A i \in 1 .. 2 : i = 1 \/ i = 2
  OBVIOUS
<1>5. Append(<<x>>, y) = <<x, y>>
  BY ONLY <1>1, <1>2, <1>3, <1>4, SeqEqual
<1>6. <<x>> \o <<y>> = Append(<<x>>, y)
  BY <1>1
<1> QED BY <1>5, <1>6

LEMMA AttemptFacts ==
    ASSUME QuietInv, NEW a \in Gens, Live(a)
    PROVE  /\ runOf[a] \in Runs /\ at[a] \in StageIndices /\ a # None
           /\ StageCount(kind[runOf[a]]) \in 5 .. 6
           /\ at[a] <= StageCount(kind[runOf[a]])
           /\ a = inFlight => a = runGeneration /\ a \notin cancelled /\ runOf[a] = activeRun
           /\ a # inFlight => a # runGeneration /\ a \in cancelled
<1>1. runOf[a] \in Runs /\ at[a] \in StageIndices /\ at[a] <= StageCount(kind[runOf[a]])
  BY DEF QuietInv, IInv, TypeOK, AttemptTypeOK, Live
<1>2. a # None
  BY NoneAssumption DEF Gens
<1>3. StageCount(kind[runOf[a]]) \in 5 .. 6
  BY <1>1 DEF StageCount
<1> QED BY <1>1, <1>2, <1>3 DEF QuietInv, OneAtWork

LEMMA NextStageEffect ==
    ASSUME QuietInv, NEW a \in Gens, Live(a), NEW status \in Statuses, NextStage(a, status)
    PROVE  AttemptEffect(a)
<1> DEFINE r == runOf[a]
<1>1. /\ r \in Runs /\ at[a] \in StageIndices /\ a # None
      /\ StageCount(kind[r]) \in 5 .. 6
      /\ a = inFlight => a = runGeneration /\ a \notin cancelled
      /\ a # inFlight => a # runGeneration /\ a \in cancelled
  BY AttemptFacts
<1>2. at \in [Gens -> StageIndices]
  BY DEF QuietInv, IInv, TypeOK, AttemptTypeOK
<1>3. CASE /\ at[a] < StageCount(kind[r]) /\ at' = [at EXCEPT ![a] = at[a] + 1]
           /\ posts' = NextSnaps(a, r, at[a], status)
           /\ UNCHANGED <<inFlight, lastProvisioned, complete>>
  <2>1. CASE a = inFlight
    <3>1. at[a] + 1 \in StageIndices /\ at'[a] = at[a] + 1
      BY <1>1, <1>2, <1>3 DEF StageIndices
    <3>2. posts' = <<Snapshot(r, at[a], status), Snapshot(r, at[a] + 1, "running")>>
      <4>1. /\ Snap(a, r, at[a], status) = <<Snapshot(r, at[a], status)>>
            /\ Snap(a, r, at[a] + 1, "running") = <<Snapshot(r, at[a] + 1, "running")>>
        BY <1>1, <2>1 DEF Snap, Snapshot
      <4> QED BY <1>3, <4>1, PairOf DEF NextSnaps
    <3>3. TakesNext(a)
      BY <1>3, <2>1, <3>1, <3>2 DEF TakesNext
    <3> QED BY <3>3 DEF AttemptEffect
  <2>2. CASE a # inFlight
    <3>1. posts' = <<>>
      BY <1>1, <1>3, <2>2 DEF NextSnaps, Snap
    <3> QED BY <1>3, <2>2, <3>1 DEF AttemptEffect, StopsUnseen
  <2> QED BY <2>1, <2>2
<1>4. CASE EndAttempt(a, Snap(a, r, at[a], status), TRUE)
  <2>1. CASE a = inFlight
    <3>1. posts' = <<Snapshot(r, at[a], status),
                     [type |-> "finishComplete", run |-> r, by |-> a, ok |-> TRUE]>>
      <4>1. Snap(a, r, at[a], status) = <<Snapshot(r, at[a], status)>>
        BY <1>1, <2>1 DEF Snap, Snapshot
      <4>2. posts' = Append(Snap(a, r, at[a], status),
                            [type |-> "finishComplete", run |-> r, by |-> a, ok |-> TRUE])
        BY <1>1, <1>4, <2>1 DEF EndAttempt, Kept
      <4> QED BY <4>1, <4>2, PairOf
    <3>2. inFlight' = None /\ complete' = TRUE /\ lastProvisioned' = r
      BY <1>1, <1>4, <2>1 DEF EndAttempt, Kept, Adopt, ReleaseFlight
    <3>3. Ends(a)
      BY <1>1, <2>1, <3>1, <3>2 DEF Ends
    <3> QED BY <3>3 DEF AttemptEffect
  <2>2. CASE a # inFlight
    BY <1>1, <1>4, <2>2 DEF EndAttempt, Kept, Snap, ReleaseFlight, AttemptEffect, StopsUnseen
  <2> QED BY <2>1, <2>2
<1> QED BY <1>3, <1>4 DEF NextStage

LEMMA HaltStageEffect ==
    ASSUME QuietInv, NEW a \in Gens, Live(a), HaltStage(a)
    PROVE  AttemptEffect(a)
<1> DEFINE r == runOf[a]
<1>1. /\ r \in Runs /\ a # None
      /\ a = inFlight => a = runGeneration /\ a \notin cancelled
      /\ a # inFlight => a # runGeneration /\ a \in cancelled
  BY AttemptFacts
<1>2. CASE a = inFlight
  <2>1. succeeded[r] \in BOOLEAN
    BY <1>1 DEF QuietInv, IInv, TypeOK, PanelTypeOK
  <2>2. posts' = <<Snapshot(r, at[a], "failed"),
                   [type |-> "finishComplete", run |-> r, by |-> a, ok |-> succeeded[r]]>>
    <3>1. Snap(a, r, at[a], "failed") = <<Snapshot(r, at[a], "failed")>>
      BY <1>1, <1>2 DEF Snap, Snapshot
    <3>2. posts' = Append(Snap(a, r, at[a], "failed"),
                          [type |-> "finishComplete", run |-> r, by |-> a, ok |-> succeeded[r]])
      BY <1>1, <1>2, <2>1 DEF HaltStage, EndAttempt, Kept
    <3> QED BY <3>1, <3>2, PairOf
  <2>3. inFlight' = None /\ (succeeded[r] => complete' = TRUE /\ lastProvisioned' = r)
    BY <1>1, <1>2, <2>1 DEF HaltStage, EndAttempt, Kept, Adopt, ReleaseFlight
  <2>4. Ends(a)
    BY <1>1, <1>2, <2>1, <2>2, <2>3 DEF Ends, Statuses
  <2> QED BY <2>4 DEF AttemptEffect
<1>3. CASE a # inFlight
  BY <1>1, <1>3 DEF HaltStage, EndAttempt, Kept, Snap, ReleaseFlight, AttemptEffect, StopsUnseen
<1> QED BY <1>2, <1>3

LEMMA AttemptHasEffect ==
    ASSUME QuietInv, NEW a \in Gens, AttemptStep(a)
    PROVE  AttemptEffect(a)
<1>1. Live(a)
  BY AttemptStepProgresses DEF QuietInv, Progresses, Live
<1>2. CASE DeploymentDone(a) \/ AccessMissing(a)
  BY <1>2 DEF DeploymentDone, AccessMissing, AttemptEffect, StaysInStage, StopsUnseen
<1>3. CASE VerifyCancelled(a)
  BY <1>1, <1>3, AttemptFacts
  DEF VerifyCancelled, AbortAttempt, ReleaseFlight, AttemptEffect, StopsUnseen
<1>4. CASE StageSucceeds(a)
  BY <1>1, <1>4, NextStageEffect DEF StageSucceeds, Statuses
<1>5. CASE StageFails(a)
  BY <1>1, <1>5, NextStageEffect, HaltStageEffect DEF StageFails, Statuses
<1>6. CASE GateGranted(a) \/ GateDenied(a)
  BY <1>1, <1>6, NextStageEffect, HaltStageEffect DEF GateGranted, GateDenied, Statuses
<1> QED BY <1>2, <1>3, <1>4, <1>5, <1>6 DEF AttemptStep

LEMMA QuietFrame ==
    ASSUME QuietInv, \A b \in Gens : Live(b)' => Live(b),
           UNCHANGED <<waiters, finishing, inFlight, cancelled, runGeneration, runOf, activeRun>>
    PROVE  OneAtWork'
PROOF BY DEF QuietInv, OneAtWork

\* A new attempt starts when nothing is in flight: whatever else runs is older and was
\* told to stop.
LEMMA StartIsAlone ==
    ASSUME QuietInv, NEW r, NEW i, StartAttempt(r, i), GenerationLeft, inFlight = None,
           activeRun' = r, waiters' = <<>>, \A k \in Kinds : finishing'[k] = 0
    PROVE  OneAtWork'
<1> DEFINE a == runGeneration + 1
<1>1. /\ runGeneration \in Nat /\ MaxGen \in Nat /\ waiters = <<>> /\ Len(waiters) = 0
      /\ pc \in [Gens -> PCs] /\ runOf \in [Gens -> Runs \cup {None}]
  BY BoundsAssumption
  DEF QuietInv, OneAtWork, IInv, TypeOK, FlightTypeOK, AttemptTypeOK
<1>2. a \in Gens /\ a # runGeneration
  BY <1>1 DEF GenerationLeft, Gens
<1>3. /\ inFlight' = a /\ runGeneration' = a /\ cancelled' = cancelled
      /\ runOf' = [runOf EXCEPT ![a] = r] /\ pc' = [pc EXCEPT ![a] = "working"]
  BY DEF StartAttempt
<1>4. pc[a] = "idle" /\ a \notin cancelled
  BY <1>1, <1>2 DEF QuietInv, IInv, Bookkeeping
<1>5. \A b \in Gens : b # a /\ Live(b)' => b \in cancelled /\ b # a
  <2> SUFFICES ASSUME NEW b \in Gens, b # a, Live(b)' PROVE b \in cancelled
    OBVIOUS
  <2>1. Live(b) /\ b # inFlight
    BY <1>1, <1>2, <1>3, NoneAssumption DEF Live, Gens
  <2> QED BY <2>1 DEF QuietInv, OneAtWork
<1>6. runOf'[a] = r
  BY <1>1, <1>2, <1>3
<1> HIDE DEF a
<1> QED BY <1>2, <1>3, <1>4, <1>5, <1>6 DEF OneAtWork

LEMMA FinishIsAlone ==
    ASSUME QuietInv, NEW k \in Kinds, Finish(k)
    PROVE  OneAtWork'
<1>1. Quiet
  BY DEF Finish, QuietInv
<1>2. /\ finishing \in [Kinds -> Nat] /\ \A j \in Kinds : finishing[j] = 0
      /\ inFlight = None
  BY <1>1 DEF Quiet, QuietInv, IInv, TypeOK, PanelTypeOK
<1>3. /\ UNCHANGED <<waiters, inFlight, cancelled, runGeneration, runOf, activeRun, pc>>
      /\ finishing' = [finishing EXCEPT ![k] = @ + 1]
  BY DEF Finish, flightVars, attemptVars
<1>4. \A j \in Kinds : finishing'[j] = IF j = k THEN 1 ELSE 0
  BY <1>2, <1>3
<1> QED BY <1>2, <1>3, <1>4 DEF OneAtWork, QuietInv, Live

LEMMA NextIsAlone ==
    ASSUME QuietInv, [Next]_vars
    PROVE  OneAtWork'
<1>0. /\ waiters = <<>> /\ Superseding = FALSE /\ IInv
      /\ finishing \in [Kinds -> Nat] /\ pc \in [Gens -> PCs]
  BY DEF QuietInv, OneAtWork, IInv, TypeOK, PanelTypeOK, AttemptTypeOK
<1>1. ASSUME NEW n \in 1 .. Len(waiters), ResumeWaiter(n) PROVE OneAtWork'
  BY <1>0, <1>1
<1>2. ASSUME NEW a \in Gens, AttemptStep(a) PROVE OneAtWork'
  <2>1. Progresses(a)
    BY <1>0, <1>2, AttemptStepProgresses
  <2>2. /\ UNCHANGED <<waiters, finishing, cancelled, runGeneration, runOf, activeRun>>
        /\ \A b \in Gens : b # a => pc'[b] = pc[b]
        /\ inFlight' = inFlight \/ (inFlight' = None /\ inFlight = a /\ pc'[a] = "done")
        /\ Live(a)
    BY <1>0, <2>1 DEF Progresses, AttemptFrame, ReleaseFlight, Live
  <2>3. \A b \in Gens : Live(b)' => Live(b)
    BY <2>2 DEF Live
  <2> QED BY <2>2, <2>3 DEF QuietInv, OneAtWork, Live
<1>3. ASSUME NEW a \in Gens, PromptReady(a) PROVE OneAtWork'
  <2>1. /\ UNCHANGED <<waiters, finishing, inFlight, cancelled, runGeneration, runOf, activeRun>>
        /\ pc[a] = "prompting"
        /\ pc' = [b \in Gens |-> IF b = a THEN "waiting"
                                  ELSE IF b = gate THEN "denied" ELSE pc[b]]
    BY <1>3 DEF PromptReady, AttemptFrame
  <2>2. \A b \in Gens : Live(b)' => Live(b)
    BY <1>0, <2>1 DEF Live, IInv, GateWaitersReachable
  <2> QED BY <2>1, <2>2, QuietFrame
<1>4. ASSUME NEW a \in Gens, EarlyStep(a) \/ TickReads(a) PROVE OneAtWork'
  <2>1. EarlyFrame
    BY <1>4 DEF EarlyStep, TickReads, TickAnswered, EarlyGranted, EarlyOver
  <2> QED BY <2>1, QuietFrame DEF EarlyFrame, AttemptFrame, Live
<1>5. ASSUME NEW a \in Gens, RecheckAnswered(a) PROVE OneAtWork'
  <2>1. /\ UNCHANGED <<waiters, finishing, inFlight, cancelled, runGeneration, runOf, activeRun>>
        /\ pc' = pc \/ (gate = a /\ pc' = [pc EXCEPT ![a] = "granted"])
    BY <1>5 DEF RecheckAnswered, RecheckGranted, RecheckBlocked, panelVars, flightVars
  <2>2. \A b \in Gens : Live(b)' => Live(b)
    BY <1>0, <2>1 DEF Live, IInv, GateWaitersReachable
  <2> QED BY <2>1, <2>2, QuietFrame
<1>6. ASSUME NEW k \in Kinds, SelectionSaved(k) PROVE OneAtWork'
  <2>1. inFlight = None /\ \A j \in Kinds : finishing[j] = IF j = k THEN 1 ELSE 0
    BY <1>6 DEF SelectionSaved, QuietInv, OneAtWork
  <2>2. finishing' = [finishing EXCEPT ![k] = @ - 1]
    BY <1>6 DEF SelectionSaved
  <2>3. \A j \in Kinds : finishing'[j] = 0
    BY <1>0, <2>1, <2>2
  <2>4. GenerationLeft /\ StartAttempt(nextRunId, 1) /\ waiters' = waiters
        /\ activeRun' = nextRunId
    BY <1>6, <2>1 DEF SelectionSaved, RunProvisioningAttempt
  <2> QED BY <1>0, <2>1, <2>3, <2>4, StartIsAlone
<1>7. ASSUME NEW r \in Runs, NEW i \in StageIndices, RetryStageRequest(r, i) PROVE OneAtWork'
  <2>1. CASE activeRun # r
    BY <1>7, <2>1, FinishIsAlone DEF RetryStageRequest
  <2>2. CASE activeRun = r
    <3>1. /\ Quiet /\ RunProvisioningAttempt(r, RetryFrom(kind[r], i))
          /\ UNCHANGED <<activeRun, finishing>>
      BY <1>0, <1>7, <2>2 DEF RetryStageRequest
    <3>2. GenerationLeft /\ StartAttempt(r, RetryFrom(kind[r], i)) /\ waiters' = waiters
          /\ inFlight = None /\ \A j \in Kinds : finishing'[j] = 0
      BY <3>1 DEF RunProvisioningAttempt, Quiet
    <3> QED BY <1>0, <2>2, <3>1, <3>2, StartIsAlone
  <2> QED BY <2>1, <2>2
<1>8. CASE BackToSetupRequest
  <2>1. /\ cancelled' = cancelled \cup ({inFlight} \ {None})
        /\ UNCHANGED <<waiters, finishing, runOf>>
        /\ inFlight' = None /\ runGeneration' = runGeneration + 1
        /\ \A k \in Kinds : finishing[k] = 0
    BY <1>0, <1>8
    DEF BackToSetupRequest, CancelActiveToken, AbandonFlight, IInv, TokenTracksFlight
  <2>2. \A b \in Gens : Live(b)' => Live(b)
    BY <1>0, <1>8, GateCancelled DEF BackToSetupRequest, Live
  <2>3. ASSUME NEW b \in Gens, Live(b)' PROVE b \in cancelled' /\ b # runGeneration'
    <3>1. Live(b)
      BY <2>2, <2>3
    <3>2. b \in cancelled \/ b = inFlight
      BY <3>1 DEF QuietInv, OneAtWork
    <3>3. ~(b > runGeneration)
      BY <1>0, <3>1 DEF IInv, Bookkeeping, Live
    <3>4. b \in Int /\ b # None /\ runGeneration \in Nat
      BY <1>0, NoneAssumption DEF Gens, IInv, TypeOK, FlightTypeOK
    <3> QED BY <2>1, <3>2, <3>3, <3>4
  <2> QED BY <1>0, <2>1, <2>3 DEF OneAtWork
<1>9. ASSUME NEW r \in Runs, RecheckRequest(r) PROVE OneAtWork'
  BY <1>9, QuietFrame DEF RecheckRequest, panelVars, flightVars, attemptVars, Live
<1>10. CASE ContinueInChatRequest \/ KubeloginSettles \/ UNCHANGED vars
  BY <1>10, QuietFrame
  DEF ContinueInChatRequest, KubeloginSettles, vars, panelVars, flightVars, attemptVars, Live
<1>11. CASE Microtask
  BY <1>1, <1>2, <1>11 DEF Microtask, AttemptStep
<1>12. ASSUME NEW a \in Gens, StageStep(a) PROVE OneAtWork'
  BY <1>2, <1>3, <1>12 DEF StageStep, AttemptStep
<1>13. CASE UserRequest
  BY <1>7, <1>8, <1>9, <1>10, <1>13, FinishIsAlone DEF UserRequest, FinishRequest, RetryRequest
<1> QED BY <1>4, <1>5, <1>6, <1>10, <1>11, <1>12, <1>13 DEF Next

-----------------------------------------------------------------------------
(* What the page will show                                                 *)

(* Once page w has received the messages q, in their order, it is page p.   *)
Leads(w, q, p) ==
    \E pages \in [0 .. Len(q) -> Pages] :
        /\ pages[0] = w /\ pages[Len(q)] = p
        /\ \A n \in 1 .. Len(q) : pages[n] = Received(pages[n - 1], q[n])

NoResult(q) == \A n \in 1 .. Len(q) : q[n].type # "finishComplete"

(* Page p, the one on the screen when all is delivered, fits the panel.     *)
Agrees(p) ==
    /\ p.run # None => p.run < nextRunId
    /\ Busy => p.stage = "provisioning"
    /\ inFlight # None => p.run = activeRun /\ p.stages[at[inFlight]] = "running"
    /\ gate # None /\ gate = inFlight => p.access = runOf[gate]
    /\ p.stage = "complete" /\ p.result = "ok" => complete /\ lastProvisioned # None

Outlook == \E p \in Pages : Leads(web, toWebview, p) /\ Agrees(p)

(* No result is due while the panel is at work, so the page waits for it.   *)
ResultAwaited == Busy => web.stage = "provisioning" /\ NoResult(toWebview)

ViewInv == toWebview \in Seq(Posted) /\ ResultAwaited /\ Outlook

SessionInv == QuietInv /\ EarlyOfRuns /\ ViewInv

LEMMA LeadsNowhere ==
    ASSUME NEW w, NEW p
    PROVE  Leads(w, <<>>, p) <=> w \in Pages /\ p = w
<1>1. Len(<<>>) = 0
  OBVIOUS
<1>2. ASSUME Leads(w, <<>>, p) PROVE w \in Pages /\ p = w
  BY <1>1, <1>2 DEF Leads
<1>3. ASSUME w \in Pages, p = w PROVE Leads(w, <<>>, p)
  <2> DEFINE pages == [n \in 0 .. 0 |-> w]
  <2>1. pages \in [0 .. 0 -> Pages] /\ pages[0] = w
    BY <1>3
  <2>2. \A n \in 1 .. 0 : pages[n] = Received(pages[n - 1], <<>>[n])
    OBVIOUS
  <2> HIDE DEF pages
  <2> QED BY <1>1, <1>3, <2>1, <2>2 DEF Leads
<1> QED BY <1>2, <1>3

LEMMA LeadsOn ==
    ASSUME NEW w, NEW q \in Seq(Posted), NEW p, Leads(w, q, p), NEW m \in Posted
    PROVE  /\ Append(q, m) \in Seq(Posted)
           /\ Received(p, m) \in Pages
           /\ Leads(w, Append(q, m), Received(p, m))
           /\ NoResult(q) /\ m.type # "finishComplete" => NoResult(Append(q, m))
<1> DEFINE len == Len(q)
<1>1. PICK pages \in [0 .. len -> Pages] :
         /\ pages[0] = w /\ pages[len] = p
         /\ \A n \in 1 .. len : pages[n] = Received(pages[n - 1], q[n])
  BY DEF Leads
<1>2. len \in Nat /\ Append(q, m) \in Seq(Posted) /\ Len(Append(q, m)) = len + 1
      /\ \A n \in 1 .. len + 1 : Append(q, m)[n] = IF n = len + 1 THEN m ELSE q[n]
  BY AppendProperties, LenProperties
<1>3. Received(p, m) \in Pages
  <2>1. len \in 0 .. len
    BY <1>2
  <2>2. p \in Pages
    BY <1>1, <2>1
  <2> QED BY <2>2, ReceivedShape
<1>4. Leads(w, Append(q, m), Received(p, m))
  <2> HIDE DEF len
  <2> DEFINE more == [n \in 0 .. len + 1 |-> IF n = len + 1 THEN Received(p, m) ELSE pages[n]]
  <2>1. more \in [0 .. len + 1 -> Pages]
    <3>1. \A n \in 0 .. len + 1 : n # len + 1 => n \in 0 .. len
      BY <1>2
    <3> QED BY <1>1, <1>3, <3>1
  <2>2. more[0] = w /\ more[len + 1] = Received(p, m)
    BY <1>1, <1>2
  <2>3. ASSUME NEW n \in 1 .. len + 1
        PROVE  more[n] = Received(more[n - 1], Append(q, m)[n])
    <3>1. CASE n = len + 1
      <4>1. n - 1 = len /\ len # len + 1 /\ len \in 0 .. len + 1 /\ n \in 0 .. len + 1
        BY <1>2, <3>1
      <4>2. more[n - 1] = p /\ more[n] = Received(p, m)
        BY <1>1, <3>1, <4>1
      <4> QED BY <1>2, <3>1, <4>2
    <3>2. CASE n # len + 1
      <4>1. /\ n \in 1 .. len /\ n \in 0 .. len + 1 /\ n - 1 \in 0 .. len + 1
            /\ n - 1 # len + 1
        BY <1>2, <3>2
      <4>2. more[n] = pages[n] /\ more[n - 1] = pages[n - 1]
        BY <3>2, <4>1
      <4>3. Append(q, m)[n] = q[n]
        BY <1>2, <3>2
      <4> QED BY <1>1, <4>1, <4>2, <4>3
    <3> QED BY <3>1, <3>2
  <2> HIDE DEF more
  <2> QED BY <1>2, <2>1, <2>2, <2>3 DEF Leads
<1>5. NoResult(q) /\ m.type # "finishComplete" => NoResult(Append(q, m))
  BY <1>2 DEF NoResult
<1> QED BY <1>2, <1>3, <1>4, <1>5

LEMMA LeadsAfterNext ==
    ASSUME NEW w, NEW q \in Seq(Posted), NEW p, Leads(w, q, p), q # <<>>
    PROVE  /\ w \in Pages /\ Head(q) \in Posted /\ Tail(q) \in Seq(Posted)
           /\ Leads(Received(w, Head(q)), Tail(q), p)
           /\ NoResult(q) => NoResult(Tail(q)) /\ Head(q).type # "finishComplete"
<1> DEFINE len == Len(q)
<1>1. PICK pages \in [0 .. len -> Pages] :
         /\ pages[0] = w /\ pages[len] = p
         /\ \A n \in 1 .. len : pages[n] = Received(pages[n - 1], q[n])
  BY DEF Leads
<1>2. /\ len \in Nat /\ len >= 1 /\ Head(q) = q[1] /\ Head(q) \in Posted
      /\ Tail(q) \in Seq(Posted) /\ Len(Tail(q)) = len - 1
      /\ \A n \in 1 .. len - 1 : Tail(q)[n] = q[n + 1]
  BY HeadTailProperties, LenProperties, EmptySeq
<1> HIDE DEF len
<1>3. Leads(Received(w, Head(q)), Tail(q), p)
  <2> DEFINE rest == [n \in 0 .. len - 1 |-> pages[n + 1]]
  <2>1. \A n \in 0 .. len - 1 : n + 1 \in 0 .. len /\ n + 1 \in 1 .. len
    BY <1>2
  <2>2. rest \in [0 .. len - 1 -> Pages]
    BY <1>1, <2>1
  <2>3. rest[0] = Received(w, Head(q))
    <3>1. 0 \in 0 .. len - 1 /\ 1 \in 1 .. len /\ 0 + 1 = 1 /\ 1 - 1 = 0
      BY <1>2
    <3>2. rest[0] = pages[1]
      BY <3>1
    <3> QED BY <1>1, <1>2, <3>1, <3>2
  <2>4. rest[len - 1] = p
    <3>1. len - 1 \in 0 .. len - 1 /\ (len - 1) + 1 = len
      BY <1>2
    <3> QED BY <1>1, <3>1
  <2>5. ASSUME NEW n \in 1 .. len - 1 PROVE rest[n] = Received(rest[n - 1], Tail(q)[n])
    <3>1. /\ n \in 0 .. len - 1 /\ n - 1 \in 0 .. len - 1 /\ n + 1 \in 1 .. len
          /\ (n - 1) + 1 = n /\ (n + 1) - 1 = n
      BY <1>2
    <3>2. rest[n] = pages[n + 1] /\ rest[n - 1] = pages[n]
      BY <3>1
    <3>3. pages[n + 1] = Received(pages[n], q[n + 1])
      BY <1>1, <3>1
    <3> QED BY <1>2, <3>2, <3>3
  <2> HIDE DEF rest
  <2> QED BY <1>2, <2>2, <2>3, <2>4, <2>5 DEF Leads
<1>4. NoResult(q) => NoResult(Tail(q)) /\ Head(q).type # "finishComplete"
  BY <1>2 DEF NoResult, len
<1>5. w \in Pages
  BY <1>1, <1>2
<1> QED BY <1>2, <1>3, <1>4, <1>5

LEMMA OneSent ==
    ASSUME SendPosts, toWebview \in Seq(Posted), NEW m \in Posted, posts' = <<m>>
    PROVE  toWebview' = Append(toWebview, m)
<1>1. 1 \in DOMAIN posts' /\ posts'[1] = m
  OBVIOUS
<1>2. m.type # "chat"
  BY DEF Posted
<1>3. toWebview' = toWebview \o <<m>>
  BY <1>1, <1>2 DEF SendPosts
<1> QED BY <1>3

LEMMA TwoSent ==
    ASSUME SendPosts, toWebview \in Seq(Posted), NEW m \in Posted, NEW o \in Posted,
           posts' = <<m, o>>
    PROVE  toWebview' = Append(Append(toWebview, m), o)
<1>1. 1 \in DOMAIN posts' /\ posts'[1] = m
  OBVIOUS
<1>2. m.type # "chat"
  BY DEF Posted
<1>3. toWebview' = toWebview \o <<m, o>>
  BY <1>1, <1>2 DEF SendPosts
<1> QED BY <1>3

\* A step that posts nothing and leaves alone what the page shows.
LEMMA UnseenKeepsView ==
    ASSUME SessionInv, SendPosts, web' = web,
           \A n \in DOMAIN posts' : posts'[n].type = "chat",
           UNCHANGED <<nextRunId, inFlight, activeRun, finishing, gate, runOf>>,
           inFlight # None => at'[inFlight] = at[inFlight],
           (complete => complete') /\ (lastProvisioned # None => lastProvisioned' # None)
    PROVE  ViewInv'
<1>1. toWebview' = toWebview
  BY NothingSent
<1>2. Busy' <=> Busy
  BY DEF Busy
<1>3. PICK p \in Pages : Leads(web, toWebview, p) /\ Agrees(p)
  BY DEF SessionInv, ViewInv, Outlook
<1>4. Agrees(p)'
  BY <1>2, <1>3 DEF Agrees
<1> QED BY <1>1, <1>2, <1>3, <1>4 DEF SessionInv, ViewInv, ResultAwaited, Outlook, Leads

\* A step that posts one message, which is not a result.
LEMMA OneSeen ==
    ASSUME SessionInv, SendPosts, web' = web, Busy' => Busy,
           NEW m \in Posted, m.type # "finishComplete", posts' = <<m>>
    PROVE  /\ toWebview' \in Seq(Posted) /\ ResultAwaited'
           /\ \E p \in Pages, next \in Pages :
                 Agrees(p) /\ next = Received(p, m) /\ Leads(web', toWebview', next)
<1>1. toWebview' = Append(toWebview, m)
  BY OneSent DEF SessionInv, ViewInv
<1>2. PICK p \in Pages : Leads(web, toWebview, p) /\ Agrees(p)
  BY DEF SessionInv, ViewInv, Outlook
<1>3. /\ Append(toWebview, m) \in Seq(Posted) /\ Received(p, m) \in Pages
      /\ Leads(web, Append(toWebview, m), Received(p, m))
      /\ NoResult(toWebview) => NoResult(Append(toWebview, m))
  BY <1>2, LeadsOn DEF SessionInv, ViewInv
<1>4. ResultAwaited'
  BY <1>1, <1>3 DEF SessionInv, ViewInv, ResultAwaited, NoResult
<1> QED BY <1>1, <1>2, <1>3, <1>4

LEMMA NextStageSeen ==
    ASSUME SessionInv, NEW a \in Gens, Live(a), TakesNext(a), AttemptFrame, UNCHANGED gate,
           SendPosts, web' = web
    PROVE  ViewInv'
<1> DEFINE r == runOf[a]
<1> DEFINE i == at[a]
<1>1. /\ r \in Runs /\ i \in StageIndices /\ i + 1 \in StageIndices
      /\ a = inFlight /\ a # None /\ r = activeRun /\ i # i + 1 /\ r # None /\ r \in Int
  BY AttemptFacts, NoneAssumption
  DEF SessionInv, TakesNext, Runs, StageIndices
<1>2. PICK status \in Statuses :
         posts' = <<Snapshot(r, i, status), Snapshot(r, i + 1, "running")>>
  BY DEF TakesNext
<1> DEFINE m == Snapshot(r, i, status)
<1> DEFINE o == Snapshot(r, i + 1, "running")
<1>3. /\ m \in Posted /\ m.type = "snapshot" /\ m.run = r /\ m.stage = i /\ m.status = status
      /\ o \in Posted /\ o.type = "snapshot" /\ o.run = r /\ o.stage = i + 1
      /\ o.status = "running"
  BY <1>1 DEF Snapshot, Posted, Statuses
<1>4. posts' = <<m, o>>
  BY <1>2
<1> HIDE DEF m, o
<1>5. PICK p \in Pages : Leads(web, toWebview, p) /\ Agrees(p)
  BY DEF SessionInv, ViewInv, Outlook
<1>6. toWebview' = Append(Append(toWebview, m), o) /\ toWebview \in Seq(Posted)
  BY <1>3, <1>4, TwoSent DEF SessionInv, ViewInv
<1>7. /\ Append(toWebview, m) \in Seq(Posted) /\ Received(p, m) \in Pages
      /\ Leads(web, Append(toWebview, m), Received(p, m))
      /\ NoResult(toWebview) => NoResult(Append(toWebview, m))
  BY <1>3, <1>5, <1>6, LeadsOn
<1> DEFINE next == Received(Received(p, m), o)
<1>8. /\ toWebview' \in Seq(Posted) /\ next \in Pages
      /\ Leads(web, toWebview', next)
      /\ NoResult(toWebview) => NoResult(toWebview')
  BY <1>3, <1>6, <1>7, LeadsOn
<1>9. p.run = r /\ p.stage = "provisioning"
  BY <1>1, <1>5 DEF Agrees, Busy
<1>10. Received(p, m) = [p EXCEPT !.stages[i] = status]
  BY <1>1, <1>3, <1>9 DEF Received, ApplySnapshot
<1>11. Received(p, m).run = r /\ Received(p, m).stage = "provisioning"
       /\ Received(p, m).access = p.access
  BY <1>9, <1>10 DEF Pages
<1>12. next = [Received(p, m) EXCEPT !.stages[i + 1] = "running"]
  BY <1>1, <1>3, <1>11 DEF Received, ApplySnapshot
<1>13. /\ next.run = r /\ next.stage = "provisioning" /\ next.access = p.access
       /\ next.stages[i + 1] = "running"
  BY <1>1, <1>7, <1>11, <1>12 DEF Pages
<1> HIDE DEF next
<1>14. PICK n \in Pages : n = next
  BY <1>8
<1>15. Agrees(n)'
  <2>1. UNCHANGED <<nextRunId, inFlight, activeRun, gate, runOf>> /\ at'[a] = i + 1
    BY DEF AttemptFrame, TakesNext
  <2> QED BY <1>1, <1>5, <1>9, <1>13, <1>14, <2>1 DEF Agrees
<1>16. ResultAwaited'
  <2>1. Busy
    BY <1>1 DEF Busy
  <2> QED BY <1>8, <2>1 DEF SessionInv, ViewInv, ResultAwaited, NoResult
<1> QED BY <1>8, <1>14, <1>15, <1>16 DEF ViewInv, Outlook, Leads

LEMMA EndSeen ==
    ASSUME SessionInv, NEW a \in Gens, Live(a), Ends(a), AttemptFrame, UNCHANGED gate,
           SendPosts, web' = web
    PROVE  ViewInv'
<1> DEFINE r == runOf[a]
<1> DEFINE i == at[a]
<1>1. /\ r \in Runs /\ i \in StageIndices /\ a = inFlight /\ a # None
      /\ r = activeRun /\ r # None /\ r \in Int
  BY AttemptFacts, NoneAssumption DEF SessionInv, Ends, Runs
<1>2. PICK status \in Statuses, ok \in BOOLEAN :
         /\ posts' = <<Snapshot(r, i, status),
                       [type |-> "finishComplete", run |-> r, by |-> a, ok |-> ok]>>
         /\ ok => complete' /\ lastProvisioned' \in Runs
  BY DEF Ends
<1> DEFINE m == Snapshot(r, i, status)
<1> DEFINE o == [type |-> "finishComplete", run |-> r, by |-> a, ok |-> ok]
<1>3. /\ m \in Posted /\ m.type = "snapshot" /\ m.run = r /\ m.stage = i /\ m.status = status
      /\ o \in Posted /\ o.type = "finishComplete" /\ o.ok = ok
  BY <1>1 DEF Snapshot, Posted
<1>4. posts' = <<m, o>>
  BY <1>2
<1> HIDE DEF m, o
<1>5. PICK p \in Pages : Leads(web, toWebview, p) /\ Agrees(p)
  BY DEF SessionInv, ViewInv, Outlook
<1>6. toWebview' = Append(Append(toWebview, m), o) /\ toWebview \in Seq(Posted)
  BY <1>3, <1>4, TwoSent DEF SessionInv, ViewInv
<1>7. /\ Append(toWebview, m) \in Seq(Posted) /\ Received(p, m) \in Pages
      /\ Leads(web, Append(toWebview, m), Received(p, m))
  BY <1>3, <1>5, <1>6, LeadsOn
<1> DEFINE next == Received(Received(p, m), o)
<1>8. toWebview' \in Seq(Posted) /\ next \in Pages /\ Leads(web, toWebview', next)
  BY <1>3, <1>6, <1>7, LeadsOn
<1>9. p.run = r
  BY <1>1, <1>5 DEF Agrees
<1>10. Received(p, m) = [p EXCEPT !.stages[i] = status]
  BY <1>1, <1>3, <1>9 DEF Received, ApplySnapshot
<1>11. Received(p, m).run = r
  BY <1>9, <1>10 DEF Pages
<1>12. next = [Received(p, m) EXCEPT !.stage = "complete",
                                    !.result = IF ok THEN "ok" ELSE "failed", !.access = None]
  BY <1>3 DEF Received
<1>13. next.run = r /\ (next.result = "ok" => ok)
  BY <1>7, <1>11, <1>12 DEF Pages
<1> HIDE DEF next
<1>14. PICK n \in Pages : n = next
  BY <1>8
<1>15. ~Busy' /\ inFlight' = None
  <2>1. \A k \in Kinds : ~(finishing[k] > 0)
    BY <1>1 DEF SessionInv, QuietInv, OneAtWork
  <2> QED BY <2>1 DEF Ends, Busy, AttemptFrame
<1>16. Agrees(n)'
  <2>1. nextRunId' = nextRunId /\ r < nextRunId
    BY <1>1, <1>5, <1>9 DEF AttemptFrame, Agrees
  <2>2. None \notin Runs
    BY NoneAssumption DEF Runs
  <2> QED BY <1>2, <1>13, <1>14, <1>15, <2>1, <2>2 DEF Agrees
<1> QED BY <1>8, <1>14, <1>15, <1>16 DEF ViewInv, ResultAwaited, Outlook, Leads

LEMMA AttemptSeen ==
    ASSUME SessionInv, NEW a \in Gens, AttemptStep(a), SendPosts, web' = web
    PROVE  ViewInv'
<1>1. Progresses(a) /\ AttemptEffect(a)
  BY AttemptStepProgresses, AttemptHasEffect DEF SessionInv, QuietInv
<1>2. Live(a) /\ AttemptFrame /\ UNCHANGED gate
  BY <1>1 DEF Progresses, Live, gateVars
<1>3. CASE StopsUnseen(a) \/ StaysInStage(a)
  <2>1. UNCHANGED <<nextRunId, inFlight, activeRun, finishing, gate, runOf, complete,
                    lastProvisioned>>
        /\ posts' = <<>>
    BY <1>2, <1>3 DEF AttemptFrame, StopsUnseen, StaysInStage
  <2>2. inFlight # None => at'[inFlight] = at[inFlight]
    <3>1. at \in [Gens -> StageIndices] /\ (inFlight # None => inFlight \in Gens)
      BY DEF SessionInv, QuietInv, IInv, TypeOK, AttemptTypeOK, FlightTypeOK
    <3>2. at' = at \/ (a # inFlight /\ at' = [at EXCEPT ![a] = @ + 1])
      BY <1>1, <1>3 DEF Progresses, StopsUnseen, StaysInStage
    <3> QED BY <3>1, <3>2
  <2>3. \A n \in DOMAIN posts' : posts'[n].type = "chat"
    BY <2>1
  <2> QED BY <2>1, <2>2, <2>3, UnseenKeepsView
<1> QED BY <1>1, <1>2, <1>3, NextStageSeen, EndSeen DEF AttemptEffect

LEMMA PromptSeen ==
    ASSUME SessionInv, NEW a \in Gens, PromptReady(a), SendPosts, web' = web
    PROVE  ViewInv'
<1> DEFINE r == runOf[a]
<1>1. r \in Runs
  BY DEF SessionInv, QuietInv, IInv, TypeOK, AttemptTypeOK, PromptReady
<1> DEFINE m == [type |-> "awaitingAccess", run |-> r]
<1>2. m \in Posted /\ m.type = "awaitingAccess" /\ m.run = r /\ posts' = <<m>>
  BY <1>1 DEF Posted, PromptReady
<1> HIDE DEF m
<1>3. UNCHANGED <<nextRunId, inFlight, activeRun, finishing, runOf, at, complete,
                  lastProvisioned>>
      /\ gate' = a
  BY DEF PromptReady, AttemptFrame
<1>4. Busy' <=> Busy
  BY <1>3 DEF Busy
<1>5. toWebview' \in Seq(Posted) /\ ResultAwaited'
  BY <1>2, <1>4, OneSeen
<1>6. PICK p \in Pages, next \in Pages :
         Agrees(p) /\ next = Received(p, m) /\ Leads(web', toWebview', next)
  BY <1>2, <1>4, OneSeen
<1>7. next = [p EXCEPT !.access = r]
  BY <1>2, <1>6 DEF Received
<1>8. /\ next.run = p.run /\ next.stage = p.stage /\ next.stages = p.stages
      /\ next.access = r /\ next.result = p.result
  BY <1>7 DEF Pages
<1>9. Agrees(next)'
  BY <1>3, <1>4, <1>6, <1>8 DEF Agrees
<1> QED BY <1>5, <1>6, <1>9 DEF ViewInv, Outlook, Leads

LEMMA EarlySeen ==
    ASSUME SessionInv, NEW a \in Gens, EarlyStep(a) \/ TickReads(a), SendPosts, web' = web
    PROVE  ViewInv'
<1> DEFINE r == runOf[a]
<1>0. UNCHANGED <<nextRunId, inFlight, activeRun, finishing, gate, runOf, at, complete>>
  BY DEF EarlyStep, TickReads, TickAnswered, EarlyGranted, EarlyOver, EarlyFrame, AttemptFrame,
         gateVars
<1>1. \/ posts' = <<>> /\ lastProvisioned' = lastProvisioned
      \/ /\ early[a] = "granting" /\ lastProvisioned' = r
         /\ posts' = <<[type |-> "clusterChatReady", run |-> r]>>
  BY DEF EarlyStep, TickReads, TickAnswered, EarlyGranted, EarlyOver
<1>2. CASE posts' = <<>> /\ lastProvisioned' = lastProvisioned
  <2>1. \A n \in DOMAIN posts' : posts'[n].type = "chat"
    BY <1>2
  <2> QED BY <1>0, <1>2, <2>1, UnseenKeepsView
<1>3. CASE /\ early[a] = "granting" /\ lastProvisioned' = r
           /\ posts' = <<[type |-> "clusterChatReady", run |-> r]>>
  <2>1. r \in Runs /\ r # None
    BY <1>3 DEF SessionInv, EarlyOfRuns, QuietInv, IInv, TypeOK, AttemptTypeOK
  <2> DEFINE m == [type |-> "clusterChatReady", run |-> r]
  <2>2. m \in Posted /\ m.type = "clusterChatReady" /\ posts' = <<m>>
    BY <1>3, <2>1 DEF Posted
  <2> HIDE DEF m
  <2>3. Busy' <=> Busy
    BY <1>0 DEF Busy
  <2>4. toWebview' \in Seq(Posted) /\ ResultAwaited'
    BY <2>2, <2>3, OneSeen
  <2>5. PICK p \in Pages, next \in Pages :
           Agrees(p) /\ next = Received(p, m) /\ Leads(web', toWebview', next)
    BY <2>2, <2>3, OneSeen
  <2>6. next = [p EXCEPT !.chat = TRUE]
    BY <2>2, <2>5 DEF Received
  <2>7. /\ next.run = p.run /\ next.stage = p.stage /\ next.stages = p.stages
        /\ next.access = p.access /\ next.result = p.result
    BY <2>6 DEF Pages
  <2>8. Agrees(next)'
    BY <1>0, <1>3, <2>1, <2>3, <2>5, <2>7 DEF Agrees
  <2> QED BY <2>4, <2>5, <2>8 DEF ViewInv, Outlook, Leads
<1> QED BY <1>1, <1>2, <1>3

LEMMA RecheckSeen ==
    ASSUME SessionInv, NEW a \in Gens, RecheckAnswered(a), SendPosts, web' = web
    PROVE  ViewInv'
<1> DEFINE r == runOf[a]
<1>0. UNCHANGED <<nextRunId, inFlight, activeRun, finishing, runOf, at, complete,
                  lastProvisioned>>
  BY DEF RecheckAnswered, panelVars, flightVars
<1>1. CASE gate # a /\ posts' = <<>> /\ UNCHANGED gate
  <2>1. \A n \in DOMAIN posts' : posts'[n].type = "chat"
    BY <1>1
  <2> QED BY <1>0, <1>1, <2>1, UnseenKeepsView
<1>2. CASE gate = a /\ (RecheckGranted(a) \/ RecheckBlocked(a))
  <2>1. r \in Runs
    BY <1>2 DEF SessionInv, QuietInv, IInv, TypeOK, AttemptTypeOK, GateWaitersReachable
  <2>2. PICK type \in {"awaitingAccess", "accessResolved"} :
           /\ posts' = <<[type |-> type, run |-> r]>>
           /\ gate' = IF type = "awaitingAccess" THEN a ELSE None
    BY <1>2 DEF RecheckGranted, RecheckBlocked
  <2> DEFINE m == [type |-> type, run |-> r]
  <2>3. m \in Posted /\ m.type = type /\ m.run = r /\ posts' = <<m>>
    BY <2>1, <2>2 DEF Posted
  <2> HIDE DEF m
  <2>4. Busy' <=> Busy
    BY <1>0 DEF Busy
  <2>5. toWebview' \in Seq(Posted) /\ ResultAwaited'
    BY <2>2, <2>3, <2>4, OneSeen
  <2>6. PICK p \in Pages, next \in Pages :
           Agrees(p) /\ next = Received(p, m) /\ Leads(web', toWebview', next)
    BY <2>2, <2>3, <2>4, OneSeen
  <2>7. \E x \in Runs \cup {None} :
           next = [p EXCEPT !.access = x] /\ (type = "awaitingAccess" => x = r)
    <3>1. CASE type = "awaitingAccess"
      BY <2>1, <2>3, <2>6, <3>1 DEF Received
    <3>2. CASE type = "accessResolved"
      <4>1. next = p \/ next = [p EXCEPT !.access = None]
        BY <2>3, <2>6, <3>2 DEF Received
      <4>2. p = [p EXCEPT !.access = p.access] /\ p.access \in Runs \cup {None}
        BY DEF Pages
      <4> QED BY <3>2, <4>1, <4>2
    <3> QED BY <2>2, <3>1, <3>2
  <2>8. /\ next.run = p.run /\ next.stage = p.stage /\ next.stages = p.stages
        /\ next.result = p.result /\ (type = "awaitingAccess" => next.access = r)
    BY <2>7 DEF Pages
  <2>9. Agrees(next)'
    BY <1>0, <2>2, <2>4, <2>6, <2>8 DEF Agrees
  <2> QED BY <2>5, <2>6, <2>9 DEF ViewInv, Outlook, Leads
<1> QED BY <1>1, <1>2 DEF RecheckAnswered

\* A new attempt is announced to a page that shows its run, or an older one, or none.
LEMMA StartSeen ==
    ASSUME SessionInv, NEW r \in Runs, NEW i \in StageIndices, StartAttempt(r, i),
           GenerationLeft, inFlight = None, activeRun' = r, r < nextRunId', SendPosts,
           NEW p \in Pages, Leads(web', toWebview, p), p.run # None => p.run <= r,
           p.stage = "provisioning", web'.stage = "provisioning", NoResult(toWebview)
    PROVE  ViewInv'
<1> DEFINE a == runGeneration + 1
<1>1. /\ a \in Gens /\ a # None /\ pc[a] = "idle" /\ a \notin cancelled
      /\ at \in [Gens -> StageIndices]
  <2>1. runGeneration \in Nat /\ MaxGen \in Nat /\ waiters = <<>> /\ Len(waiters) = 0
        /\ at \in [Gens -> StageIndices]
    BY BoundsAssumption
    DEF SessionInv, QuietInv, OneAtWork, IInv, TypeOK, FlightTypeOK, AttemptTypeOK
  <2>2. a \in Gens /\ a > runGeneration
    BY <2>1 DEF GenerationLeft, Gens
  <2> QED BY <2>1, <2>2, NoneAssumption DEF SessionInv, QuietInv, IInv, Bookkeeping, Gens
<1>2. gate # a
  BY <1>1 DEF SessionInv, QuietInv, IInv, GateWaitersReachable
<1> DEFINE m == Snapshot(r, i, "running")
<1>3. /\ m \in Posted /\ m.type = "snapshot" /\ m.run = r /\ m.stage = i
      /\ m.status = "running" /\ posts' = <<m>>
  BY <1>1 DEF Snapshot, Posted, Statuses, StartAttempt, Snap
<1> HIDE DEF m
<1>4. inFlight' = a /\ gate' = gate /\ at'[a] = i
  BY <1>1 DEF StartAttempt, gateVars
<1> HIDE DEF a
<1>5. toWebview' = Append(toWebview, m) /\ toWebview \in Seq(Posted)
  BY <1>3, OneSent DEF SessionInv, ViewInv
<1>6. /\ toWebview' \in Seq(Posted) /\ Received(p, m) \in Pages
      /\ Leads(web', toWebview', Received(p, m)) /\ NoResult(toWebview')
  BY <1>3, <1>5, LeadsOn
<1>7. r # None /\ r \in Int /\ (p.run # None => p.run \in Int)
  BY NoneAssumption DEF Runs, Pages
<1>8. /\ Received(p, m).run = r /\ Received(p, m).stage = "provisioning"
      /\ Received(p, m).stages[i] = "running"
  <2>1. CASE p.run = r
    <3>1. Received(p, m) = [p EXCEPT !.stages[i] = "running"]
      BY <1>3, <1>7, <2>1 DEF Received, ApplySnapshot
    <3> QED BY <2>1, <3>1 DEF Pages
  <2>2. CASE p.run # r
    <3> DEFINE listed == [NoStages EXCEPT ![i] = "running"]
    <3>1. listed[i] = "running"
      BY DEF NoStages
    <3>2. Received(p, m) = [p EXCEPT !.run = r, !.stages = listed]
      BY <1>3, <1>7, <2>2 DEF Received, ApplySnapshot
    <3> HIDE DEF listed
    <3> QED BY <3>1, <3>2 DEF Pages
  <2> QED BY <2>1, <2>2
<1>9. PICK n \in Pages : n = Received(p, m)
  BY <1>6
<1>10. Agrees(n)'
  BY <1>1, <1>2, <1>4, <1>7, <1>8, <1>9 DEF Agrees
<1>11. ResultAwaited'
  BY <1>6 DEF ResultAwaited, NoResult
<1> QED BY <1>6, <1>9, <1>10, <1>11 DEF ViewInv, Outlook, Leads

LEMMA SelectionSeen ==
    ASSUME SessionInv, NEW k \in Kinds, SelectionSaved(k), SendPosts, web' = web
    PROVE  ViewInv'
<1>1. finishing[k] > 0 /\ inFlight = None /\ Busy
  BY DEF SelectionSaved, SessionInv, QuietInv, OneAtWork, Busy
<1>2. PICK p \in Pages : Leads(web, toWebview, p) /\ Agrees(p)
  BY DEF SessionInv, ViewInv, Outlook
<1>3. /\ nextRunId \in Runs /\ nextRunId' = nextRunId + 1 /\ nextRunId \in Int
      /\ p.run # None => p.run \in Int
  BY BoundsAssumption
  DEF SelectionSaved, SessionInv, QuietInv, IInv, TypeOK, PanelTypeOK, Runs, Pages
<1>4. StartAttempt(nextRunId, 1) /\ GenerationLeft /\ activeRun' = nextRunId
  BY <1>1 DEF SelectionSaved, RunProvisioningAttempt
<1>5. p.stage = "provisioning" /\ (p.run # None => p.run <= nextRunId)
  BY <1>1, <1>2, <1>3 DEF Agrees
<1>6. web.stage = "provisioning" /\ NoResult(toWebview)
  BY <1>1 DEF SessionInv, ViewInv, ResultAwaited
<1>7. 1 \in StageIndices /\ nextRunId < nextRunId'
  BY <1>3 DEF StageIndices
<1> QED BY <1>1, <1>2, <1>3, <1>4, <1>5, <1>6, <1>7, StartSeen

LEMMA HandoffSeen ==
    ASSUME SessionInv, KubeloginSettles, SendPosts, web' = web
    PROVE  ViewInv'
<1>1. \A n \in DOMAIN posts' : posts'[n].type = "chat"
  BY HandoffsPosted DEF SessionInv, QuietInv, Handoff
<1>2. /\ UNCHANGED <<nextRunId, inFlight, activeRun, finishing, gate, runOf, at, complete,
                     lastProvisioned>>
  BY DEF KubeloginSettles, flightVars, attemptVars, gateVars
<1> QED BY <1>1, <1>2, UnseenKeepsView

LEMMA ReceiveSeen ==
    ASSUME SessionInv, Receive
    PROVE  ViewInv'
<1>1. PICK p \in Pages : Leads(web, toWebview, p) /\ Agrees(p)
  BY DEF SessionInv, ViewInv, Outlook
<1>2. /\ toWebview \in Seq(Posted) /\ toWebview # <<>>
      /\ web' = Received(web, Head(toWebview)) /\ toWebview' = Tail(toWebview)
  BY DEF SessionInv, ViewInv, Receive
<1>3. /\ web \in Pages /\ Head(toWebview) \in Posted /\ Tail(toWebview) \in Seq(Posted)
      /\ Leads(Received(web, Head(toWebview)), Tail(toWebview), p)
      /\ NoResult(toWebview) =>
            NoResult(Tail(toWebview)) /\ Head(toWebview).type # "finishComplete"
  BY <1>1, <1>2, LeadsAfterNext
<1>4. UNCHANGED <<nextRunId, inFlight, activeRun, finishing, gate, runOf, at, complete,
                  lastProvisioned>>
  BY DEF Receive, vars, panelVars, flightVars, attemptVars, gateVars
<1>5. Busy' <=> Busy
  BY <1>4 DEF Busy
<1>6. Agrees(p)'
  BY <1>1, <1>4, <1>5 DEF Agrees
<1>7. ResultAwaited'
  <2> SUFFICES ASSUME Busy' PROVE web'.stage = "provisioning" /\ NoResult(toWebview')
    BY DEF ResultAwaited, NoResult
  <2>1. web.stage = "provisioning" /\ NoResult(toWebview)
    BY <1>5 DEF SessionInv, ViewInv, ResultAwaited
  <2>2. Received(web, Head(toWebview)).stage = web.stage
    BY <1>3, <2>1, ReceivedShape
  <2> QED BY <1>2, <1>3, <2>1, <2>2
<1> QED BY <1>1, <1>2, <1>3, <1>6, <1>7 DEF ViewInv, Outlook, Leads

-----------------------------------------------------------------------------
(* Clicks, on a page that is up to date                                    *)

LEMMA UpToDate ==
    ASSUME SessionInv, toWebview = <<>>
    PROVE  web \in Pages /\ Agrees(web)
<1>1. PICK p \in Pages : Leads(web, toWebview, p) /\ Agrees(p)
  BY DEF SessionInv, ViewInv, Outlook
<1>2. p = web
  BY <1>1, LeadsNowhere
<1> QED BY <1>1, <1>2

\* A click that posts nothing leads to the page it makes of the one on the screen.
LEMMA ClickKeepsView ==
    ASSUME toWebview = <<>>, SendPosts, \A n \in DOMAIN posts' : posts'[n].type = "chat",
           NEW p \in Pages, web' = p, Agrees(p)'
    PROVE  ViewInv'
<1>1. toWebview' = <<>>
  BY NothingSent
<1>2. Leads(web', toWebview', p)
  BY <1>1, LeadsNowhere
<1>3. NoResult(toWebview') /\ toWebview' \in Seq(Posted)
  BY <1>1 DEF NoResult
<1>4. ResultAwaited'
  BY <1>3 DEF ResultAwaited, Agrees, NoResult
<1> QED BY <1>2, <1>3, <1>4 DEF ViewInv, Outlook, Leads

\* Asking for a run, on a page that turned to its stages.
LEMMA FinishSeen ==
    ASSUME SessionInv, toWebview = <<>>, SendPosts, NEW k \in Kinds, Finish(k),
           NEW p \in Pages, web' = p, p.stage = "provisioning", p.run \in {web.run, None}
    PROVE  ViewInv'
<1>1. web \in Pages /\ Agrees(web)
  BY UpToDate
<1>2. /\ posts' = <<>> /\ UNCHANGED <<nextRunId, inFlight, gate>>
      /\ inFlight = None
  BY DEF Finish, Quiet, SessionInv, QuietInv, flightVars, gateVars
<1>3. Agrees(p)'
  BY <1>1, <1>2 DEF Agrees
<1>4. \A n \in DOMAIN posts' : posts'[n].type = "chat"
  BY <1>2
<1> QED BY <1>3, <1>4, ClickKeepsView

LEMMA OnScreen == ASSUME SessionInv PROVE web \in Pages
<1>1. PICK p \in Pages : Leads(web, toWebview, p)
  BY DEF SessionInv, ViewInv, Outlook
<1>2. Len(toWebview) \in Nat
  BY LenProperties DEF SessionInv, ViewInv
<1>3. 0 \in 0 .. Len(toWebview)
  BY <1>2
<1> QED BY <1>1, <1>3 DEF Leads

LEMMA ClickFinishSeen ==
    ASSUME SessionInv, toWebview = <<>>, SendPosts, NEW k \in Kinds, ClickFinish(k)
    PROVE  ViewInv'
<1>1. web \in Pages
  BY UpToDate
<1>2. web' = [web EXCEPT !.stage = "provisioning", !.access = None, !.chat = FALSE]
      /\ Finish(k)
  BY DEF ClickFinish, FinishRequest
<1>3. web' \in Pages /\ web'.stage = "provisioning" /\ web'.run = web.run
  BY <1>1, <1>2 DEF Pages
<1>4. PICK p \in Pages : p = web'
  BY <1>3
<1> QED BY <1>2, <1>3, <1>4, FinishSeen

LEMMA TryAgainSeen ==
    ASSUME SessionInv, toWebview = <<>>, SendPosts, ClickTryAgain
    PROVE  ViewInv'
<1>1. web \in Pages
  BY UpToDate
<1>2. PICK k \in Kinds : Finish(k)
  BY DEF ClickTryAgain, RetryRequest
<1>3. web' \in Pages /\ web'.stage = "provisioning" /\ web'.run = None
  BY <1>1, Emptied DEF ClickTryAgain
<1>4. PICK p \in Pages : p = web'
  BY <1>3
<1> QED BY <1>2, <1>3, <1>4, FinishSeen

LEMMA RetryStageSeen ==
    ASSUME SessionInv, toWebview = <<>>, SendPosts, NEW i \in StageIndices, ClickRetryStage(i)
    PROVE  ViewInv'
<1> DEFINE r == web.run
<1>1. web \in Pages /\ Agrees(web) /\ r \in Runs /\ RetryStageRequest(r, i)
  BY UpToDate, RetryStageClicked
<1>2. web' = [web EXCEPT !.stage = "provisioning", !.result = "none", !.access = None]
  BY DEF ClickRetryStage
<1>3. web' \in Pages /\ web'.stage = "provisioning" /\ web'.run = r
  BY <1>1, <1>2 DEF Pages
<1>4. PICK p \in Pages : p = web'
  BY <1>3
<1>5. CASE activeRun # r
  <2>1. PICK k \in Kinds : Finish(k)
    BY <1>1, <1>5 DEF RetryStageRequest
  <2> QED BY <1>3, <1>4, <2>1, FinishSeen
<1>6. CASE activeRun = r
  <2> DEFINE j == RetryFrom(kind[r], i)
  <2>1. /\ Quiet /\ RunProvisioningAttempt(r, j) /\ UNCHANGED <<nextRunId, activeRun>>
        /\ r < nextRunId /\ i <= StageCount(kind[r])
    BY <1>1, <1>6 DEF RetryStageRequest, SessionInv, QuietInv
  <2>2. StartAttempt(r, j) /\ GenerationLeft /\ inFlight = None
    BY <2>1 DEF RunProvisioningAttempt, Quiet
  <2>3. j \in StageIndices
    BY <2>1 DEF RetryFrom, StageIndices, StageCount
  <2>4. r \in Int
    BY <1>1 DEF Runs
  <2>5. Leads(web', toWebview, p) /\ NoResult(toWebview)
    BY <1>4, LeadsNowhere DEF NoResult
  <2> HIDE DEF j, r
  <2> QED BY <1>1, <1>3, <1>4, <1>6, <2>1, <2>2, <2>3, <2>4, <2>5, StartSeen
<1> QED BY <1>5, <1>6

LEMMA BackSeen ==
    ASSUME SessionInv, toWebview = <<>>, SendPosts, ClickBack
    PROVE  ViewInv'
<1>1. web \in Pages
  BY UpToDate
<1>2. web' \in Pages /\ web'.stage = "collecting" /\ web'.run = None
  BY <1>1, Emptied DEF ClickBack
<1>3. PICK p \in Pages : p = web'
  BY <1>2
<1>4. /\ posts' = <<>> /\ inFlight' = None /\ UNCHANGED finishing
      /\ \A k \in Kinds : finishing[k] = 0
  BY DEF ClickBack, BackToSetupRequest, AbandonFlight, SessionInv, QuietInv
<1>5. Agrees(p)'
  BY <1>2, <1>3, <1>4 DEF Agrees, Busy
<1>6. \A n \in DOMAIN posts' : posts'[n].type = "chat"
  BY <1>4
<1> QED BY <1>3, <1>5, <1>6, ClickKeepsView

LEMMA UseExistingSeen ==
    ASSUME SessionInv, toWebview = <<>>, SendPosts, ClickUseExisting
    PROVE  ViewInv'
<1>1. web \in Pages /\ Agrees(web)
  BY UpToDate
<1>2. web' \in Pages /\ web'.stage = "collecting" /\ web'.run = None
  BY <1>1, Emptied DEF ClickUseExisting
<1>3. PICK p \in Pages : p = web'
  BY <1>2
<1>4. posts' = <<>> /\ UNCHANGED <<inFlight, finishing, gate>> /\ web.stage = "complete"
  BY DEF ClickUseExisting, Failed, flightVars, panelVars, gateVars
<1>5. ~Busy
  BY <1>1, <1>4 DEF Agrees
<1>6. Agrees(p)'
  BY <1>2, <1>3, <1>4, <1>5 DEF Agrees, Busy
<1>7. \A n \in DOMAIN posts' : posts'[n].type = "chat"
  BY <1>4
<1> QED BY <1>3, <1>6, <1>7, ClickKeepsView

LEMMA OtherClickSeen ==
    ASSUME SessionInv, toWebview = <<>>, SendPosts, ClickContinue \/ RecheckTimer
    PROVE  ViewInv'
<1>1. /\ UNCHANGED <<web, nextRunId, inFlight, activeRun, finishing, gate, runOf, at, complete,
                     lastProvisioned>>
      /\ posts' = <<>> \/ posts' = <<Handoff>>
  BY DEF ClickContinue, RecheckTimer, ContinueInChatRequest, RecheckRequest, panelVars, flightVars,
         attemptVars, gateVars
<1>2. \A n \in DOMAIN posts' : posts'[n].type = "chat"
  <2>1. CASE posts' = <<>>
    BY <2>1
  <2>2. CASE posts' = <<Handoff>>
    <3>1. Handoff.type = "chat"
      BY DEF Handoff
    <3>2. \A n \in DOMAIN posts' : posts'[n] = Handoff
      BY <2>2
    <3> QED BY <3>1, <3>2
  <2> QED BY <1>1, <2>1, <2>2
<1> QED BY <1>1, <1>2, UnseenKeepsView

LEMMA ClickSeen ==
    ASSUME SessionInv, toWebview = <<>>, SendPosts, Click
    PROVE  ViewInv'
PROOF BY ClickFinishSeen, TryAgainSeen, RetryStageSeen, BackSeen, UseExistingSeen, OtherClickSeen
      DEF Click

-----------------------------------------------------------------------------
(* Every step of the session                                               *)

LEMMA StepKeepsQuiet ==
    ASSUME SessionInv, [SessionNext]_sessionVars
    PROVE  QuietInv' /\ EarlyOfRuns'
<1>1. [Next]_vars \/ ClickUseExisting
  BY OnScreen, SessionStepIsNext
<1>2. CASE [Next]_vars
  BY <1>2, NextKeepsIInv, NextIsAlone, StepKeepsEarly DEF SessionInv, QuietInv
<1>3. CASE ClickUseExisting
  <2>1. UNCHANGED <<panelVars, flightVars, attemptVars, gateVars>>
    BY <1>3 DEF ClickUseExisting
  <2>2. OneAtWork'
    BY <2>1, QuietFrame DEF panelVars, flightVars, attemptVars, SessionInv, Live
  <2> QED BY <1>3, <2>2, UseExistingKeepsIInv, StepKeepsEarly DEF SessionInv, QuietInv
<1> QED BY <1>1, <1>2, <1>3

LEMMA StepKeepsView ==
    ASSUME SessionInv, [SessionNext]_sessionVars
    PROVE  ViewInv'
<1>1. ASSUME PanelStep, SendPosts, UNCHANGED web PROVE ViewInv'
  <2>1. ASSUME NEW n \in 1 .. Len(waiters), ResumeWaiter(n) PROVE FALSE
    BY <2>1 DEF SessionInv, QuietInv, OneAtWork
  <2>2. CASE Microtask
    BY <1>1, <2>1, <2>2, AttemptSeen DEF Microtask, AttemptStep
  <2>3. ASSUME NEW a \in Gens, StageStep(a) PROVE ViewInv'
    BY <1>1, <2>3, AttemptSeen, PromptSeen DEF StageStep, AttemptStep
  <2> QED BY <1>1, <2>2, <2>3, EarlySeen, RecheckSeen, SelectionSeen, HandoffSeen DEF PanelStep
<1>2. CASE /\ IF Superseding THEN Len(toWebview) <= MaxLag ELSE toWebview = <<>>
           /\ Click /\ SendPosts
  BY <1>2, ClickSeen DEF SessionInv, QuietInv
<1>3. CASE UNCHANGED sessionVars
  BY <1>3
  DEF sessionVars, vars, panelVars, flightVars, attemptVars, gateVars, SessionInv, ViewInv,
      ResultAwaited, Outlook, Leads, Agrees, Busy, NoResult
<1> QED BY <1>1, <1>2, <1>3, ReceiveSeen DEF SessionNext

LEMMA SessionKept ==
    ASSUME SessionInv, [SessionNext]_sessionVars
    PROVE  SessionInv'
PROOF BY StepKeepsQuiet, StepKeepsView DEF SessionInv

LEMMA SessionStarts ==
    ASSUME SessionInit, Superseding = FALSE
    PROVE  SessionInv
<1>1. QuietInv
  <2>1. IInv
    BY InitIInv DEF SessionInit
  <2>2. OneAtWork
    BY NoneAssumption DEF SessionInit, Init, OneAtWork, Live
  <2> QED BY <2>1, <2>2 DEF QuietInv
<1>2. EarlyOfRuns
  BY DEF SessionInit, Init, EarlyOfRuns
<1>3. web \in Pages /\ web.run = None /\ web.stage = "collecting"
  BY DEF SessionInit, Pages, NoStages
<1>4. toWebview = <<>> /\ toWebview \in Seq(Posted) /\ ~Busy /\ inFlight = None
  BY DEF SessionInit, Init, Busy
<1>5. Agrees(web)
  BY <1>3, <1>4, NoneAssumption DEF Agrees
<1>6. Outlook
  BY <1>3, <1>4, <1>5, LeadsNowhere DEF Outlook
<1> QED BY <1>1, <1>2, <1>4, <1>6 DEF SessionInv, ViewInv, ResultAwaited

LEMMA PagesFollow == SessionInv => PagesAgree
<1> SUFFICES ASSUME SessionInv PROVE PagesAgree
  OBVIOUS
<1>1. CompleteMeansOver
  BY DEF SessionInv, QuietInv, OneAtWork, ViewInv, ResultAwaited, Busy, CompleteMeansOver
<1>2. CASE ~Delivered
  BY <1>1, <1>2 DEF PagesAgree, PromptIsOnScreen, SetupMeansIdle, ScreenShowsCurrentStage,
                    ReadyPageAgrees
<1>3. CASE Delivered
  <2>1. Agrees(web)
    BY <1>3, UpToDate DEF Delivered
  <2> QED BY <1>1, <2>1
      DEF PagesAgree, PromptIsOnScreen, SetupMeansIdle, ScreenShowsCurrentStage, ReadyPageAgrees,
          Agrees, Busy
<1> QED BY <1>2, <1>3

\* While requests are quiet, what the page shows once it has read its messages is what the
\* panel does: the stage that is executed, the prompt an attempt waits on, a result only when
\* all is over and as the panel holds it, and the setup only when nothing runs.
THEOREM PagesFollowPanel == SessionSpec /\ Superseding = FALSE => []PagesAgree
<1>1. SessionInit /\ Superseding = FALSE => SessionInv
  BY SessionStarts
<1>2. SessionInv /\ [SessionNext]_sessionVars => SessionInv'
  BY SessionKept
<1> QED BY <1>1, <1>2, PagesFollow, PTL DEF SessionSpec
=============================================================================
