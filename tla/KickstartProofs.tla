----------------------------- MODULE KickstartProofs -----------------------------
(***************************************************************************)
(* What the setup of a cluster, the scan of its subscription and the       *)
(* stages that provision it guarantee, for every number of subscriptions,  *)
(* regions, providers, requests, runs and deployments, in whatever order   *)
(* the answers arrive and however the stages fail, are retried and are     *)
(* abandoned.                                                              *)
(***************************************************************************)
EXTENDS KickstartSetup, KickstartStages, SequenceTheorems, FiniteSetTheorems, TLAPS

-----------------------------------------------------------------------------
(* The setup pages                                                         *)

(* A queue is a sequence, of whatever its elements are.                    *)
Elements(s) == {s[i] : i \in DOMAIN s}
IsQueue(s) == s \in Seq(Elements(s))

(* A page, and a preflight: what is not looked at may be anything.         *)
IsForm(f) == f \in [loc : {f.loc}, rg : {f.rg}, key : {f.key}, timer : {f.timer}, auto : {f.auto}]
IsPage(p) ==
    /\ p \in [mode : {"create", "existing"}, stage : {"collecting", "submitted"},
              sub : Subs \cup {NoChoice}, locations : {p.locations}, scan : {p.scan},
              scanFlow : {p.scanFlow}, form : {p.form}, gen : Nat, flow : {p.flow},
              proceed : {p.proceed}, clusters : {p.clusters}, cluster : {p.cluster},
              acrs : {p.acrs}, detecting : BOOLEAN, ready : {p.ready}, readyKey : {p.readyKey}]
    /\ IsForm(p.form)
IsPreflight(r) ==
    /\ r \in [pc : {"region", "providers", "registering", "polling", "capacity", "role",
                     "permissions", "done"},
              at : {r.at}, i : Nat \ {0}, proceed : BOOLEAN, mayAssign : BOOLEAN]
    /\ r.at.sub \in Subs /\ (r.pc = "region" => r.i = 1)

(* The registries and the readiness on a page are of its selection.        *)
SelectionOK(p) ==
    /\ p.acrs # NoChoice => /\ p.cluster # NoChoice /\ p.acrs.of = <<p.sub, p.cluster>>
                            /\ p.acrs.connected = ConnectedTo[p.cluster]
    /\ p.readyKey # NoChoice =>
         /\ p.readyKey = [sub |-> p.sub, cluster |-> p.cluster, acr |-> ConnectedTo[p.cluster]]
         /\ p.acrs.connected = ConnectedTo[p.cluster]
    /\ p.ready # NoChoice => p.readyKey # NoChoice /\ p.ready.key = p.readyKey

(* A message under way, when n preflights were asked for; and a request.   *)
MessageOK(m, n) ==
    /\ m.type \in {"locations", "clusters", "acrs", "ready",
                   "scanStage", "scan", "stage", "complete"}
    /\ m.type = "stage" => m.run \in 1 .. n /\ m.failed \in BOOLEAN
    /\ m.type = "complete" => m # NoChoice
    /\ m.type = "acrs" => m.cluster # NoChoice /\ m.connected = ConnectedTo[m.cluster]
    /\ m.type = "ready" => m.key # NoChoice
ReadOK(r) == /\ r.kind = "acrs" => r.cluster # NoChoice
             /\ r.kind = "ready" => r.key # NoChoice
             /\ r.kind \in {"locations", "clusters", "acrs", "ready"}

(* A stage of run n failed, and the page knows it or will.                 *)
FailureKnown(p, n, ms) == \/ p.flow # NoChoice /\ p.flow.run = n /\ p.flow.failed
                          \/ \E m \in ms : m.type = "stage" /\ m.run = n /\ m.failed
(* The last preflight rs[n] checks the key on the page p, and what p knows *)
(* of it together with the messages ms is what became of it.               *)
RunBehind(p, rs, ms) ==
    /\ Len(rs) > 0 /\ rs[Len(rs)].at = p.form.key
    /\ \/ p.flow # NoChoice /\ p.flow.run = Len(rs)
       \/ \E m \in ms : m.type = "stage" /\ m.run = Len(rs)
    /\ rs[Len(rs)].proceed <=> ~FailureKnown(p, Len(rs), ms)
    /\ rs[Len(rs)].pc = "done" =>
         p.proceed # NoChoice \/ \E m \in ms : m.type = "complete"

FlowOK(p, n) == p.flow # NoChoice => p.flow \in [run : 1 .. n, failed : BOOLEAN]
(* The key waits for its timer, or its preflight was started.              *)
Watched(p, rs, ms) ==
    /\ p.form.timer \in {NoChoice, p.form.key}
    /\ p.form.key # NoChoice /\ p.form.timer = NoChoice => RunBehind(p, rs, ms)

(* The providers that a preflight went past are registered, and stay so.   *)
RegisteredSoFar(reg, r) ==
    \A j \in Providers :
        \/ r.pc \in {"providers", "registering", "polling"} /\ j < r.i
        \/ r.pc \in {"capacity", "role", "permissions", "done"} /\ r.proceed
        => reg[r.at.sub][j] = "registered"

(* The inductive invariant of the setup pages.                             *)
SetupInv ==
    /\ IsPage(page) /\ page.form.key = Key(page)
    /\ SelectionOK(page) /\ FlowOK(page, Len(pre)) /\ Watched(page, pre, Elements(toPage))
    /\ IsQueue(toPage) /\ \A m \in Elements(toPage) : MessageOK(m, Len(pre))
    /\ \A r \in reads : ReadOK(r)
    /\ IsQueue(pre) /\ \A r \in Elements(pre) : IsPreflight(r) /\ RegisteredSoFar(registration, r)
    /\ registration \in [Subs -> [Providers -> {"none", "registering", "registered"}]]

-----------------------------------------------------------------------------
LEMMA QueuePosts ==
    ASSUME NEW q, NEW s, IsQueue(q), IsQueue(s)
    PROVE  IsQueue(q \o s) /\ Elements(q \o s) = Elements(q) \cup Elements(s)
<1> DEFINE all == Elements(q) \cup Elements(s)
           t == q \o s
<1>1. q \in Seq(all) /\ s \in Seq(all)
  BY SeqMonotonic DEF IsQueue
<1>2. /\ Len(q) \in Nat /\ DOMAIN q = 1 .. Len(q)
      /\ Len(s) \in Nat /\ DOMAIN s = 1 .. Len(s)
  BY <1>1, LenProperties
<1>3. /\ t \in Seq(all) /\ Len(t) = Len(q) + Len(s)
      /\ \A i \in 1 .. Len(q) + Len(s) : t[i] = IF i <= Len(q) THEN q[i] ELSE s[i - Len(q)]
  BY <1>1, ConcatProperties
<1>4. DOMAIN t = 1 .. Len(q) + Len(s)
  BY <1>3, LenProperties
<1> HIDE DEF t, all
<1>5. Elements(t) \subseteq all
  <2>1. ASSUME NEW i \in 1 .. Len(q) + Len(s) PROVE t[i] \in all
    <3>1. CASE i <= Len(q)
      BY <1>2, <1>3, <3>1 DEF all, Elements
    <3>2. CASE ~(i <= Len(q))
      <4>1. i - Len(q) \in DOMAIN s
        BY <1>2, <3>2
      <4> QED BY <1>3, <3>2, <4>1 DEF all, Elements
    <3> QED BY <3>1, <3>2
  <2> QED BY <1>4, <2>1 DEF Elements
<1>6. ASSUME NEW e \in all PROVE e \in Elements(t)
  <2>1. CASE e \in Elements(q)
    <3>1. PICK i \in DOMAIN q : e = q[i]
      BY <2>1 DEF Elements
    <3>2. i \in 1 .. Len(q) + Len(s) /\ i <= Len(q)
      BY <1>2
    <3> QED BY <1>3, <1>4, <3>1, <3>2 DEF Elements
  <2>2. CASE e \in Elements(s)
    <3>1. PICK i \in DOMAIN s : e = s[i]
      BY <2>2 DEF Elements
    <3> DEFINE k == Len(q) + i
    <3>2. k \in 1 .. Len(q) + Len(s) /\ ~(k <= Len(q)) /\ k - Len(q) = i
      BY <1>2
    <3> HIDE DEF k
    <3>3. t[k] = e
      BY <1>3, <3>1, <3>2
    <3> QED BY <1>4, <3>2, <3>3 DEF Elements
  <2> QED BY <2>1, <2>2 DEF all
<1>7. Elements(t) = all
  BY <1>5, <1>6
<1> QED BY <1>3, <1>7 DEF IsQueue, t, all

LEMMA QueueDelivers ==
    ASSUME NEW q, IsQueue(q), q # <<>>
    PROVE  IsQueue(Tail(q)) /\ Elements(q) = {Head(q)} \cup Elements(Tail(q))
<1> DEFINE S == Elements(q)
           t == Tail(q)
           n == Len(q)
<1>1. n \in Nat \ {0} /\ DOMAIN q = 1 .. n
  BY EmptySeq, LenProperties DEF IsQueue
<1>2. t \in Seq(S) /\ Len(t) = n - 1 /\ \A i \in 1 .. Len(t) : t[i] = q[i + 1]
  BY HeadTailProperties DEF IsQueue
<1>3. DOMAIN t = 1 .. n - 1
  BY <1>2, LenProperties
<1>4. Head(q) = q[1]
  OBVIOUS
<1> HIDE DEF t, n, S
<1>5. \A i \in 1 .. n - 1 : t[i] = q[i + 1]
  BY <1>2
<1>6. Elements(t) = {q[i] : i \in 2 .. n}
  <2>1. ASSUME NEW i \in 1 .. n - 1 PROVE t[i] \in {q[j] : j \in 2 .. n}
    <3>1. i + 1 \in 2 .. n
      BY <1>1
    <3> QED BY <1>5, <3>1
  <2>2. ASSUME NEW j \in 2 .. n PROVE q[j] \in {t[i] : i \in 1 .. n - 1}
    <3>1. j - 1 \in 1 .. n - 1 /\ (j - 1) + 1 = j
      BY <1>1
    <3> QED BY <1>5, <3>1
  <2> QED BY <1>3, <2>1, <2>2 DEF Elements
<1>7. 1 .. n = {1} \cup 2 .. n
  BY <1>1
<1>8. S = {q[1]} \cup {q[i] : i \in 2 .. n}
  BY <1>1, <1>7 DEF S, Elements
<1>9. IsQueue(t)
  BY <1>2, <1>3 DEF IsQueue, Elements
<1> QED BY <1>4, <1>6, <1>8, <1>9 DEF S, t
-----------------------------------------------------------------------------
(* The page's effects                                                      *)

(* What RunBehind looks at is the same on both pages.                      *)
SameWatch(p, q) ==
    /\ q.form.key = p.form.key /\ q.form.timer = p.form.timer
    /\ q.flow = p.flow /\ q.proceed = p.proceed
SameSelection(p, q) ==
    /\ q.sub = p.sub /\ q.cluster = p.cluster /\ q.acrs = p.acrs
    /\ q.ready = p.ready /\ q.readyKey = p.readyKey

LEMMA AutoOK ==
    ASSUME NEW p, IsPage(p), NEW q, q = AutoSelected(p)
    PROVE  /\ IsPage(q) /\ SameWatch(p, q) /\ SameSelection(p, q) /\ q.stage = p.stage
<1> USE DEF IsPage, IsForm, SameWatch, SameSelection
<1>1. CASE q = p
  BY <1>1
<1>2. CASE q # p
  <2> DEFINE loc == IF p.form.loc = NoChoice THEN p.scan.region ELSE p.form.loc
             run == p.scan.run
             form == [p.form EXCEPT !.auto = run, !.loc = loc]
  <2>1. q = [p EXCEPT !.form = form]
    BY <1>2 DEF AutoSelected
  <2> HIDE DEF loc, run
  <2>2. IsForm(form) /\ form.key = p.form.key /\ form.timer = p.form.timer
    OBVIOUS
  <2> HIDE DEF form
  <2>3. IsPage(q)
    BY <2>1, <2>2, ZenonT(60)
  <2>4. /\ q.form = form /\ q.flow = p.flow /\ q.proceed = p.proceed
        /\ SameSelection(p, q) /\ q.stage = p.stage
    BY <2>1
  <2> QED BY <2>2, <2>3, <2>4
<1> QED BY <1>1, <1>2

LEMMA ScheduledOK ==
    ASSUME NEW p, IsPage(p), NEW q, q = Scheduled(p)
    PROVE  /\ IsPage(q) /\ SameSelection(p, q) /\ q.stage = p.stage
           /\ q.form.key = Key(p) /\ Key(q) = Key(p)
           /\ q.flow = p.flow /\ q.proceed = p.proceed
           /\ q.form.timer = IF Key(p) = p.form.key THEN p.form.timer ELSE Key(p)
<1> USE DEF IsPage, IsForm, SameSelection
<1>1. CASE Key(p) = p.form.key
  BY <1>1 DEF Scheduled
<1>2. CASE Key(p) # p.form.key
  <2> DEFINE k == Key(p)
             form == [p.form EXCEPT !.key = k, !.timer = k]
  <2>1. q = [p EXCEPT !.form = form]
    BY <1>2 DEF Scheduled
  <2> HIDE DEF k
  <2>2. /\ IsForm(form) /\ form.key = k /\ form.timer = k
        /\ form.loc = p.form.loc /\ form.rg = p.form.rg
    OBVIOUS
  <2> HIDE DEF form
  <2>3. IsPage(q)
    BY <2>1, <2>2, ZenonT(60)
  <2>4. /\ q.form = form /\ q.flow = p.flow /\ q.proceed = p.proceed /\ SameSelection(p, q)
        /\ q.mode = p.mode /\ q.sub = p.sub /\ q.gen = p.gen /\ q.stage = p.stage
    BY <2>1
  <2>5. Key(q) = Key(p)
    BY <2>2, <2>4 DEF Key
  <2> QED BY <1>2, <2>2, <2>3, <2>4, <2>5 DEF k
<1> QED BY <1>1, <1>2

LEMMA AskedOK ==
    ASSUME NEW p, IsPage(p), SelectionOK(p), NEW q, q = ReadinessAsked(p)
    PROVE  /\ IsPage(q) /\ SelectionOK(q) /\ SameWatch(p, q) /\ q.stage = p.stage
           /\ Key(q) = Key(p)
<1> USE DEF IsPage
<1>1. CASE q = p
  BY <1>1 DEF SameWatch
<1>2. ASSUME NEW k, k = ReadyKey(p), k # NoChoice, q = [p EXCEPT !.readyKey = k, !.ready = NoChoice]
      PROVE  /\ IsPage(q) /\ SelectionOK(q) /\ SameWatch(p, q) /\ q.stage = p.stage
             /\ Key(q) = Key(p)
  <2>1. IsPage(q)
    BY <1>2, ZenonT(60) DEF IsForm
  <2>2. /\ q.form = p.form /\ q.flow = p.flow /\ q.proceed = p.proceed /\ q.stage = p.stage
        /\ q.sub = p.sub /\ q.cluster = p.cluster /\ q.acrs = p.acrs /\ q.mode = p.mode
        /\ q.gen = p.gen /\ q.ready = NoChoice /\ q.readyKey = k
    BY <1>2
  <2>3. /\ p.acrs # NoChoice /\ k = [sub |-> p.sub, cluster |-> p.cluster, acr |-> p.acrs.connected]
    BY <1>2 DEF ReadyKey
  <2>4. SelectionOK(q)
    BY <2>2, <2>3 DEF SelectionOK
  <2>5. Key(q) = Key(p)
    BY <2>2 DEF Key
  <2> QED BY <2>1, <2>2, <2>4, <2>5 DEF SameWatch
<1>3. CASE q # p
  <2> DEFINE k == ReadyKey(p)
  <2>1. k # NoChoice /\ q = [p EXCEPT !.readyKey = k, !.ready = NoChoice]
    BY <1>3 DEF ReadinessAsked
  <2> HIDE DEF k
  <2>2. k = ReadyKey(p)
    BY DEF k
  <2> QED BY <1>2, <2>1, <2>2
<1> QED BY <1>1, <1>3

(* Rendering settles the page: its key is the selection's, and a key that  *)
(* changed is waiting for its timer.                                       *)
LEMMA RenderedOK ==
    ASSUME NEW p, IsPage(p), SelectionOK(p), NEW rs, NEW ms,
           p.form.timer \in {NoChoice, p.form.key},
           \/ p.form.key = NoChoice
           \/ Key(AutoSelected(p)) # p.form.key
           \/ p.form.timer = NoChoice => RunBehind(p, rs, ms)
    PROVE  LET q == Rendered(p) IN
           /\ IsPage(q) /\ SelectionOK(q) /\ q.form.key = Key(q) /\ Watched(q, rs, ms)
           /\ q.flow = p.flow /\ q.stage = p.stage
<1> DEFINE a == AutoSelected(p)
           b == Scheduled(a)
           q == ReadinessAsked(b)
<1>1. IsPage(a) /\ SameWatch(p, a) /\ SameSelection(p, a) /\ a.stage = p.stage
  BY AutoOK
<1>2. SelectionOK(a)
  BY <1>1 DEF SelectionOK, SameSelection
<1> HIDE DEF a
<1>3. /\ IsPage(b) /\ SameSelection(a, b) /\ b.stage = a.stage
      /\ b.form.key = Key(a) /\ Key(b) = Key(a) /\ b.flow = a.flow /\ b.proceed = a.proceed
      /\ b.form.timer = IF Key(a) = a.form.key THEN a.form.timer ELSE Key(a)
  BY <1>1, ScheduledOK
<1>4. SelectionOK(b)
  BY <1>2, <1>3 DEF SelectionOK, SameSelection
<1> HIDE DEF b
<1>5. IsPage(q) /\ SelectionOK(q) /\ SameWatch(b, q) /\ q.stage = b.stage /\ Key(q) = Key(b)
  BY <1>3, <1>4, AskedOK
<1> HIDE DEF q
<1>6. q.form.key = Key(a) /\ q.flow = p.flow /\ q.proceed = p.proceed /\ q.stage = p.stage
  BY <1>1, <1>3, <1>5 DEF SameWatch
<1>7. q.form.timer = IF Key(a) = p.form.key THEN p.form.timer ELSE Key(a)
  BY <1>1, <1>3, <1>5 DEF SameWatch
<1>8. q.form.timer \in {NoChoice, q.form.key}
  BY <1>6, <1>7
<1>9. ASSUME q.form.key # NoChoice, q.form.timer = NoChoice PROVE RunBehind(q, rs, ms)
  <2>1. Key(a) = p.form.key /\ p.form.timer = NoChoice
    BY <1>6, <1>7, <1>9
  <2>2. RunBehind(p, rs, ms)
    BY <1>6, <1>9, <2>1 DEF a
  <2> QED BY <1>6, <2>1, <2>2 DEF RunBehind, FailureKnown
<1>10. Rendered(p) = q
  BY DEF Rendered, q, b, a
<1>11. q.form.key = Key(q)
  BY <1>3, <1>5, <1>6
<1> QED BY <1>5, <1>6, <1>8, <1>9, <1>10, <1>11 DEF Watched

(* What a page asks for.                                                   *)
LEMMA AskedReadsOK ==
    ASSUME NEW p, NEW q
    PROVE  \A r \in AskedReads(p, q) : ReadOK(r)
BY DEF AskedReads, ReadOK
-----------------------------------------------------------------------------
(* What is posted, and what is received                                    *)

LEMMA OneMessage == \A m : IsQueue(<<m>>) /\ Elements(<<m>>) = {m}
<1> TAKE m
<1>1. DOMAIN <<m>> = {1} /\ <<m>>[1] = m
  OBVIOUS
<1>2. Elements(<<m>>) = {m}
  BY <1>1 DEF Elements
<1> QED BY <1>2 DEF IsQueue

LEMMA NoMessage == IsQueue(<<>>) /\ Elements(<<>>) = {}
BY DEF IsQueue, Elements

LEMMA TwoMessages ==
    ASSUME NEW m, NEW o
    PROVE  IsQueue(<<m, o>>) /\ Elements(<<m, o>>) = {m, o}
<1>1. DOMAIN <<m, o>> = {1, 2} /\ <<m, o>>[1] = m /\ <<m, o>>[2] = o
  OBVIOUS
<1>2. Elements(<<m, o>>) = {m, o}
  BY <1>1 DEF Elements
<1> QED BY <1>2 DEF IsQueue

FailedIn(ms, n) == \E m \in ms : m.type = "stage" /\ m.run = n /\ m.failed
EndedIn(ms) == \E m \in ms : m.type = "complete"

(* More is known of the last preflight, and more of it is posted.          *)
LEMMA BehindGoes ==
    ASSUME NEW p, NEW rs, NEW ns, NEW ms, NEW more, RunBehind(p, rs, ms), Len(ns) = Len(rs),
           ns[Len(rs)].at = rs[Len(rs)].at,
           ns[Len(rs)].proceed <=> rs[Len(rs)].proceed /\ ~FailedIn(more, Len(rs)),
           ns[Len(rs)].pc = "done" =>
               rs[Len(rs)].pc = "done" \/ EndedIn(more)
    PROVE  RunBehind(p, ns, ms \cup more)
<1> DEFINE n == Len(rs)
<1>1. FailureKnown(p, n, ms \cup more) <=> FailureKnown(p, n, ms) \/ FailedIn(more, n)
  BY DEF FailureKnown, FailedIn
<1> QED BY <1>1 DEF RunBehind, EndedIn

(* What is neither of a preflight's stages nor its end tells nothing of it. *)
LEMMA OthersSilent ==
    ASSUME NEW p, NEW rs, NEW ms, NEW m, m.type \notin {"stage", "complete"}
    PROVE  RunBehind(p, rs, ms \cup {m}) <=> RunBehind(p, rs, ms)
<1>1. \A n : FailureKnown(p, n, ms \cup {m}) <=> FailureKnown(p, n, ms)
  BY DEF FailureKnown
<1> QED BY <1>1 DEF RunBehind

LEMMA Posting ==
    ASSUME SetupInv, NEW posts, IsQueue(posts), toPage' = toPage \o posts,
           \A m \in Elements(posts) : MessageOK(m, Len(pre))
    PROVE  /\ IsQueue(toPage') /\ Elements(toPage') = Elements(toPage) \cup Elements(posts)
           /\ \A m \in Elements(toPage') : MessageOK(m, Len(pre))
<1>1. IsQueue(toPage') /\ Elements(toPage') = Elements(toPage) \cup Elements(posts)
  BY QueuePosts DEF SetupInv
<1> QED BY <1>1 DEF SetupInv

(* The panel posts what says nothing of a preflight.                       *)
LEMMA PostOther ==
    ASSUME SetupInv, NEW m, toPage' = toPage \o <<m>>, MessageOK(m, Len(pre)),
           m.type \notin {"stage", "complete"}
    PROVE  /\ IsQueue(toPage') /\ Elements(toPage') = Elements(toPage) \cup {m}
           /\ \A o \in Elements(toPage') : MessageOK(o, Len(pre))
           /\ \A p : RunBehind(p, pre, Elements(toPage)) => RunBehind(p, pre, Elements(toPage'))
<1>1. /\ IsQueue(toPage') /\ Elements(toPage') = Elements(toPage) \cup {m}
      /\ \A o \in Elements(toPage') : MessageOK(o, Len(pre))
  <2> DEFINE posts == <<m>>
  <2>1. IsQueue(posts) /\ Elements(posts) = {m} /\ toPage' = toPage \o posts
    BY OneMessage
  <2> HIDE DEF posts
  <2> QED BY <2>1, Posting
<1> QED BY <1>1, OthersSilent

LEMMA NothingPosted == SetupInv => toPage \o <<>> = toPage
BY ConcatEmptySeq DEF SetupInv, IsQueue

-----------------------------------------------------------------------------
(* The user's changes                                                      *)

LEMMA RenderStep ==
    ASSUME SetupInv, NEW p, IsPage(p), SelectionOK(p), FlowOK(p, Len(pre)),
           p.form.timer \in {NoChoice, p.form.key},
           IsQueue(toPage'), \A m \in Elements(toPage') : MessageOK(m, Len(pre)),
           \/ p.form.key = NoChoice
           \/ Key(AutoSelected(p)) # p.form.key
           \/ p.form.timer = NoChoice => RunBehind(p, pre, Elements(toPage')),
           page' = Rendered(p), \A r \in reads' : r \in reads \/ ReadOK(r),
           UNCHANGED <<pre, registration>>
    PROVE  SetupInv'
<1> DEFINE q == Rendered(p)
           ms == Elements(toPage')
<1> HIDE DEF ms
<1>1. /\ IsPage(q) /\ SelectionOK(q) /\ q.form.key = Key(q) /\ Watched(q, pre, ms)
      /\ q.flow = p.flow /\ q.stage = p.stage
  BY RenderedOK DEF ms
<1>2. FlowOK(q, Len(pre))
  BY <1>1 DEF FlowOK
<1> HIDE DEF q
<1>3. page' = q
  BY DEF q
<1>4. \A r \in reads' : ReadOK(r)
  BY DEF SetupInv
<1>5. \A r : RegisteredSoFar(registration', r) <=> RegisteredSoFar(registration, r)
  BY DEF RegisteredSoFar
<1>6. IsQueue(pre') /\ \A r \in Elements(pre') : IsPreflight(r) /\ RegisteredSoFar(registration', r)
  BY <1>5 DEF SetupInv
<1>7. registration' \in [Subs -> [Providers -> {"none", "registering", "registered"}]]
  BY DEF SetupInv
<1>8. \A m \in Elements(toPage') : MessageOK(m, Len(pre'))
  OBVIOUS
<1>9. Watched(page', pre', Elements(toPage'))
  BY <1>1, <1>3 DEF ms
<1>10. /\ IsPage(page') /\ page'.form.key = Key(page') /\ SelectionOK(page')
       /\ FlowOK(page', Len(pre'))
  BY <1>1, <1>2, <1>3
<1> QED BY <1>4, <1>6, <1>7, <1>8, <1>9, <1>10 DEF SetupInv

LEMMA EditStep ==
    ASSUME SetupInv, NEW p, IsPage(p), SelectionOK(p), FlowOK(p, Len(pre)),
           p.form.timer \in {NoChoice, p.form.key},
           \/ p.form.key = NoChoice
           \/ Key(AutoSelected(p)) # p.form.key
           \/ p.form.timer = NoChoice => RunBehind(p, pre, Elements(toPage)),
           page' = Rendered(p), \A r \in reads' : r \in reads \/ ReadOK(r),
           \/ UNCHANGED toPage
           \/ \E m : /\ toPage' = toPage \o <<m>> /\ MessageOK(m, Len(pre))
                     /\ m.type \notin {"stage", "complete"},
           UNCHANGED <<pre, registration>>
    PROVE  SetupInv'
<1>1. /\ IsQueue(toPage') /\ \A m \in Elements(toPage') : MessageOK(m, Len(pre))
      /\ RunBehind(p, pre, Elements(toPage)) => RunBehind(p, pre, Elements(toPage'))
  <2>1. CASE UNCHANGED toPage
    BY <2>1 DEF SetupInv
  <2> QED BY <2>1, PostOther
<1>2. \/ p.form.key = NoChoice
      \/ Key(AutoSelected(p)) # p.form.key
      \/ p.form.timer = NoChoice => RunBehind(p, pre, Elements(toPage'))
  BY <1>1
<1> QED BY <1>1, <1>2, RenderStep

(* What a page that is edited starts from.                                 *)
LEMMA PageFacts ==
    ASSUME SetupInv
    PROVE  /\ IsPage(page) /\ SelectionOK(page) /\ FlowOK(page, Len(pre))
           /\ page.form.key = Key(page) /\ page.form.timer \in {NoChoice, page.form.key}
           /\ page.form.key # NoChoice /\ page.form.timer = NoChoice =>
                  RunBehind(page, pre, Elements(toPage))
BY DEF SetupInv, Watched

(* A page that differs in nothing that the preflight or the selection of a *)
(* cluster looks at.                                                       *)
LEMMA SamePage ==
    ASSUME NEW p, NEW q, NEW n, NEW rs, NEW ms, SameWatch(p, q), SameSelection(p, q)
    PROVE  /\ SelectionOK(p) => SelectionOK(q)
           /\ FlowOK(p, n) => FlowOK(q, n)
           /\ RunBehind(p, rs, ms) => RunBehind(q, rs, ms)
BY DEF SameWatch, SameSelection, SelectionOK, FlowOK, RunBehind, FailureKnown

(* Another form's field does not take away what is known of the preflight. *)
LEMMA FormStep ==
    ASSUME SetupInv, NEW p, IsPage(p), SameWatch(page, p), SameSelection(page, p), EditForm(p)
    PROVE  SetupInv'
<1>1. SelectionOK(p) /\ FlowOK(p, Len(pre)) /\ p.form.timer \in {NoChoice, p.form.key}
  BY PageFacts, SamePage DEF SameWatch
<1>2. p.form.key # NoChoice /\ p.form.timer = NoChoice => RunBehind(p, pre, Elements(toPage))
  BY PageFacts, SamePage DEF SameWatch
<1>3. /\ page' = Rendered(p) /\ reads' = reads \cup AskedReads(page, page')
      /\ UNCHANGED <<toPage, pre, registration>>
  BY DEF EditForm, Render, Editing, setupAzureVars
<1>4. \A r \in reads' : r \in reads \/ ReadOK(r)
  BY <1>3, AskedReadsOK
<1> QED BY <1>1, <1>2, <1>3, <1>4, EditStep

LEMMA LocationStep == ASSUME SetupInv, NEW l, SelectLocation(l) PROVE SetupInv'
<1> DEFINE form == [page.form EXCEPT !.loc = l]
           p == [page EXCEPT !.form = form]
<1>1. EditForm(p)
  BY DEF SelectLocation
<1>2. /\ IsForm(form) /\ form.key = page.form.key /\ form.timer = page.form.timer
  BY PageFacts DEF IsPage, IsForm
<1> HIDE DEF form
<1> SUFFICES ASSUME NEW q, q = p PROVE IsPage(q) /\ SameWatch(page, q) /\ SameSelection(page, q)
  BY <1>1, FormStep
<1>3. IsPage(q)
  BY <1>2, PageFacts, ZenonT(60) DEF IsPage
<1>4. SameWatch(page, q) /\ SameSelection(page, q)
  BY <1>2, PageFacts DEF IsPage, SameWatch, SameSelection
<1> QED BY <1>3, <1>4

LEMMA GroupStep == ASSUME SetupInv, NEW g, EditGroup(g) PROVE SetupInv'
<1> DEFINE form == [page.form EXCEPT !.rg = g]
           p == [page EXCEPT !.form = form]
<1>1. EditForm(p)
  BY DEF EditGroup
<1>2. /\ IsForm(form) /\ form.key = page.form.key /\ form.timer = page.form.timer
  BY PageFacts DEF IsPage, IsForm
<1> HIDE DEF form
<1> SUFFICES ASSUME NEW q, q = p PROVE IsPage(q) /\ SameWatch(page, q) /\ SameSelection(page, q)
  BY <1>1, FormStep
<1>3. IsPage(q)
  BY <1>2, PageFacts, ZenonT(60) DEF IsPage
<1>4. SameWatch(page, q) /\ SameSelection(page, q)
  BY <1>2, PageFacts DEF IsPage, SameWatch, SameSelection
<1> QED BY <1>3, <1>4

(* A key is of the subscription and of the round of checks on the page.    *)
LEMMA KeysDiffer ==
    ASSUME NEW p, NEW q, Key(p) # NoChoice, q.sub # p.sub \/ q.gen # p.gen
    PROVE  Key(q) # Key(p)
BY DEF Key

LEMMA RecheckStep == ASSUME SetupInv, RecheckPermissions PROVE SetupInv'
<1> DEFINE n == page.gen + 1
           p == [page EXCEPT !.gen = n, !.flow = NoChoice, !.proceed = NoChoice]
<1>1. EditForm(p)
  BY PageFacts DEF RecheckPermissions, IsPage
<1>2. n \in Nat /\ n # page.gen
  BY PageFacts DEF IsPage
<1> HIDE DEF n
<1> SUFFICES ASSUME NEW q, q = p, EditForm(q) PROVE SetupInv'
  BY <1>1
<1>3. IsPage(q)
  BY <1>2, PageFacts, ZenonT(60) DEF IsPage
<1>4. /\ q.form = page.form /\ q.gen = n /\ q.flow = NoChoice /\ SameSelection(page, q)
  BY PageFacts DEF IsPage, SameSelection
<1>5. SelectionOK(q) /\ FlowOK(q, Len(pre)) /\ q.form.timer \in {NoChoice, q.form.key}
  BY <1>4, PageFacts DEF SelectionOK, SameSelection, FlowOK
<1>6. q.form.key = NoChoice \/ Key(AutoSelected(q)) # q.form.key
  <2>1. AutoSelected(q).gen = n
    BY <1>3, <1>4 DEF AutoSelected, IsPage
  <2> QED BY <1>2, <1>4, <2>1, PageFacts, KeysDiffer
<1>7. /\ page' = Rendered(q) /\ reads' = reads \cup AskedReads(page, page')
      /\ UNCHANGED <<toPage, pre, registration>>
  BY DEF EditForm, Render, Editing, setupAzureVars
<1>8. \A r \in reads' : r \in reads \/ ReadOK(r)
  BY <1>7, AskedReadsOK
<1> QED BY <1>3, <1>5, <1>6, <1>7, <1>8, EditStep

LEMMA SelectClusterStep == ASSUME SetupInv, NEW c, SelectCluster(c) PROVE SetupInv'
<1> DEFINE p == [page EXCEPT !.cluster = c, !.acrs = NoChoice, !.detecting = TRUE,
                             !.ready = NoChoice, !.readyKey = NoChoice]
<1>1. EditForm(p)
  BY DEF SelectCluster
<1> SUFFICES ASSUME NEW q, q = p, EditForm(q) PROVE SetupInv'
  BY <1>1
<1>2. IsPage(q)
  BY PageFacts, ZenonT(60) DEF IsPage
<1>3. SameWatch(page, q) /\ q.acrs = NoChoice /\ q.ready = NoChoice /\ q.readyKey = NoChoice
  BY PageFacts DEF IsPage, SameWatch
<1>4. SelectionOK(q) /\ FlowOK(q, Len(pre)) /\ q.form.timer \in {NoChoice, q.form.key}
  BY <1>3, PageFacts DEF SelectionOK, SameWatch, FlowOK
<1>5. q.form.key # NoChoice /\ q.form.timer = NoChoice => RunBehind(q, pre, Elements(toPage))
  BY <1>3, PageFacts DEF SameWatch, RunBehind, FailureKnown
<1>6. /\ page' = Rendered(q) /\ reads' = reads \cup AskedReads(page, page')
      /\ UNCHANGED <<toPage, pre, registration>>
  BY DEF EditForm, Render, Editing, setupAzureVars
<1>7. \A r \in reads' : r \in reads \/ ReadOK(r)
  BY <1>6, AskedReadsOK
<1> QED BY <1>2, <1>4, <1>5, <1>6, <1>7, EditStep

(* The create form is mounted, or has a new subscription; or the other     *)
(* form is.                                                                *)
LEMMA NewFormStep ==
    ASSUME SetupInv, NEW p, IsPage(p), SelectionOK(p), FlowOK(p, Len(pre)), Editing,
           p.form.timer \in {NoChoice, p.form.key},
           p.form.key = NoChoice \/ Key(AutoSelected(p)) # p.form.key,
           LoadSubscription(p) \/ (Render(p) /\ UNCHANGED <<scanVars, toPage, pre>>)
    PROVE  SetupInv'
<1>1. page' = Rendered(p) /\ UNCHANGED <<pre, registration>>
  BY DEF LoadSubscription, Render, Editing, setupAzureVars
<1>2. \A r \in reads' : r \in reads \/ ReadOK(r)
  <2>1. CASE LoadSubscription(p)
    BY <2>1 DEF LoadSubscription, ReadOK
  <2>2. CASE Render(p)
    BY <2>2, AskedReadsOK DEF Render
  <2> QED BY <2>1, <2>2
<1>3. \/ UNCHANGED toPage
      \/ \E m : /\ toPage' = toPage \o <<m>> /\ MessageOK(m, Len(pre))
                /\ m.type \notin {"stage", "complete"}
  <2>1. CASE LoadSubscription(p)
    <3> DEFINE m == [type |-> "scanStage", run |-> scanToken']
    <3>1. toPage' = toPage \o <<m>>
      BY <2>1 DEF LoadSubscription, Post
    <3>2. MessageOK(m, Len(pre)) /\ m.type \notin {"stage", "complete"}
      BY DEF MessageOK
    <3> QED BY <3>1, <3>2
  <2> QED BY <2>1
<1> QED BY <1>1, <1>2, <1>3, EditStep

LEMMA SubscriptionStep ==
    ASSUME SetupInv, NEW s \in Subs, SelectSubscription(s)
    PROVE  SetupInv'
<1> DEFINE form == [page.form EXCEPT !.loc = NoChoice,
                                     !.rg = IF @ = "old" THEN NoChoice ELSE @]
<1>1. /\ IsForm(form) /\ form.key = page.form.key /\ form.timer = page.form.timer
      /\ form.loc = NoChoice
  <2>1. ASSUME NEW g, NEW f, f = [page.form EXCEPT !.loc = NoChoice, !.rg = g]
        PROVE  /\ IsForm(f) /\ f.key = page.form.key /\ f.timer = page.form.timer
               /\ f.loc = NoChoice
    BY <2>1, PageFacts DEF IsPage, IsForm
  <2> QED BY <2>1, PageFacts DEF IsPage, IsForm
<1> DEFINE p == [page EXCEPT !.sub = s, !.locations = NoChoice, !.scan = NoChoice,
              !.scanFlow = NoChoice, !.flow = NoChoice, !.proceed = NoChoice,
              !.clusters = NoChoice, !.cluster = NoChoice, !.acrs = NoChoice,
              !.detecting = FALSE, !.ready = NoChoice, !.readyKey = NoChoice, !.form = form]
<1>2. p = ForSubscription(page, s)
  BY DEF ForSubscription
<1> HIDE DEF form
<1> SUFFICES ASSUME NEW q, q = p, Editing, s # page.sub,
                    LoadSubscription(q) \/ (Render(q) /\ UNCHANGED <<scanVars, toPage, pre>>)
             PROVE  SetupInv'
  BY <1>2 DEF SelectSubscription
<1>3. IsPage(q)
  BY <1>1, PageFacts, ZenonT(60) DEF IsPage
<1>4. /\ q.form = form /\ q.sub = s /\ q.flow = NoChoice /\ q.acrs = NoChoice
      /\ q.ready = NoChoice /\ q.readyKey = NoChoice
  BY PageFacts DEF IsPage
<1>5. SelectionOK(q) /\ FlowOK(q, Len(pre)) /\ q.form.timer \in {NoChoice, q.form.key}
  BY <1>1, <1>4, PageFacts DEF SelectionOK, FlowOK
<1>6. q.form.key = NoChoice \/ Key(AutoSelected(q)) # q.form.key
  <2>1. AutoSelected(q).sub = s
    BY <1>3, <1>4 DEF AutoSelected, IsPage
  <2> QED BY <1>1, <1>4, <2>1, PageFacts, KeysDiffer
<1> QED BY <1>3, <1>5, <1>6, NewFormStep

LEMMA ModeStep == ASSUME SetupInv, SetMode PROVE SetupInv'
<1>1. PICK mode \in {"create", "existing"} :
        LET q == [page EXCEPT !.mode = mode, !.form = FreshForm]
        IN  LoadSubscription(q) \/ (Render(q) /\ UNCHANGED <<scanVars, toPage, pre>>)
  BY DEF SetMode
<1> SUFFICES ASSUME NEW q, q = [page EXCEPT !.mode = mode, !.form = FreshForm],
                    LoadSubscription(q) \/ (Render(q) /\ UNCHANGED <<scanVars, toPage, pre>>)
             PROVE  SetupInv'
  BY <1>1
<1>2. IsForm(FreshForm) /\ FreshForm.key = NoChoice /\ FreshForm.timer = NoChoice
  BY DEF FreshForm, IsForm
<1>3. IsPage(q)
  BY <1>2, PageFacts, ZenonT(60) DEF IsPage
<1>4. q.form = FreshForm /\ q.flow = page.flow /\ SameSelection(page, q)
  BY PageFacts DEF IsPage, SameSelection
<1>5. SelectionOK(q) /\ FlowOK(q, Len(pre)) /\ q.form.key = NoChoice /\ q.form.timer = NoChoice
  BY <1>2, <1>4, PageFacts DEF SelectionOK, SameSelection, FlowOK
<1> QED BY <1>3, <1>5, NewFormStep DEF SetMode

LEMMA SubmitStep == ASSUME SetupInv, Submit PROVE SetupInv'
<1> SUFFICES ASSUME NEW q, q = [page EXCEPT !.stage = "submitted"], page' = q,
                    UNCHANGED <<toPage, reads, pre, registration>>
             PROVE  SetupInv'
  BY DEF Submit, setupAzureVars
<1>1. IsPage(q)
  BY PageFacts, ZenonT(60) DEF IsPage
<1>2. SameWatch(page, q) /\ SameSelection(page, q) /\ q.form = page.form /\ Key(q) = Key(page)
  BY PageFacts DEF IsPage, SameWatch, SameSelection, Key
<1>3. /\ SelectionOK(q) /\ FlowOK(q, Len(pre)) /\ q.form.key = Key(q)
      /\ Watched(q, pre, Elements(toPage))
  BY <1>2, PageFacts, SamePage DEF Watched, SameWatch
<1>4. \A r : RegisteredSoFar(registration', r) <=> RegisteredSoFar(registration, r)
  BY DEF RegisteredSoFar
<1> QED BY <1>1, <1>3, <1>4 DEF SetupInv

LEMMA UserSteps == ASSUME SetupInv, UserStep PROVE SetupInv'
BY LocationStep, GroupStep, RecheckStep, SelectClusterStep, SubscriptionStep, ModeStep, SubmitStep
   DEF UserStep, SubmitNew, SubmitExisting

-----------------------------------------------------------------------------
(* The timer and the preflights                                            *)

LEMMA TimerStep == ASSUME SetupInv, TimerFires PROVE SetupInv'
<1> DEFINE n == Len(pre)
           key == page.form.timer
           form == [page.form EXCEPT !.timer = NoChoice]
           q == [page EXCEPT !.form = form, !.flow = NoChoice, !.proceed = NoChoice]
           r == [pc |-> "region", at |-> key, i |-> 1, proceed |-> TRUE, mayAssign |-> FALSE]
           m == [type |-> "stage", run |-> n + 1, failed |-> FALSE]
           ms == Elements(toPage)
<1>1. /\ page' = q /\ pre' = Append(pre, r) /\ toPage' = toPage \o <<m>> /\ key # NoChoice
      /\ UNCHANGED <<reads, registration>>
  BY DEF TimerFires, Post, setupAzureVars
<1>2. /\ IsForm(form) /\ form.key = page.form.key /\ form.timer = NoChoice
      /\ form.loc = page.form.loc /\ form.rg = page.form.rg
  BY PageFacts DEF IsPage, IsForm
<1> HIDE DEF form
<1>3. ASSUME NEW p, p = q
      PROVE  /\ IsPage(p) /\ p.form = form /\ p.flow = NoChoice /\ SameSelection(page, p)
             /\ Key(p) = Key(page)
  <2>1. IsPage(p)
    BY <1>2, <1>3, PageFacts, ZenonT(60) DEF IsPage
  <2>2. /\ p.form = form /\ p.flow = NoChoice /\ SameSelection(page, p)
        /\ p.mode = page.mode /\ p.gen = page.gen
    BY <1>3, PageFacts DEF IsPage, SameSelection
  <2>3. Key(p) = Key(page)
    BY <1>2, <2>2 DEF Key, SameSelection
  <2> QED BY <2>1, <2>2, <2>3
<1>4. /\ IsPage(q) /\ q.form = form /\ q.flow = NoChoice /\ SameSelection(page, q)
      /\ Key(q) = Key(page)
  BY <1>3
<1> HIDE DEF q
<1>5. key = Key(page) /\ key.sub \in Subs /\ page.form.key = key
  <2>1. key = Key(page) /\ page.form.key = key
    BY <1>1, PageFacts
  <2>2. Key(page) = [sub |-> page.sub, loc |-> page.form.loc, rg |-> page.form.rg,
                     gen |-> page.gen] /\ page.sub # NoChoice
    BY <1>1, <2>1 DEF Key
  <2>3. page.sub \in Subs
    BY <2>2, PageFacts DEF IsPage
  <2> QED BY <2>1, <2>2, <2>3
<1> HIDE DEF key
<1>6. n \in Nat /\ DOMAIN pre = 1 .. n /\ pre \in Seq(Elements(pre))
  BY LenProperties DEF SetupInv, IsQueue
<1>7. /\ IsPreflight(r) /\ RegisteredSoFar(registration', r)
      /\ r.at = key /\ r.pc = "region" /\ r.proceed
  BY <1>5 DEF IsPreflight, RegisteredSoFar
<1>8. m.type = "stage" /\ m.run = n + 1 /\ m.failed = FALSE /\ m.failed \in BOOLEAN
  OBVIOUS
<1> HIDE DEF r, m
<1>9. /\ IsQueue(pre') /\ Elements(pre') = Elements(pre) \cup {r}
      /\ Len(pre') = n + 1 /\ pre'[n + 1] = r
  <2>1. IsQueue(<<r>>) /\ Elements(<<r>>) = {r}
    BY OneMessage
  <2>2. pre \in Seq(Elements(pre) \cup {r}) /\ r \in Elements(pre) \cup {r}
    BY <1>6, SeqMonotonic
  <2>3. pre' = pre \o <<r>>
    BY <1>1, <2>2, AppendIsConcat
  <2>4. IsQueue(pre') /\ Elements(pre') = Elements(pre) \cup {r}
    BY <2>1, <2>3, QueuePosts DEF SetupInv
  <2>5. Len(pre') = n + 1 /\ pre'[n + 1] = r
    BY <1>1, <2>2, AppendProperties
  <2> QED BY <2>4, <2>5
<1> HIDE DEF n
<1>10. \A o \in ms : MessageOK(o, n)
  BY DEF SetupInv, n
<1>11. \A o \in ms \cup {m} : MessageOK(o, n + 1)
  <2>1. ASSUME NEW o \in ms PROVE MessageOK(o, n + 1)
    BY <1>6, <1>10 DEF MessageOK
  <2>2. MessageOK(m, n + 1)
    BY <1>6, <1>8 DEF MessageOK
  <2> QED BY <2>1, <2>2
<1>12. IsQueue(toPage') /\ Elements(toPage') = ms \cup {m}
  <2>1. IsQueue(<<m>>) /\ Elements(<<m>>) = {m}
    BY OneMessage
  <2> QED BY <1>1, <2>1, QueuePosts DEF SetupInv
<1> HIDE DEF ms
<1>13. ~FailureKnown(q, n + 1, ms \cup {m})
  BY <1>4, <1>6, <1>8, <1>10 DEF FailureKnown, MessageOK
<1>14. RunBehind(q, pre', ms \cup {m})
  BY <1>2, <1>4, <1>5, <1>6, <1>7, <1>8, <1>9, <1>13 DEF RunBehind
<1>15. Watched(q, pre', ms \cup {m})
  BY <1>2, <1>4, <1>14 DEF Watched
<1>16. SelectionOK(q) /\ FlowOK(q, n + 1) /\ q.form.key = Key(q)
  BY <1>2, <1>4, PageFacts DEF SelectionOK, SameSelection, FlowOK
<1>17. ASSUME NEW x \in Elements(pre) PROVE IsPreflight(x) /\ RegisteredSoFar(registration', x)
  <2>1. IsPreflight(x) /\ RegisteredSoFar(registration, x)
    BY DEF SetupInv
  <2> QED BY <1>1, <2>1 DEF RegisteredSoFar
<1>18. \A x \in Elements(pre') : IsPreflight(x) /\ RegisteredSoFar(registration', x)
  <2>1. ASSUME NEW x \in Elements(pre') PROVE IsPreflight(x) /\ RegisteredSoFar(registration', x)
    <3>1. CASE x = r
      BY <1>7, <3>1
    <3>2. CASE x \in Elements(pre)
      BY <1>17, <3>2
    <3> QED BY <1>9, <3>1, <3>2
  <2> QED BY <2>1
<1> QED
  BY <1>1, <1>4, <1>9, <1>11, <1>12, <1>15, <1>16, <1>18 DEF SetupInv

(* A preflight goes on, and posts what its page needs to know of it.       *)
LEMMA GoesOn ==
    ASSUME SetupInv, NEW f \in 1 .. Len(pre), pre[f].pc # "done",
           NEW q, IsPreflight(q), q.at = pre[f].at, RegisteredSoFar(registration', q),
           pre' = [pre EXCEPT ![f] = q],
           registration' \in [Subs -> [Providers -> {"none", "registering", "registered"}]],
           \A s \in Subs, i \in Providers :
               registration[s][i] = "registered" => registration'[s][i] = "registered",
           NEW posts, IsQueue(posts), toPage' = toPage \o posts,
           \A m \in Elements(posts) :
               MessageOK(m, Len(pre)) /\ (m.type = "stage" => m.run = f),
           q.proceed <=> pre[f].proceed /\ ~FailedIn(Elements(posts), f),
           q.pc = "done" => EndedIn(Elements(posts)),
           UNCHANGED <<page, reads>>
    PROVE  SetupInv'
<1> DEFINE n == Len(pre)
           ms == Elements(toPage)
           more == Elements(posts)
<1>1. n \in Nat /\ DOMAIN pre = 1 .. n /\ pre \in Seq(Elements(pre))
  BY LenProperties DEF SetupInv, IsQueue
<1>2. \A x \in Elements(pre) : IsPreflight(x) /\ RegisteredSoFar(registration', x)
  <2>1. ASSUME NEW x \in Elements(pre) PROVE IsPreflight(x) /\ RegisteredSoFar(registration', x)
    <3>1. IsPreflight(x) /\ RegisteredSoFar(registration, x) /\ x.at.sub \in Subs
      BY DEF SetupInv, IsPreflight
    <3> QED BY <3>1 DEF RegisteredSoFar
  <2> QED BY <2>1
<1>3. /\ Len(pre') = n /\ \A i \in 1 .. n : pre'[i] = IF i = f THEN q ELSE pre[i]
      /\ DOMAIN pre' = 1 .. n
      /\ IsQueue(pre') /\ Elements(pre') \subseteq Elements(pre) \cup {q}
  <2> DEFINE S == Elements(pre) \cup {q}
  <2>1. pre \in Seq(S) /\ q \in S
    BY <1>1, SeqMonotonic
  <2>2. /\ pre' \in Seq(S) /\ Len(pre') = n
        /\ \A i \in 1 .. n : pre'[i] = IF i = f THEN q ELSE pre[i]
    BY <2>1, ExceptSeq
  <2>3. DOMAIN pre' = 1 .. n
    BY <2>2, LenProperties
  <2>4. Elements(pre') \subseteq S
    BY <1>1, <2>2, <2>3 DEF Elements
  <2>5. pre' \in [1 .. n -> Elements(pre')]
    BY <2>2, <2>3, LenProperties DEF Elements
  <2>6. IsQueue(pre')
    <3> DEFINE E == Elements(pre')
    <3>1. pre' \in [1 .. n -> E] /\ Seq(E) = UNION {[1 .. k -> E] : k \in Nat}
      BY <2>5, SeqDef
    <3> HIDE DEF E
    <3>2. pre' \in Seq(E)
      BY <1>1, <3>1
    <3> QED BY <3>2 DEF IsQueue, E
  <2> QED BY <2>2, <2>3, <2>4, <2>6
<1>4. \A x \in Elements(pre') : IsPreflight(x) /\ RegisteredSoFar(registration', x)
  BY <1>2, <1>3
<1>5. /\ IsQueue(toPage') /\ Elements(toPage') = ms \cup more
      /\ \A m \in Elements(toPage') : MessageOK(m, n)
  BY Posting
<1>6. ASSUME RunBehind(page, pre, ms) PROVE RunBehind(page, pre', ms \cup more)
  <2>1. n \in 1 .. n
    BY <1>1, <1>6 DEF RunBehind
  <2>2. CASE f = n
    <3>1. pre'[n] = q
      BY <1>3, <2>1, <2>2
    <3> QED BY <1>3, <1>6, <2>2, <3>1, BehindGoes
  <2>3. CASE f # n
    <3>1. pre'[n] = pre[n] /\ ~FailedIn(more, n)
      BY <1>3, <2>1, <2>3 DEF FailedIn
    <3> QED BY <1>3, <1>6, <3>1, BehindGoes
  <2> QED BY <2>2, <2>3
<1>7. Watched(page', pre', Elements(toPage'))
  BY <1>5, <1>6, PageFacts DEF Watched
<1> HIDE DEF n, ms, more
<1>8. FlowOK(page', Len(pre')) /\ IsPage(page') /\ SelectionOK(page') /\ page'.form.key = Key(page')
  BY <1>3, PageFacts DEF n
<1>9. \A r \in reads' : ReadOK(r)
  BY DEF SetupInv
<1> QED BY <1>3, <1>4, <1>5, <1>7, <1>8, <1>9 DEF SetupInv, n

LEMMA PreFacts ==
    ASSUME SetupInv, NEW f \in 1 .. Len(pre)
    PROVE  /\ IsPreflight(pre[f]) /\ RegisteredSoFar(registration, pre[f]) /\ Len(pre) \in Nat
           /\ pre = [i \in 1 .. Len(pre) |-> pre[i]]
<1>1. Len(pre) \in Nat /\ DOMAIN pre = 1 .. Len(pre) /\ pre \in [1 .. Len(pre) -> Elements(pre)]
  BY LenProperties DEF SetupInv, IsQueue
<1>2. pre[f] \in Elements(pre)
  BY <1>1
<1> QED BY <1>1, <1>2 DEF SetupInv

(* A stage ends, and says whether it failed.                               *)
LEMMA StageEnds ==
    ASSUME SetupInv, NEW f \in 1 .. Len(pre), pre[f].pc # "done",
           NEW stage \in {"providers", "capacity", "role"}, NEW failed \in BOOLEAN,
           Proceeds(f, stage, failed), UNCHANGED registration,
           stage = "providers" => pre[f].i = 1,
           stage # "providers" /\ pre[f].proceed /\ ~failed =>
               \A j \in Providers : registration[pre[f].at.sub][j] = "registered"
    PROVE  SetupInv'
<1> DEFINE r == pre[f]
           go == r.proceed /\ ~failed
           m == Snapshot(f, failed)
<1>1. IsPreflight(r) /\ RegisteredSoFar(registration, r)
  BY PreFacts
<1>2. go \in BOOLEAN /\ (go <=> r.proceed /\ ~failed)
  OBVIOUS
<1>3. pre' = [pre EXCEPT ![f] = [r EXCEPT !.pc = stage, !.proceed = go]]
  BY PreFacts DEF Proceeds, IsPreflight
<1> HIDE DEF go
<1> SUFFICES ASSUME NEW q, q = [r EXCEPT !.pc = stage, !.proceed = go], pre' = [pre EXCEPT ![f] = q]
             PROVE  SetupInv'
  BY <1>3
<1>4. q \in [pc : {stage}, at : {r.at}, i : {r.i}, proceed : {go}, mayAssign : {r.mayAssign}]
  BY <1>1, Zenon DEF IsPreflight
<1>5. IsPreflight(q) /\ q.at = r.at /\ q.pc = stage /\ q.i = r.i /\ (q.proceed <=> go)
  <2>1. q.at = r.at /\ q.pc = stage /\ q.i = r.i /\ q.proceed = go /\ q.mayAssign = r.mayAssign
    BY <1>4
  <2>2. q \in [pc : {"region", "providers", "registering", "polling", "capacity", "role",
                     "permissions", "done"},
               at : {q.at}, i : Nat \ {0}, proceed : BOOLEAN, mayAssign : BOOLEAN]
    BY <1>1, <1>2, <1>4, <2>1, Zenon DEF IsPreflight
  <2> QED BY <1>1, <2>1, <2>2 DEF IsPreflight
<1>6. RegisteredSoFar(registration', q)
  BY <1>2, <1>5 DEF RegisteredSoFar, Providers
<1>7. /\ m.type = "stage" /\ m.run = f /\ m.failed = failed
      /\ MessageOK(m, Len(pre))
  BY DEF Snapshot, MessageOK
<1> HIDE DEF m
<1> DEFINE posts == <<m>>
<1>8. IsQueue(posts) /\ Elements(posts) = {m} /\ toPage' = toPage \o posts
  BY OneMessage DEF Proceeds, Post, m
<1> HIDE DEF posts
<1>9. FailedIn(Elements(posts), f) <=> failed
  BY <1>7, <1>8 DEF FailedIn
<1>10. registration' \in [Subs -> [Providers -> {"none", "registering", "registered"}]]
  BY DEF SetupInv
<1>11. UNCHANGED <<page, reads>>
  BY DEF Proceeds
<1>12. \A s \in Subs, i \in Providers :
          registration[s][i] = "registered" => registration'[s][i] = "registered"
  OBVIOUS
<1>13. \A o \in Elements(posts) :
          MessageOK(o, Len(pre)) /\ (o.type = "stage" => o.run = f)
  BY <1>7, <1>8
<1>14. q.proceed <=> pre[f].proceed /\ ~FailedIn(Elements(posts), f)
  BY <1>2, <1>5, <1>9
<1>15. q.pc # "done" /\ q.at = pre[f].at
  BY <1>5
<1>16. q.pc = "done" => EndedIn(Elements(posts))
  BY <1>15
<1>17. /\ IsPreflight(q) /\ q.at = pre[f].at /\ RegisteredSoFar(registration', q)
       /\ pre' = [pre EXCEPT ![f] = q]
  BY <1>5, <1>6
<1>18. IsQueue(posts) /\ toPage' = toPage \o posts
  BY <1>8
<1> QED BY <1>10, <1>11, <1>12, <1>13, <1>14, <1>16, <1>17, <1>18, GoesOn, ZenonT(60)

(* A preflight goes on to look at its providers.                           *)
LEMMA ProviderGoes ==
    ASSUME SetupInv, NEW f \in 1 .. Len(pre),
           NEW q, q \in [pc : {"providers", "registering", "polling"}, at : {pre[f].at}, i : Nat \ {0},
                         proceed : {pre[f].proceed}, mayAssign : {pre[f].mayAssign}],
           pre[f].pc \in {"providers", "registering", "polling"}, RegisteredSoFar(registration', q),
           pre' = [pre EXCEPT ![f] = q],
           registration' \in [Subs -> [Providers -> {"none", "registering", "registered"}]],
           \A s \in Subs, i \in Providers :
               registration[s][i] = "registered" => registration'[s][i] = "registered",
           UNCHANGED <<page, toPage, reads>>
    PROVE  SetupInv'
<1> DEFINE posts == <<>>
<1>1. IsPreflight(pre[f])
  BY PreFacts
<1>2. /\ q.at = pre[f].at /\ q.proceed = pre[f].proceed /\ q.mayAssign = pre[f].mayAssign
      /\ q.pc \in {"providers", "registering", "polling"}
  OBVIOUS
<1>3. q \in [pc : {"region", "providers", "registering", "polling", "capacity", "role",
                     "permissions", "done"},
             at : {q.at}, i : Nat \ {0}, proceed : BOOLEAN, mayAssign : BOOLEAN]
  BY <1>1, <1>2, Zenon DEF IsPreflight
<1>4. IsPreflight(q)
  BY <1>1, <1>2, <1>3 DEF IsPreflight
<1>5. IsQueue(posts) /\ Elements(posts) = {} /\ toPage' = toPage \o posts
  BY NoMessage, NothingPosted
<1> HIDE DEF posts
<1>6. q.proceed <=> pre[f].proceed /\ ~FailedIn(Elements(posts), f)
  BY <1>1, <1>2, <1>5 DEF FailedIn, IsPreflight
<1>7. q.pc = "done" => EndedIn(Elements(posts))
  BY <1>2
<1>8. \A o \in Elements(posts) : MessageOK(o, Len(pre)) /\ (o.type = "stage" => o.run = f)
  BY <1>5
<1>9. q.at = pre[f].at /\ pre[f].pc # "done" /\ UNCHANGED <<page, reads>>
  BY <1>2
<1> QED BY <1>4, <1>5, <1>6, <1>7, <1>8, <1>9, GoesOn, ZenonT(60)

LEMMA ProvidersStep ==
    ASSUME SetupInv, NEW f, ProviderRead(f) \/ ProviderRegisters(f) \/ PollAnswered(f)
    PROVE  SetupInv'
<1> DEFINE r == pre[f]
<1>1. /\ f \in 1 .. Len(pre) /\ r.pc \in {"providers", "registering", "polling"}
      /\ UNCHANGED <<page, toPage, reads>>
  BY DEF ProviderRead, ProviderRegisters, PollAnswered, PreflightAt
<1>2. IsPreflight(r) /\ RegisteredSoFar(registration, r) /\ r.i \in Nat \ {0} /\ r.at.sub \in Subs
  BY <1>1, PreFacts DEF IsPreflight
<1>3. registration \in [Subs -> [Providers -> {"none", "registering", "registered"}]]
  BY DEF SetupInv
<1>4. ASSUME StateOf(f) = "registered", UNCHANGED registration,
             NEW q, q \in {[r EXCEPT !.i = r.i + 1], [r EXCEPT !.pc = "providers", !.i = r.i + 1]},
             pre' = [pre EXCEPT ![f] = q]
      PROVE  SetupInv'
  <2> DEFINE n == r.i + 1
  <2>1. n \in Nat \ {0} /\ n > r.i
    BY <1>2
  <2>2. \A j \in Providers : j < n => j < r.i \/ j = r.i
    BY <1>2 DEF Providers
  <2> HIDE DEF n
  <2>3. q \in [pc : {"providers", "registering", "polling"}, at : {r.at}, i : {n},
               proceed : {r.proceed}, mayAssign : {r.mayAssign}]
    <3>1. q \in {[r EXCEPT !.i = n], [r EXCEPT !.pc = "providers", !.i = n]}
      BY <1>4 DEF n
    <3> QED BY <1>1, <1>2, <3>1, ZenonT(30) DEF IsPreflight
  <2>4. q.i = n /\ q.at = r.at /\ q.pc \in {"providers", "registering", "polling"}
    BY <2>3
  <2>5. RegisteredSoFar(registration', q)
    BY <1>1, <1>2, <1>4, <2>2, <2>4 DEF RegisteredSoFar, StateOf
  <2>6. q \in [pc : {"providers", "registering", "polling"}, at : {r.at}, i : Nat \ {0},
               proceed : {r.proceed}, mayAssign : {r.mayAssign}]
    BY <2>1, <2>3
  <2> QED BY <1>1, <1>3, <1>4, <2>5, <2>6, ProviderGoes
<1>5. ASSUME NEW next \in {"registering", "polling"}, pre' = [pre EXCEPT ![f].pc = next],
             registration' \in [Subs -> [Providers -> {"none", "registering", "registered"}]],
             \A s \in Subs, i \in Providers :
                 registration[s][i] = "registered" => registration'[s][i] = "registered"
      PROVE  SetupInv'
  <2>1. pre' = [pre EXCEPT ![f] = [r EXCEPT !.pc = next]]
    BY <1>1, <1>5, PreFacts DEF IsPreflight
  <2> SUFFICES ASSUME NEW q, q = [r EXCEPT !.pc = next], pre' = [pre EXCEPT ![f] = q]
               PROVE  SetupInv'
    BY <2>1
  <2>2. q \in [pc : {"providers", "registering", "polling"}, at : {r.at}, i : Nat \ {0},
               proceed : {r.proceed}, mayAssign : {r.mayAssign}]
    BY <1>2, <1>5, ZenonT(30) DEF IsPreflight
  <2>3. q.i = r.i /\ q.at = r.at /\ q.pc \in {"registering", "polling"}
    BY <1>2, <1>5 DEF IsPreflight
  <2>4. RegisteredSoFar(registration', q)
    BY <1>1, <1>2, <1>5, <2>3 DEF RegisteredSoFar
  <2> QED BY <1>1, <1>5, <2>2, <2>4, ProviderGoes
<1>6. CASE ProviderRead(f) /\ StateOf(f) # "registered"
  BY <1>3, <1>5, <1>6 DEF ProviderRead, setupAzureVars
<1>7. CASE ProviderRegisters(f)
  <2>1. /\ pre' = [pre EXCEPT ![f].pc = "polling"]
        /\ registration' = [registration EXCEPT ![r.at.sub][r.i] =
                               IF @ = "registered" THEN @ ELSE "registering"]
    BY <1>7 DEF ProviderRegisters
  <2>2. /\ registration' \in [Subs -> [Providers -> {"none", "registering", "registered"}]]
        /\ \A s \in Subs, i \in Providers :
              registration[s][i] = "registered" => registration'[s][i] = "registered"
    BY <1>2, <1>3, <2>1
  <2> QED BY <1>5, <2>1, <2>2
<1>8. ASSUME StateOf(f) = "registered", ~ProviderRegisters(f) PROVE SetupInv'
  <2>1. UNCHANGED registration
    BY <1>8 DEF ProviderRead, PollAnswered, setupAzureVars
  <2>2. \/ pre' = [pre EXCEPT ![f] = [r EXCEPT !.i = r.i + 1]]
        \/ pre' = [pre EXCEPT ![f] = [r EXCEPT !.pc = "providers", !.i = r.i + 1]]
    BY <1>1, <1>8, PreFacts DEF ProviderRead, PollAnswered, IsPreflight
  <2> QED BY <1>4, <1>8, <2>1, <2>2
<1> QED BY <1>6, <1>7, <1>8 DEF PollAnswered

LEMMA CheckedStep ==
    ASSUME SetupInv, NEW f,
           \/ RegionChecked(f) \/ ProvidersFail(f) \/ ProvidersRegistered(f) \/ CapacityChecked(f)
    PROVE  SetupInv'
<1> DEFINE r == pre[f]
<1>1. f \in 1 .. Len(pre) /\ r.pc # "done" /\ UNCHANGED registration
  BY DEF RegionChecked, ProvidersFail, ProvidersRegistered, CapacityChecked, PreflightAt,
         setupAzureVars
<1>2. IsPreflight(r) /\ RegisteredSoFar(registration, r) /\ r.i \in Nat \ {0}
  BY <1>1, PreFacts DEF IsPreflight
<1>3. CASE RegionChecked(f)
  <2>1. PICK supported \in BOOLEAN : Proceeds(f, "providers", ~supported)
    BY <1>3 DEF RegionChecked
  <2>2. r.i = 1
    BY <1>2, <1>3 DEF RegionChecked, PreflightAt, IsPreflight
  <2>3. (~supported) \in BOOLEAN
    OBVIOUS
  <2> DEFINE failed == ~supported
  <2> HIDE DEF failed
  <2>4. failed \in BOOLEAN /\ Proceeds(f, "providers", failed)
    BY <2>1, <2>3 DEF failed
  <2> QED BY <1>1, <2>2, <2>4, StageEnds
<1>4. CASE ProvidersFail(f)
  <2>1. Proceeds(f, "capacity", TRUE)
    BY <1>4 DEF ProvidersFail
  <2> QED BY <1>1, <2>1, StageEnds
<1>5. CASE ProvidersRegistered(f)
  <2>1. Proceeds(f, "capacity", FALSE) /\ r.pc = "providers" /\ r.i \notin Providers
    BY <1>5 DEF ProvidersRegistered, PreflightAt
  <2>2. \A j \in Providers : j < r.i
    BY <1>2, <2>1, SetupAssumption DEF Providers
  <2>3. \A j \in Providers : registration[r.at.sub][j] = "registered"
    BY <1>2, <2>1, <2>2 DEF RegisteredSoFar
  <2> QED BY <1>1, <2>1, <2>3, StageEnds
<1>6. CASE CapacityChecked(f)
  <2>1. PICK zones : Proceeds(f, "role", zones = "failed")
    BY <1>6 DEF CapacityChecked
  <2> DEFINE failed == zones = "failed"
  <2>2. failed \in BOOLEAN /\ Proceeds(f, "role", failed)
    BY <2>1
  <2>3. r.pc = "capacity"
    BY <1>6 DEF CapacityChecked, PreflightAt
  <2>4. r.proceed => \A j \in Providers : registration[r.at.sub][j] = "registered"
    BY <1>2, <2>3 DEF RegisteredSoFar
  <2> HIDE DEF failed
  <2> QED BY <1>1, <2>2, <2>4, StageEnds
<1> QED BY <1>3, <1>4, <1>5, <1>6

(* The last stages only warn: a preflight that is past them stands.        *)
LEMMA WarningGoes ==
    ASSUME SetupInv, NEW f \in 1 .. Len(pre), pre[f].pc \in {"role", "permissions"},
           NEW q, NEW able \in BOOLEAN, NEW stage \in {"permissions", "done"},
           q = [pre[f] EXCEPT !.pc = stage, !.mayAssign = able],
           pre' = [pre EXCEPT ![f] = q],
           NEW posts, IsQueue(posts), toPage' = toPage \o posts,
           \A m \in Elements(posts) : MessageOK(m, Len(pre)) /\ (m.type = "stage" => m.run = f),
           ~FailedIn(Elements(posts), f), stage = "done" => EndedIn(Elements(posts)),
           UNCHANGED <<page, reads, registration>>
    PROVE  SetupInv'
<1> DEFINE r == pre[f]
<1>1. IsPreflight(r) /\ RegisteredSoFar(registration, r)
  BY PreFacts
<1>2. q \in [pc : {stage}, at : {r.at}, i : {r.i}, proceed : {r.proceed}, mayAssign : {able}]
  BY <1>1, ZenonT(30) DEF IsPreflight
<1>3. q.at = r.at /\ q.pc = stage /\ q.i = r.i /\ q.proceed = r.proceed /\ q.mayAssign = able
  BY <1>2
<1>4. q \in [pc : {"region", "providers", "registering", "polling", "capacity", "role",
                     "permissions", "done"},
             at : {q.at}, i : Nat \ {0}, proceed : BOOLEAN, mayAssign : BOOLEAN]
  BY <1>1, <1>2, <1>3, Zenon DEF IsPreflight
<1>5. IsPreflight(q)
  BY <1>1, <1>3, <1>4 DEF IsPreflight
<1>6. RegisteredSoFar(registration', q)
  BY <1>1, <1>3 DEF RegisteredSoFar
<1>7. registration' \in [Subs -> [Providers -> {"none", "registering", "registered"}]]
  BY DEF SetupInv
<1>8. \A s \in Subs, i \in Providers :
          registration[s][i] = "registered" => registration'[s][i] = "registered"
  OBVIOUS
<1>9. q.proceed <=> pre[f].proceed /\ ~FailedIn(Elements(posts), f)
  BY <1>1, <1>3 DEF IsPreflight
<1>10. q.pc = "done" => EndedIn(Elements(posts))
  BY <1>3
<1>11. q.at = pre[f].at /\ pre[f].pc # "done" /\ UNCHANGED <<page, reads>>
  BY <1>3
<1> QED BY <1>5, <1>6, <1>7, <1>8, <1>9, <1>10, <1>11, GoesOn, ZenonT(60)

LEMMA SnapshotTells ==
    ASSUME NEW f \in 1 .. Len(pre)
    PROVE  LET m == Snapshot(f, FALSE)
           IN  m.type = "stage" /\ m.run = f /\ ~m.failed /\ MessageOK(m, Len(pre))
BY DEF Snapshot, MessageOK

LEMMA RoleStep == ASSUME SetupInv, NEW f, RoleChecked(f) PROVE SetupInv'
<1> DEFINE m == Snapshot(f, FALSE)
           posts == <<m>>
<1>1. f \in 1 .. Len(pre) /\ pre[f].pc = "role" /\ UNCHANGED <<page, reads, registration>>
  BY DEF RoleChecked, PreflightAt, setupAzureVars
<1>2. PICK able \in BOOLEAN :
        pre' = [pre EXCEPT ![f].pc = "permissions", ![f].mayAssign = able]
  BY DEF RoleChecked
<1>3. pre' = [pre EXCEPT ![f] = [pre[f] EXCEPT !.pc = "permissions", !.mayAssign = able]]
  BY <1>1, <1>2, PreFacts DEF IsPreflight
<1>4. IsQueue(posts) /\ Elements(posts) = {m} /\ toPage' = toPage \o posts
  BY OneMessage DEF RoleChecked, Post
<1>5. m.type = "stage" /\ m.run = f /\ ~m.failed /\ MessageOK(m, Len(pre))
  BY <1>1, SnapshotTells
<1> HIDE DEF m, posts
<1>6. /\ \A o \in Elements(posts) : MessageOK(o, Len(pre)) /\ (o.type = "stage" => o.run = f)
      /\ ~FailedIn(Elements(posts), f)
  BY <1>4, <1>5 DEF FailedIn
<1> QED BY <1>1, <1>3, <1>4, <1>6, WarningGoes

LEMMA EndStep == ASSUME SetupInv, NEW f, PreflightEnds(f) PROVE SetupInv'
<1> DEFINE r == pre[f]
           m == Snapshot(f, FALSE)
           e == [type |-> "complete", proceed |-> r.proceed, mayAssign |-> r.mayAssign]
           posts == <<m, e>>
<1>1. f \in 1 .. Len(pre) /\ r.pc = "permissions" /\ UNCHANGED <<page, reads, registration>>
  BY DEF PreflightEnds, PreflightAt, setupAzureVars
<1>2. IsPreflight(r)
  BY <1>1, PreFacts
<1>3. pre' = [pre EXCEPT ![f] = [r EXCEPT !.pc = "done", !.mayAssign = r.mayAssign]]
  BY <1>1, <1>2, PreFacts DEF IsPreflight, PreflightEnds
<1>4. IsQueue(posts) /\ Elements(posts) = {m, e} /\ toPage' = toPage \o posts
  BY TwoMessages DEF PreflightEnds, Post
<1>5. m.type = "stage" /\ m.run = f /\ ~m.failed /\ MessageOK(m, Len(pre))
  BY <1>1, SnapshotTells
<1>6. e.type = "complete" /\ MessageOK(e, Len(pre))
  <2>1. e \in [type : {"complete"}, proceed : BOOLEAN, mayAssign : BOOLEAN]
    BY <1>2 DEF IsPreflight
  <2>2. e # NoChoice /\ e.type = "complete"
    BY <2>1, SetupAssumption
  <2> QED BY <2>2 DEF MessageOK
<1>7. r.mayAssign \in BOOLEAN
  BY <1>2 DEF IsPreflight
<1> HIDE DEF m, e, posts
<1>8. /\ \A o \in Elements(posts) : MessageOK(o, Len(pre)) /\ (o.type = "stage" => o.run = f)
      /\ ~FailedIn(Elements(posts), f) /\ EndedIn(Elements(posts))
  BY <1>4, <1>5, <1>6 DEF FailedIn, EndedIn
<1> QED BY <1>1, <1>3, <1>4, <1>7, <1>8, WarningGoes, ZenonT(60)

LEMMA PreflightSteps == ASSUME SetupInv, NEW f, PreflightStep(f) PROVE SetupInv'
BY CheckedStep, ProvidersStep, RoleStep, EndStep DEF PreflightStep
-----------------------------------------------------------------------------
(* What the panel and Azure do besides                                     *)

LEMMA RegistrationStep ==
    ASSUME SetupInv, NEW s \in Subs, NEW i \in Providers, RegistrationEnds(s, i)
    PROVE  SetupInv'
<1>1. /\ registration' = [registration EXCEPT ![s][i] = "registered"]
      /\ UNCHANGED <<page, toPage, reads, pre>>
  BY DEF RegistrationEnds
<1>2. registration \in [Subs -> [Providers -> {"none", "registering", "registered"}]]
  BY DEF SetupInv
<1>3. /\ registration' \in [Subs -> [Providers -> {"none", "registering", "registered"}]]
      /\ \A t \in Subs, j \in Providers :
            registration[t][j] = "registered" => registration'[t][j] = "registered"
  BY <1>1, <1>2
<1>4. \A r \in Elements(pre) : IsPreflight(r) /\ RegisteredSoFar(registration', r)
  <2>1. ASSUME NEW r \in Elements(pre) PROVE IsPreflight(r) /\ RegisteredSoFar(registration', r)
    <3>1. IsPreflight(r) /\ RegisteredSoFar(registration, r) /\ r.at.sub \in Subs
      BY DEF SetupInv, IsPreflight
    <3> QED BY <1>3, <3>1 DEF RegisteredSoFar
  <2> QED BY <2>1
<1> QED BY <1>1, <1>3, <1>4 DEF SetupInv

(* The panel posts something else, or nothing.                             *)
LEMMA AnswerStep ==
    ASSUME SetupInv, UNCHANGED <<page, pre, registration>>, \A r \in reads' : r \in reads,
           \/ UNCHANGED toPage
           \/ \E m : /\ toPage' = toPage \o <<m>> /\ MessageOK(m, Len(pre))
                     /\ m.type \notin {"stage", "complete"}
    PROVE  SetupInv'
<1>1. /\ IsQueue(toPage') /\ \A m \in Elements(toPage') : MessageOK(m, Len(pre))
      /\ \A p : RunBehind(p, pre, Elements(toPage)) => RunBehind(p, pre, Elements(toPage'))
  <2>1. CASE UNCHANGED toPage
    BY <2>1 DEF SetupInv
  <2> QED BY <2>1, PostOther
<1>2. Watched(page', pre', Elements(toPage'))
  BY <1>1, PageFacts DEF Watched
<1>3. \A r \in reads' : ReadOK(r)
  BY DEF SetupInv
<1>4. \A r : RegisteredSoFar(registration', r) <=> RegisteredSoFar(registration, r)
  BY DEF RegisteredSoFar
<1>5. /\ IsQueue(pre')
      /\ \A r \in Elements(pre') : IsPreflight(r) /\ RegisteredSoFar(registration', r)
      /\ registration' \in [Subs -> [Providers -> {"none", "registering", "registered"}]]
  BY <1>4 DEF SetupInv
<1>6. /\ IsPage(page') /\ page'.form.key = Key(page') /\ SelectionOK(page')
      /\ FlowOK(page', Len(pre'))
  BY PageFacts
<1>7. \A m \in Elements(toPage') : MessageOK(m, Len(pre'))
  BY <1>1
<1> QED BY <1>1, <1>2, <1>3, <1>5, <1>6, <1>7 DEF SetupInv

LEMMA ReadStep ==
    ASSUME SetupInv, NEW r, ReadAnswered(r) \/ ReadinessChecked(r)
    PROVE  SetupInv'
<1>1. r \in reads /\ ReadOK(r) /\ \A x \in reads' : x \in reads
  BY DEF ReadAnswered, ReadinessChecked, SetupInv
<1>2. UNCHANGED <<page, pre, registration>>
  BY DEF ReadAnswered, ReadinessChecked, setupAzureVars
<1>3. CASE ReadinessChecked(r)
  <2> DEFINE m == [type |-> "ready", key |-> r.key]
  <2>1. toPage' = toPage \o <<m>>
    BY <1>3 DEF ReadinessChecked, Post
  <2>2. r.key # NoChoice
    BY <1>1, <1>3 DEF ReadinessChecked, ReadOK
  <2>3. MessageOK(m, Len(pre)) /\ m.type \notin {"stage", "complete"}
    BY <2>2 DEF MessageOK
  <2> QED BY <1>1, <1>2, <2>1, <2>3, AnswerStep
<1>4. CASE ReadAnswered(r)
  <2> DEFINE c == IF r.cluster = NoChoice THEN FALSE ELSE ConnectedTo[r.cluster]
             m == [type |-> r.kind, sub |-> r.sub, cluster |-> r.cluster, connected |-> c]
  <2>1. UNCHANGED toPage \/ toPage' = toPage \o <<m>>
    BY <1>4 DEF ReadAnswered, Post
  <2>2. r.kind \in {"locations", "clusters", "acrs"} /\ (r.kind = "acrs" => r.cluster # NoChoice)
    BY <1>1, <1>4 DEF ReadAnswered, ReadOK
  <2>3. MessageOK(m, Len(pre)) /\ m.type \notin {"stage", "complete"}
    BY <2>2 DEF MessageOK
  <2> QED BY <1>1, <1>2, <2>1, <2>3, AnswerStep
<1> QED BY <1>3, <1>4

LEMMA ScanningStep == ASSUME SetupInv, ScanRuns PROVE SetupInv'
<1> DEFINE m == [type |-> "scan", answer |-> scanPosts'[1]]
<1>1. UNCHANGED <<page, reads, pre, registration>>
  BY DEF ScanRuns, setupAzureVars
<1>2. toPage' = toPage \o <<>> \/ toPage' = toPage \o <<m>>
  BY DEF ScanRuns, Post
<1>3. MessageOK(m, Len(pre)) /\ m.type \notin {"stage", "complete"}
  BY DEF MessageOK
<1>4. toPage' = toPage \/ toPage' = toPage \o <<m>>
  BY <1>2, NothingPosted
<1> QED BY <1>1, <1>3, <1>4, AnswerStep

-----------------------------------------------------------------------------
(* The page receives                                                       *)

Update(p, v, q) ==
    q \in {p, [p EXCEPT !.locations = v], [p EXCEPT !.clusters = v],
           [p EXCEPT !.scanFlow = v], [p EXCEPT !.scan = v]}

LEMMA Updated ==
    ASSUME NEW p, IsPage(p), NEW v, NEW q, Update(p, v, q)
    PROVE  IsPage(q) /\ SameWatch(p, q) /\ SameSelection(p, q) /\ q.form = p.form
<1>1. CASE q = p
  BY <1>1 DEF SameWatch, SameSelection
<1>2. CASE q = [p EXCEPT !.locations = v]
  <2>1. IsPage(q)
    BY <1>2, ZenonT(60) DEF IsPage
  <2> QED BY <1>2, <2>1 DEF IsPage, SameWatch, SameSelection
<1>3. CASE q = [p EXCEPT !.clusters = v]
  <2>1. IsPage(q)
    BY <1>3, ZenonT(60) DEF IsPage
  <2> QED BY <1>3, <2>1 DEF IsPage, SameWatch, SameSelection
<1>4. CASE q = [p EXCEPT !.scanFlow = v]
  <2>1. IsPage(q)
    BY <1>4, ZenonT(60) DEF IsPage
  <2> QED BY <1>4, <2>1 DEF IsPage, SameWatch, SameSelection
<1>5. CASE q = [p EXCEPT !.scan = v]
  <2>1. IsPage(q)
    BY <1>5, ZenonT(60) DEF IsPage
  <2> QED BY <1>5, <2>1 DEF IsPage, SameWatch, SameSelection
<1> QED BY <1>1, <1>2, <1>3, <1>4, <1>5 DEF Update

(* A snapshot that is applied leaves the latest run, failed if one of its  *)
(* stages did.                                                             *)
LEMMA SnapshotApplied ==
    ASSUME NEW p, NEW n \in Nat, FlowOK(p, n), NEW m, m.run \in 1 .. n, m.failed \in BOOLEAN,
           NEW g, g = ApplySnapshot(p.flow, m)
    PROVE  /\ g \in [run : 1 .. n, failed : BOOLEAN] /\ g # NoChoice
           /\ g.run = n <=> (p.flow # NoChoice /\ p.flow.run = n) \/ m.run = n
           /\ g.run = n => (g.failed <=> \/ p.flow # NoChoice /\ p.flow.run = n /\ p.flow.failed
                                         \/ m.run = n /\ m.failed)
<1> DEFINE flow == p.flow
<1>0. flow # NoChoice => flow \in [run : 1 .. n, failed : BOOLEAN]
  BY DEF FlowOK
<1>6. g = ApplySnapshot(flow, m)
  OBVIOUS
<1> HIDE DEF flow
<1>1. \A x \in [run : 1 .. n, failed : BOOLEAN] : x # NoChoice
  BY SetupAssumption
<1>2. CASE flow = NoChoice \/ m.run > flow.run
  <2>1. g = [run |-> m.run, failed |-> m.failed]
    BY <1>2, <1>6 DEF ApplySnapshot
  <2>2. g \in [run : 1 .. n, failed : BOOLEAN] /\ g.run = m.run /\ (g.failed <=> m.failed)
    BY <2>1
  <2>3. flow # NoChoice => flow.run # n
    BY <1>0, <1>2
  <2> QED BY <1>0, <1>1, <2>2, <2>3 DEF flow
<1>3. CASE flow # NoChoice /\ m.run < flow.run
  <2>1. g = flow
    BY <1>0, <1>3, <1>6 DEF ApplySnapshot
  <2>2. m.run # n
    BY <1>0, <1>3
  <2> QED BY <1>0, <1>1, <1>3, <2>1, <2>2 DEF flow
<1>4. CASE flow # NoChoice /\ m.run = flow.run
  <2> DEFINE b == flow.failed \/ m.failed
  <2>1. b \in BOOLEAN /\ (b <=> flow.failed \/ m.failed)
    OBVIOUS
  <2>2. g = [flow EXCEPT !.failed = b]
    BY <1>0, <1>4, <1>6 DEF ApplySnapshot
  <2> HIDE DEF b
  <2>3. g \in [run : 1 .. n, failed : BOOLEAN] /\ g.run = flow.run /\ g.failed = b
    BY <1>0, <1>4, <2>1, <2>2
  <2> QED BY <1>0, <1>1, <1>4, <2>1, <2>3 DEF flow
<1>5. flow # NoChoice => flow.run \in Nat
  BY <1>0
<1> QED BY <1>2, <1>3, <1>4, <1>5

LEMMA ReceivedOK ==
    ASSUME NEW p, NEW n \in Nat, IsPage(p), SelectionOK(p), FlowOK(p, n), NEW m, MessageOK(m, n),
           NEW q, q = Received(p, m), NEW rs, Len(rs) = n, NEW ms
    PROVE  /\ IsPage(q) /\ SelectionOK(q) /\ FlowOK(q, n) /\ q.form = p.form
           /\ RunBehind(p, rs, ms \cup {m}) => RunBehind(q, rs, ms)
<1>1. CASE m.type \in {"locations", "clusters", "scanStage", "scan"}
  <2>1. \E v : Update(p, v, q)
    <3>1. CASE m.type = "locations"
      BY <3>1 DEF Received, Update
    <3>2. CASE m.type = "clusters"
      BY <3>2 DEF Received, Update
    <3>3. CASE m.type = "scanStage"
      BY <3>3 DEF Received, Update
    <3>4. CASE m.type = "scan"
      BY <3>4 DEF Received, Update
    <3> QED BY <1>1, <3>1, <3>2, <3>3, <3>4
  <2>2. IsPage(q) /\ SameWatch(p, q) /\ SameSelection(p, q) /\ q.form = p.form
    <3>1. PICK v : Update(p, v, q)
      BY <2>1
    <3> QED BY <3>1, Updated
  <2>4. SelectionOK(q) /\ FlowOK(q, n)
    BY <2>2, SamePage
  <2>5. RunBehind(p, rs, ms \cup {m}) <=> RunBehind(p, rs, ms)
    BY <1>1, OthersSilent
  <2>6. RunBehind(p, rs, ms) => RunBehind(q, rs, ms)
    BY <2>2, SamePage
  <2> QED BY <2>2, <2>4, <2>5, <2>6
<1>2. CASE m.type \in {"acrs", "ready"}
  <2>1. RunBehind(p, rs, ms \cup {m}) <=> RunBehind(p, rs, ms)
    BY <1>2, OthersSilent
  <2>2. CASE q = p
    BY <2>1, <2>2
  <2>3. CASE m.type = "acrs" /\ q # p
    <3> DEFINE a == [of |-> <<m.sub, m.cluster>>, connected |-> m.connected]
    <3>1. q = [p EXCEPT !.acrs = a, !.detecting = FALSE] /\ m.sub = p.sub /\ m.cluster = p.cluster
      BY <2>3 DEF Received, RegistriesDetected
    <3>2. /\ a.of = <<p.sub, p.cluster>> /\ a.connected = ConnectedTo[p.cluster]
          /\ p.cluster # NoChoice
      BY <2>3, <3>1 DEF MessageOK
    <3> HIDE DEF a
    <3>3. IsPage(q)
      BY <3>1, ZenonT(60) DEF IsPage
    <3>4. /\ q.form = p.form /\ SameWatch(p, q) /\ q.acrs = a
          /\ q.sub = p.sub /\ q.cluster = p.cluster /\ q.ready = p.ready /\ q.readyKey = p.readyKey
      BY <3>1 DEF IsPage, SameWatch
    <3>5. SelectionOK(q)
      BY <3>2, <3>4 DEF SelectionOK
    <3>6. FlowOK(q, n) /\ (RunBehind(p, rs, ms) => RunBehind(q, rs, ms))
      BY <3>4 DEF SameWatch, FlowOK, RunBehind, FailureKnown
    <3> QED BY <2>1, <3>3, <3>4, <3>5, <3>6
  <2>4. CASE m.type = "ready" /\ q # p
    <3>1. q = [p EXCEPT !.ready = m] /\ m.key = p.readyKey
      BY <2>4 DEF Received
    <3>2. IsPage(q)
      BY <3>1, ZenonT(60) DEF IsPage
    <3>3. /\ q.form = p.form /\ SameWatch(p, q) /\ q.acrs = p.acrs
          /\ q.sub = p.sub /\ q.cluster = p.cluster /\ q.ready = m /\ q.readyKey = p.readyKey
      BY <3>1 DEF IsPage, SameWatch
    <3>4. p.readyKey # NoChoice
      BY <2>4, <3>1 DEF MessageOK
    <3>5. SelectionOK(q)
      BY <3>1, <3>3, <3>4 DEF SelectionOK
    <3>6. FlowOK(q, n) /\ (RunBehind(p, rs, ms) => RunBehind(q, rs, ms))
      BY <3>3 DEF SameWatch, FlowOK, RunBehind, FailureKnown
    <3> QED BY <2>1, <3>2, <3>3, <3>5, <3>6
  <2> QED BY <1>2, <2>2, <2>3, <2>4
<1>3. CASE m.type = "stage"
  <2> DEFINE g == ApplySnapshot(p.flow, m)
  <2>1. q = [p EXCEPT !.flow = g]
    BY <1>3 DEF Received, IsPage
  <2>2. m.run \in 1 .. n /\ m.failed \in BOOLEAN
    BY <1>3 DEF MessageOK
  <2>3. /\ g \in [run : 1 .. n, failed : BOOLEAN] /\ g # NoChoice
        /\ g.run = n <=> (p.flow # NoChoice /\ p.flow.run = n) \/ m.run = n
        /\ g.run = n => (g.failed <=> \/ p.flow # NoChoice /\ p.flow.run = n /\ p.flow.failed
                                      \/ m.run = n /\ m.failed)
    BY <2>2, SnapshotApplied
  <2> HIDE DEF g
  <2>4. IsPage(q)
    BY <2>1, ZenonT(60) DEF IsPage
  <2>5. q.form = p.form /\ SameSelection(p, q) /\ q.flow = g /\ q.proceed = p.proceed
    BY <2>1 DEF IsPage, SameSelection
  <2>6. SelectionOK(q) /\ FlowOK(q, n)
    BY <2>3, <2>5 DEF SelectionOK, SameSelection, FlowOK
  <2>7. ASSUME RunBehind(p, rs, ms \cup {m}) PROVE RunBehind(q, rs, ms)
    <3>1. \/ q.flow # NoChoice /\ q.flow.run = n
          \/ \E o \in ms : o.type = "stage" /\ o.run = n
      BY <2>3, <2>5, <2>7 DEF RunBehind
    <3>2. FailureKnown(q, n, ms) <=> FailureKnown(p, n, ms \cup {m})
      BY <1>3, <2>3, <2>5 DEF FailureKnown
    <3>3. (\E o \in ms \cup {m} : o.type = "complete") => \E o \in ms : o.type = "complete"
      BY <1>3
    <3> QED BY <2>5, <2>7, <3>1, <3>2, <3>3 DEF RunBehind
  <2> QED BY <2>4, <2>5, <2>6, <2>7
<1>4. CASE m.type = "complete"
  <2>1. q = [p EXCEPT !.proceed = m] /\ m # NoChoice
    BY <1>4 DEF Received, MessageOK
  <2>2. IsPage(q)
    BY <2>1, ZenonT(60) DEF IsPage
  <2>3. q.form = p.form /\ SameSelection(p, q) /\ q.flow = p.flow /\ q.proceed = m
    BY <2>1 DEF IsPage, SameSelection
  <2>4. SelectionOK(q) /\ FlowOK(q, n)
    BY <2>3 DEF SelectionOK, SameSelection, FlowOK
  <2>5. ASSUME RunBehind(p, rs, ms \cup {m}) PROVE RunBehind(q, rs, ms)
    <3>1. FailureKnown(q, n, ms) <=> FailureKnown(p, n, ms \cup {m})
      BY <1>4, <2>3 DEF FailureKnown
    <3> QED BY <1>4, <2>1, <2>3, <2>5, <3>1 DEF RunBehind
  <2> QED BY <2>2, <2>3, <2>4, <2>5
<1> QED BY <1>1, <1>2, <1>3, <1>4 DEF MessageOK

LEMMA ReceiveStep == ASSUME SetupInv, Receive PROVE SetupInv'
<1> DEFINE m == Head(toPage)
           rest == Tail(toPage)
           p == Received(page, m)
<1>1. /\ page' = Rendered(p) /\ reads' = reads \cup AskedReads(page, page')
      /\ toPage' = rest /\ toPage # <<>> /\ UNCHANGED <<pre, registration>>
  BY DEF Receive, Render, setupAzureVars
<1>2. IsQueue(rest) /\ Elements(toPage) = {m} \cup Elements(rest)
  BY <1>1, QueueDelivers DEF SetupInv
<1>3. MessageOK(m, Len(pre)) /\ \A o \in Elements(rest) : MessageOK(o, Len(pre))
  BY <1>2 DEF SetupInv
<1>4. Len(pre) \in Nat
  BY LenProperties DEF SetupInv, IsQueue
<1> HIDE DEF m, rest
<1>5. /\ IsPage(p) /\ SelectionOK(p) /\ FlowOK(p, Len(pre)) /\ p.form = page.form
      /\ RunBehind(page, pre, Elements(rest) \cup {m}) => RunBehind(p, pre, Elements(rest))
  BY <1>3, <1>4, PageFacts, ReceivedOK
<1> HIDE DEF p
<1>6. \/ p.form.key = NoChoice
      \/ p.form.timer = NoChoice => RunBehind(p, pre, Elements(toPage'))
  <2>1. Elements(toPage) = Elements(rest) \cup {m}
    BY <1>2
  <2> QED BY <1>1, <1>5, <2>1, PageFacts
<1>7. p.form.timer \in {NoChoice, p.form.key}
  BY <1>5, PageFacts
<1>8. \A r \in reads' : r \in reads \/ ReadOK(r)
  BY <1>1, AskedReadsOK
<1>9. IsQueue(toPage') /\ \A o \in Elements(toPage') : MessageOK(o, Len(pre))
  BY <1>1, <1>2, <1>3
<1> QED BY <1>1, <1>5, <1>6, <1>7, <1>8, <1>9, RenderStep
-----------------------------------------------------------------------------
LEMMA SetupSteps == ASSUME SetupInv, SetupNext PROVE SetupInv'
<1>1. CASE UserStep
  BY <1>1, UserSteps
<1>2. CASE TimerFires
  BY <1>2, TimerStep
<1>3. CASE \E r \in reads : ReadAnswered(r) \/ ReadinessChecked(r)
  BY <1>3, ReadStep
<1>4. CASE ScanRuns
  BY <1>4, ScanningStep
<1>5. CASE \E f \in Preflights : PreflightStep(f)
  BY <1>5, PreflightSteps
<1>6. CASE \E s \in Subs, i \in Providers : RegistrationEnds(s, i)
  BY <1>6, RegistrationStep
<1>7. CASE Receive
  BY <1>7, ReceiveStep
<1> QED BY <1>1, <1>2, <1>3, <1>4, <1>5, <1>6, <1>7 DEF SetupNext

LEMMA SetupStarts == SetupInit => SetupInv
<1> SUFFICES ASSUME SetupInit PROVE SetupInv
  OBVIOUS
<1>1. PICK mode \in {"create", "existing"} : page = [FreshPage EXCEPT !.mode = mode]
  BY DEF SetupInit
<1>2. /\ page.mode = mode /\ page.stage = "collecting" /\ page.sub = NoChoice
      /\ page.form = FreshForm /\ page.gen = 0 /\ page.detecting = FALSE
      /\ page.flow = NoChoice /\ page.acrs = NoChoice /\ page.ready = NoChoice
      /\ page.readyKey = NoChoice
  BY <1>1 DEF FreshPage
<1>3. IsPage(page)
  <2>1. page \in [mode : {page.mode}, stage : {page.stage},
              sub : {page.sub}, locations : {page.locations}, scan : {page.scan},
              scanFlow : {page.scanFlow}, form : {page.form}, gen : {page.gen}, flow : {page.flow},
              proceed : {page.proceed}, clusters : {page.clusters}, cluster : {page.cluster},
              acrs : {page.acrs}, detecting : {page.detecting}, ready : {page.ready},
              readyKey : {page.readyKey}]
    BY <1>1, ZenonT(60) DEF FreshPage
  <2>2. /\ page.mode \in {"create", "existing"} /\ page.stage \in {"collecting", "submitted"}
        /\ page.sub \in Subs \cup {NoChoice} /\ page.gen \in Nat /\ page.detecting \in BOOLEAN
    <3>1. mode \in {"create", "existing"}
      BY <1>1
    <3>2. page.mode \in {"create", "existing"} /\ page.stage \in {"collecting", "submitted"}
      BY <1>2, <3>1
    <3>3. page.sub \in Subs \cup {NoChoice} /\ page.gen \in Nat
      BY <1>2
    <3>4. page.detecting \in BOOLEAN
      BY <1>2
    <3> QED BY <3>2, <3>3, <3>4
  <2>3. IsForm(page.form)
    BY <1>2 DEF IsForm, FreshForm
  <2> QED BY <2>1, <2>2, <2>3, ZenonT(60) DEF IsPage
<1>4. /\ page.form.key = NoChoice /\ page.form.timer = NoChoice /\ Key(page) = NoChoice
  BY <1>2 DEF FreshForm, Key
<1>5. /\ toPage = <<>> /\ pre = <<>> /\ reads = {}
      /\ registration \in [Subs -> [Providers -> {"none", "registering", "registered"}]]
  BY DEF SetupInit
<1>6. IsQueue(toPage) /\ IsQueue(pre) /\ Elements(toPage) = {} /\ Elements(pre) = {}
  BY <1>5, NoMessage
<1>7. SelectionOK(page) /\ FlowOK(page, Len(pre))
  BY <1>2 DEF SelectionOK, FlowOK
<1>8. Watched(page, pre, Elements(toPage))
  BY <1>4 DEF Watched
<1> QED BY <1>3, <1>4, <1>5, <1>6, <1>7, <1>8 DEF SetupInv

(* The setup pages keep their inductive invariant (type correctness is its *)
(* first part), whatever the user changes and in whatever order the panel  *)
(* answers.                                                                *)
THEOREM SetupInvariance == SetupSpec => []SetupInv
<1>1. SetupInv /\ [SetupNext]_setupVars => SetupInv'
  <2>1. ASSUME SetupInv, UNCHANGED setupVars PROVE SetupInv'
    <3>1. UNCHANGED <<page, toPage, reads, pre, registration>>
      BY <2>1 DEF setupVars
    <3>2. \A r : RegisteredSoFar(registration', r) <=> RegisteredSoFar(registration, r)
      BY <3>1 DEF RegisteredSoFar
    <3> QED BY <2>1, <3>1, <3>2 DEF SetupInv
  <2> QED BY <2>1, SetupSteps
<1> QED BY <1>1, SetupStarts, PTL DEF SetupSpec

(* The button that starts the provisioning: once no timer, preflight or    *)
(* message is under way, it lets the selection on the screen through       *)
(* exactly if the preflight of that selection said it may proceed.         *)
THEOREM GateIsTrue == SetupSpec => []GateSettles
<1>1. SetupInv => GateSettles
  <2> SUFFICES ASSUME SetupInv, Settled
               PROVE  /\ pre # <<>> /\ LastOf(pre).at = Key(page)
                      /\ LastOf(pre).proceed <=>
                            (~PreflightRunning(page) /\ ~PreflightHasFailure(page))
    BY DEF GateSettles
  <2> DEFINE n == Len(pre)
  <2>1. /\ page.form.key = Key(page) /\ Key(page) # NoChoice /\ page.form.timer = NoChoice
        /\ toPage = <<>> /\ \A f \in 1 .. n : pre[f].pc = "done"
    BY PageFacts DEF Settled
  <2>2. Elements(toPage) = {}
    BY <2>1, NoMessage
  <2>3. RunBehind(page, pre, {})
    BY <2>1, <2>2, PageFacts
  <2>4. n \in Nat /\ n > 0 /\ pre[n].at = Key(page)
    BY <2>1, <2>3, LenProperties DEF RunBehind, SetupInv, IsQueue
  <2>5. n \in 1 .. n
    BY <2>4
  <2>6. pre[n].pc = "done"
    BY <2>1, <2>5
  <2>7. page.flow # NoChoice /\ page.flow.run = n
    BY <2>3 DEF RunBehind
  <2>8. pre[n].proceed <=> ~page.flow.failed
    BY <2>3, <2>7 DEF RunBehind, FailureKnown
  <2>9. page.proceed # NoChoice
    BY <2>3, <2>6 DEF RunBehind
  <2>10. pre # <<>>
    BY <2>4
  <2> QED BY <2>4, <2>7, <2>8, <2>9, <2>10
      DEF LastOf, PreflightRunning, PreflightHasFailure
<1> QED BY <1>1, SetupInvariance, PTL

(* A preflight that lets its user proceed has every required provider      *)
(* registered in its subscription, also when several register them at once.*)
THEOREM RegisteredBeforeProceed == SetupSpec => []ProceedMeansRegistered
<1>1. SetupInv => ProceedMeansRegistered
  BY PreFacts DEF ProceedMeansRegistered, RegisteredSoFar
<1> QED BY <1>1, SetupInvariance, PTL

(* The registries and the readiness that the existing-cluster form shows   *)
(* are of the cluster and subscription selected, however late the answers  *)
(* for earlier selections arrive.                                          *)
THEOREM RegistriesMatch == SetupSpec => []RegistriesOfSelection
<1>1. SetupInv => RegistriesOfSelection
  BY DEF SetupInv, SelectionOK, RegistriesOfSelection
<1> QED BY <1>1, SetupInvariance, PTL

-----------------------------------------------------------------------------
(* The scan of a subscription                                              *)

(* A scan: what is not looked at may be anything.                          *)
IsScan(r) ==
    r \in [pc : {r.pc}, sub : {r.sub}, cancelled : BOOLEAN, next : Nat \ {0},
           inFlight : SUBSET Regions, raced : {r.raced}, indexed : {r.indexed},
           results : {r.results}, cleared : {r.cleared}]

(* Only the scan whose token the panel holds may be going on unasked.      *)
ScanInv ==
    /\ scans = [s \in Scans |-> scans[s]]
    /\ \A s \in Scans :
        /\ IsScan(scans[s])
        /\ scans[s].pc # "idle" /\ ~scans[s].cancelled => s = scanToken
        /\ s = scanToken => scans[s].pc # "idle"

(* What the step of a scan may make of it.                                 *)
Goes(r, q) ==
    /\ IsScan(q) /\ q.cancelled = r.cancelled /\ (q.pc = "idle" <=> r.pc = "idle")
    /\ r.cancelled => q.next <= r.next

LEMMA OverGoes ==
    ASSUME NEW r, IsScan(r), NEW stage, stage # "idle", r.pc # "idle"
    PROVE  Goes(r, Over(r, stage))
<1> SUFFICES ASSUME NEW q, q = Over(r, stage) PROVE Goes(r, q)
  OBVIOUS
<1>1. q = [pc |-> stage, sub |-> r.sub, cancelled |-> r.cancelled, next |-> 1, inFlight |-> {},
           raced |-> {}, indexed |-> {}, results |-> <<>>, cleared |-> {}]
  BY DEF Over, IdleScan
<1> QED BY <1>1 DEF Goes, IsScan

LEMMA CollectedGoes ==
    ASSUME NEW r, IsScan(r)
    PROVE  Goes(r, Collected(r)) /\ Collected(r).next = r.next /\ Collected(r).pc = r.pc
<1> SUFFICES ASSUME NEW q, q = Collected(r) PROVE Goes(r, q) /\ q.next = r.next /\ q.pc = r.pc
  OBVIOUS
<1>1. ASSUME NEW got, NEW rest, q = [r EXCEPT !.results = got, !.indexed = rest]
      PROVE  Goes(r, q) /\ q.next = r.next /\ q.pc = r.pc
  <2>1. IsScan(q)
    BY <1>1, ZenonT(30) DEF IsScan
  <2>2. q.cancelled = r.cancelled /\ q.next = r.next /\ q.pc = r.pc
    BY <1>1 DEF IsScan
  <2> QED BY <2>1, <2>2 DEF Goes, IsScan
<1> QED BY <1>1 DEF Collected

LEMMA FilledGoes ==
    ASSUME NEW r, IsScan(r), r.pc # "idle", ~r.cancelled
    PROVE  Goes(r, Filled(r))
<1>1. IsFiniteSet(r.inFlight) /\ r.inFlight \in SUBSET Regions /\ Cardinality(r.inFlight) \in Nat
  <2>1. IsFiniteSet(1 .. NRegions)
    BY FS_Interval, ScanAssumption
  <2>2. r.inFlight \in SUBSET (1 .. NRegions)
    BY DEF IsScan, Regions
  <2> QED BY <2>1, <2>2, FS_Subset, FS_CardinalityType DEF Regions
<1>2. IsFiniteSet(Started(r)) /\ Cardinality(Started(r)) \in Nat
  <2> DEFINE last == Least(NRegions, r.next + (Concurrency - Cardinality(r.inFlight)) - 1)
  <2>1. r.next \in Int /\ last \in Int
    BY <1>1, ScanAssumption DEF IsScan, Least
  <2>2. IsFiniteSet(r.next .. last)
    BY <2>1, FS_Interval
  <2> QED BY <2>2, FS_CardinalityType DEF Started
<1>3. Started(r) \subseteq Regions
  BY <1>1, ScanAssumption DEF Started, IsScan, Least, Regions
<1> SUFFICES ASSUME NEW q, q = Filled(r) PROVE Goes(r, q)
  OBVIOUS
<1> DEFINE n == Cardinality(Started(r))
           all == r.inFlight \cup Started(r)
<1>4. n \in Nat /\ all \in SUBSET Regions
  BY <1>1, <1>2, <1>3
<1>5. q = [r EXCEPT !.pc = "racing", !.next = r.next + n, !.inFlight = all, !.raced = all]
  BY DEF Filled, IsScan
<1> HIDE DEF n, all
<1>6. r.next + n \in Nat \ {0}
  BY <1>4 DEF IsScan
<1>7. IsScan(q)
  BY <1>4, <1>5, <1>6, ZenonT(30) DEF IsScan
<1>8. q.cancelled = r.cancelled /\ q.pc = "racing"
  BY <1>5 DEF IsScan
<1> QED BY <1>7, <1>8 DEF Goes

LEMMA ContinuedGoes ==
    ASSUME NEW r, IsScan(r), r.pc # "idle"
    PROVE  Goes(r, Continued(r))
<1>1. CASE r.cancelled
  BY <1>1, OverGoes DEF Continued
<1>2. ASSUME ~r.cancelled, NEW q, q = [r EXCEPT !.pc = "settling"]
      PROVE  Goes(r, q)
  BY <1>2 DEF Goes, IsScan
<1>3. CASE ~r.cancelled
  <2>1. Continued(r) \in {[r EXCEPT !.pc = "settling"], Filled(r)}
    BY <1>3 DEF Continued
  <2> QED BY <1>2, <1>3, <2>1, FilledGoes
<1> QED BY <1>1, <1>3 DEF IsScan

(* A step that makes its scan go on, and posts what the panel waits for.   *)
LEMMA GoingStep ==
    ASSUME ScanInv, NEW s \in Scans, NEW q, Goes(scans[s], q),
           scans' = [scans EXCEPT ![s] = q], scanToken' = scanToken,
           scanPosts' # <<>> =>
               scanPosts'[1].run = s /\ ~scans[s].cancelled /\ scans[s].pc # "idle"
    PROVE  /\ ScanInv'
           /\ \A t \in Scans :
                /\ scans[t].cancelled => scans'[t].next <= scans[t].next
                /\ scanPosts' # <<>> => scanPosts'[1].run = scanToken
<1>1. \A t \in Scans : scans'[t] = IF t = s THEN q ELSE scans[t]
  BY DEF ScanInv
<1>2. scans' = [t \in Scans |-> scans'[t]]
  BY DEF ScanInv
<1>3. \A t \in Scans : scans[t].next \in Nat
  BY DEF ScanInv, IsScan
<1>4. \A t \in Scans : scans[t].cancelled => scans'[t].next <= scans[t].next
  BY <1>1, <1>3 DEF Goes
<1>5. \A t \in Scans : IsScan(scans'[t])
  BY <1>1 DEF ScanInv, Goes
<1>6. \A t \in Scans : /\ scans'[t].pc # "idle" /\ ~scans'[t].cancelled => t = scanToken'
                       /\ t = scanToken' => scans'[t].pc # "idle"
  BY <1>1 DEF ScanInv, Goes
<1>7. scanPosts' # <<>> => scanPosts'[1].run = scanToken
  <2>1. scanPosts' # <<>> => scanPosts'[1].run = s /\ ~scans[s].cancelled /\ scans[s].pc # "idle"
    OBVIOUS
  <2> QED BY <2>1 DEF ScanInv
<1> QED BY <1>2, <1>4, <1>5, <1>6, <1>7 DEF ScanInv

(* A scan that is told to stop.                                            *)
Stopped(r) == [r EXCEPT !.cancelled = TRUE]

LEMMA ScanStartStep ==
    ASSUME ScanInv, NEW sub, StartScan(sub)
    PROVE  /\ ScanInv'
           /\ \A t \in Scans :
                /\ scans[t].cancelled => scans'[t].next <= scans[t].next
                /\ scanPosts' # <<>> => scanPosts'[1].run = scanToken
<1> DEFINE fresh == [IdleScan EXCEPT !.pc = "providers", !.sub = sub]
<1>1. PICK s \in Scans :
        /\ scans[s].pc = "idle"
        /\ scans' = [t \in Scans |->
              CASE t = s -> fresh [] t = scanToken -> Stopped(scans[t]) [] OTHER -> scans[t]]
        /\ scanToken' = s
        /\ scanPosts' = <<>>
  BY DEF StartScan, Posted, Stopped
<1>2. IsScan(fresh) /\ fresh.next = 1 /\ ~fresh.cancelled /\ fresh.pc # "idle"
  <2> SUFFICES ASSUME NEW q, q = fresh
                  PROVE  IsScan(q) /\ q.next = 1 /\ ~q.cancelled /\ q.pc # "idle"
    OBVIOUS
  <2>1. q = [pc |-> "providers", sub |-> sub, cancelled |-> FALSE, next |-> 1, inFlight |-> {},
             raced |-> {}, indexed |-> {}, results |-> <<>>, cleared |-> {}]
    BY DEF IdleScan
  <2> HIDE DEF fresh
  <2> QED BY <2>1 DEF IsScan
<1>3. ASSUME NEW r, IsScan(r), NEW q, q = Stopped(r)
      PROVE  IsScan(q) /\ q.next = r.next /\ q.cancelled
  BY <1>3 DEF IsScan, Stopped
<1> HIDE DEF fresh
<1>4. ASSUME NEW t \in Scans
      PROVE  \/ t = s /\ scans'[t] = fresh
             \/ t # s /\ t = scanToken /\ scans'[t] = Stopped(scans[t])
             \/ t # s /\ t # scanToken /\ scans'[t] = scans[t]
  <2>1. scans'[t] =
          CASE t = s -> fresh [] t = scanToken -> Stopped(scans[t]) [] OTHER -> scans[t]
    BY <1>1, Zenon
  <2>2. s # scanToken
    BY <1>1 DEF ScanInv
  <2> QED BY <2>1, <2>2
<1>5. scans' = [t \in Scans |-> scans'[t]]
  BY <1>1
<1>6. ASSUME NEW t \in Scans
      PROVE  /\ IsScan(scans'[t])
             /\ scans'[t].pc # "idle" /\ ~scans'[t].cancelled => t = s
             /\ t = s => scans'[t].pc # "idle"
             /\ scans[t].cancelled => scans'[t].next <= scans[t].next
  <2>0. IsScan(scans[t]) /\ scans[t].next \in Nat \ {0}
    BY DEF ScanInv, IsScan
  <2>1. CASE t = s /\ scans'[t] = fresh
    BY <1>2, <2>0, <2>1
  <2>2. CASE t # s /\ t = scanToken /\ scans'[t] = Stopped(scans[t])
    BY <1>3, <2>0, <2>2
  <2>3. CASE t # s /\ t # scanToken /\ scans'[t] = scans[t]
    BY <2>0, <2>3 DEF ScanInv
  <2> QED BY <1>4, <2>1, <2>2, <2>3
<1> QED BY <1>1, <1>5, <1>6 DEF ScanInv

LEMMA ScanSteps ==
    ASSUME ScanInv, NEW s \in Scans, ScanStep(s)
    PROVE  /\ ScanInv'
           /\ \A t \in Scans :
                /\ scans[t].cancelled => scans'[t].next <= scans[t].next
                /\ scanPosts' # <<>> => scanPosts'[1].run = scanToken
<1> DEFINE r == scans[s]
<1>0. IsScan(r)
  BY DEF ScanInv
<1>1. CASE ProvidersRead(s)
  <2>1. PICK ok \in BOOLEAN :
          scans' = [scans EXCEPT ![s] = IF ~ok /\ r.cancelled THEN Over(r, "cancelled")
                                        ELSE [r EXCEPT !.pc = "quota"]]
    BY <1>1 DEF ProvidersRead, ScanInv
  <2>2. Goes(r, Over(r, "cancelled")) /\ Goes(r, [r EXCEPT !.pc = "quota"])
    BY <1>0, <1>1, OverGoes DEF ProvidersRead, Goes, IsScan
  <2> QED BY <1>1, <2>1, <2>2, GoingStep DEF ProvidersRead, Posted
<1>2. CASE FirstRound(s)
  <2>1. scans' = [scans EXCEPT ![s] = Continued(r)]
    BY <1>2 DEF FirstRound, ScanInv
  <2> QED BY <1>0, <1>2, <2>1, ContinuedGoes, GoingStep DEF FirstRound, Posted
<1>3. ASSUME NEW i \in Regions, ProbeEnds(s, i)
      PROVE  /\ ScanInv'
             /\ \A t \in Scans :
                  /\ scans[t].cancelled => scans'[t].next <= scans[t].next
                  /\ scanPosts' # <<>> => scanPosts'[1].run = scanToken
  <2>1. PICK clear \in BOOLEAN :
          scans' = [scans EXCEPT ![s].inFlight = @ \ {i}, ![s].indexed = @ \cup {i},
                                 ![s].cleared = IF clear THEN @ \cup {i} ELSE @]
    BY <1>3 DEF ProbeEnds
  <2> DEFINE q == [r EXCEPT !.inFlight = @ \ {i}, !.indexed = @ \cup {i},
                            !.cleared = IF clear THEN @ \cup {i} ELSE @]
  <2>2. scans' = [scans EXCEPT ![s] = q]
    BY <2>1 DEF ScanInv
  <2>3. ASSUME NEW a, NEW b, NEW c, NEW new, a \in SUBSET Regions,
               new = [r EXCEPT !.inFlight = a, !.indexed = b, !.cleared = c]
        PROVE  Goes(r, new)
    <3>1. IsScan(new)
      BY <1>0, <2>3, ZenonT(30) DEF IsScan
    <3>2. new.cancelled = r.cancelled /\ new.next = r.next /\ new.pc = r.pc
      BY <1>0, <2>3 DEF IsScan
    <3> QED BY <1>0, <3>1, <3>2 DEF Goes, IsScan
  <2>4. r.inFlight \ {i} \in SUBSET Regions
    BY <1>0 DEF IsScan
  <2>5. Goes(r, q)
    <3> DEFINE cleared == IF clear THEN r.cleared \cup {i} ELSE r.cleared
    <3>1. q = [r EXCEPT !.inFlight = r.inFlight \ {i}, !.indexed = r.indexed \cup {i},
                        !.cleared = cleared]
      BY <1>0 DEF IsScan
    <3> HIDE DEF cleared
    <3> QED BY <2>3, <2>4, <3>1
  <2> HIDE DEF q
  <2> QED BY <1>3, <2>2, <2>5, GoingStep DEF ProbeEnds, Posted
<1>4. CASE RaceWon(s)
  <2> DEFINE c == Collected(r)
  <2>1. scans' = [scans EXCEPT ![s] = Continued(c)]
    BY <1>4 DEF RaceWon, ScanInv
  <2>2. Goes(r, c) /\ c.next = r.next /\ c.pc = r.pc /\ r.pc # "idle"
    BY <1>0, <1>4, CollectedGoes DEF RaceWon
  <2>3. Goes(c, Continued(c))
    BY <2>2, ContinuedGoes DEF Goes
  <2>4. Goes(r, Continued(c))
    BY <2>2, <2>3 DEF Goes
  <2> QED BY <1>4, <2>1, <2>4, GoingStep DEF RaceWon, Posted
<1>5. CASE ScanEnds(s)
  <2> DEFINE c == Collected(r)
  <2>1. /\ r.pc # "idle"
        /\ scans' = [scans EXCEPT ![s] = Over(c, IF c.cancelled THEN "cancelled" ELSE "done")]
        /\ scanPosts' = IF c.cancelled THEN <<>> ELSE <<Answer(s, c)>>
    BY <1>5 DEF ScanEnds, ScanInv, Posted
  <2>2. Goes(r, c) /\ c.next = r.next /\ c.pc = r.pc
    BY <1>0, CollectedGoes
  <2>3. \A stage \in {"cancelled", "done"} : Goes(c, Over(c, stage))
    BY <2>1, <2>2, OverGoes DEF Goes
  <2>4. \A stage \in {"cancelled", "done"} : Goes(r, Over(c, stage))
    BY <2>2, <2>3 DEF Goes
  <2>5. scanPosts' # <<>> => scanPosts'[1].run = s /\ ~r.cancelled /\ r.pc # "idle"
    BY <2>1, <2>2 DEF Answer, Goes
  <2> QED BY <1>5, <2>1, <2>4, <2>5, GoingStep DEF ScanEnds
<1> QED BY <1>1, <1>2, <1>3, <1>4, <1>5 DEF ScanStep

(* The setup page runs scans, and does nothing else to them.               *)
ScanMoves == (\E sub : StartScan(sub)) \/ (\E s \in Scans : ScanStep(s))

LEMMA SetupScans == [SetupNext]_setupVars => ScanMoves \/ UNCHANGED scanVars
<1> SUFFICES ASSUME [SetupNext]_setupVars PROVE ScanMoves \/ UNCHANGED scanVars
  OBVIOUS
<1> USE DEF ScanMoves
<1>1. CASE UNCHANGED setupVars
  BY <1>1 DEF setupVars
<1>2. CASE UserStep
  BY <1>2 DEF UserStep, SelectSubscription, SetMode, SelectLocation, EditGroup,
     RecheckPermissions, SelectCluster, SubmitNew, SubmitExisting, EditForm, Submit,
     LoadSubscription
<1>3. CASE TimerFires
  BY <1>3 DEF TimerFires
<1>4. ASSUME NEW r \in reads, ReadAnswered(r) \/ ReadinessChecked(r) PROVE UNCHANGED scanVars
  BY <1>4 DEF ReadAnswered, ReadinessChecked
<1>5. CASE ScanRuns
  BY <1>5 DEF ScanRuns
<1>6. ASSUME NEW f \in Preflights, PreflightStep(f) PROVE UNCHANGED scanVars
  BY <1>6 DEF PreflightStep, RegionChecked, ProviderRead, ProviderRegisters, PollAnswered, ProvidersFail,
     ProvidersRegistered, CapacityChecked, RoleChecked, PreflightEnds, Proceeds
<1>7. ASSUME NEW s \in Subs, NEW i \in Providers, RegistrationEnds(s, i)
      PROVE  UNCHANGED scanVars
  BY <1>7 DEF RegistrationEnds
<1>8. CASE Receive
  BY <1>8 DEF Receive
<1> QED BY <1>1, <1>2, <1>3, <1>4, <1>5, <1>6, <1>7, <1>8 DEF SetupNext

LEMMA ScanInvariance == SetupSpec => []ScanInv
<1>1. SetupInit => ScanInv
  <2>1. ASSUME NEW q, q = IdleScan PROVE IsScan(q) /\ q.pc = "idle"
    BY <2>1 DEF IsScan, IdleScan
  <2>2. \A s \in Scans : s # NoChoice
    BY ScanAssumption DEF Scans
  <2> QED BY <2>1, <2>2 DEF SetupInit, ScanInit, ScanInv
<1>2. ScanInv /\ [SetupNext]_setupVars => ScanInv'
  <2>1. ScanInv /\ UNCHANGED scanVars => ScanInv'
    BY DEF ScanInv, scanVars
  <2> QED BY <2>1, SetupScans, ScanStartStep, ScanSteps DEF ScanMoves
<1> QED BY <1>1, <1>2, PTL DEF SetupSpec

\* A scan whose token is cancelled starts no further probe, and only the scan whose token the
\* panel holds answers, for any number of scans, regions and workers.
THEOREM CancelledStops == SetupSpec => CancelledScanStops
<1>1. ScanInv /\ [SetupNext]_setupVars =>
        [\A s \in Scans :
          /\ scans[s].cancelled => scans'[s].next <= scans[s].next
          /\ scanPosts' # <<>> => scanPosts'[1].run = scanToken]_scanVars
  BY SetupScans, ScanStartStep, ScanSteps DEF ScanMoves
<1> QED BY <1>1, ScanInvariance, PTL DEF SetupSpec, CancelledScanStops

-----------------------------------------------------------------------------
(* The stages of a run                                                     *)

PCs == {"idle", "working", "creating", "polling", "watching", "settling", "prompting",
        "waiting", "denied"}
StageStates == {"none", "running", "succeeded", "warning", "unchecked", "failed"}
Results == [succeeded : BOOLEAN, portal : BOOLEAN, loginServer : BOOLEAN]

(* Where the two kinds of run have their registry and their cluster.        *)
RegistryAt(w) == IF Attaching(w) THEN 2 ELSE 3
ClusterAt(w) == IF Attaching(w) THEN 1 ELSE 4

(* What a run that has got to its stage i has behind it.                    *)
Past(r, i) ==
    /\ i > RegistryAt(wants[r]) => registry /\ result[r].loginServer
    /\ i > ClusterAt(wants[r]) =>
          /\ cluster # "absent" /\ result[r].portal
          /\ ~Attaching(wants[r]) => cluster = "Succeeded"
    /\ ~Attaching(wants[r]) /\ i > 2 => allowed[r]
    /\ Attaching(wants[r]) /\ i = 5 => pull

(* Whichever attempt of the run got there: a retry goes back in the list,   *)
(* and may go on from any stage that was reported.                          *)
ReachedInOrder ==
    \A r \in Runs : \A i \in 1 .. Len(StagesOf(wants[r])) :
        at[r] = i \/ status[r][StagesOf(wants[r])[i]] # "none" => Past(r, i)

Suspended ==
    \A r \in Runs :
        /\ pc[r] # "idle" => wants[r] # None
        /\ pc[r] \in {"creating", "polling", "watching", "settling"} =>
              ~Attaching(wants[r]) /\ Stage(r) = "cluster" /\ named[r] # None
        /\ pc[r] \in {"prompting", "waiting", "denied"} => Stage(r) = "roleAccess"
        /\ pc[r] = "settling" => cluster = "Succeeded"

Unused ==
    \A r \in Runs : wants[r] = None =>
        at[r] = 1 /\ status[r] = NoStatus /\ ~result[r].succeeded

(* One deployment at a time creates the cluster, and one that exists stays. *)
ClusterState ==
    /\ \A n \in Names : deployments[n] = "applied" => cluster = "Creating"
    /\ \A n, m \in Names : deployments[n] = "applied" /\ deployments[m] = "applied" => n = m
    /\ \A n \in Names : deployments[n] = "succeeded" => cluster = "Succeeded"
    /\ \A r \in Runs : Attaching(wants[r]) => cluster # "absent"
    /\ listed => pull

IInv ==
    /\ TypeOK
    /\ ReachedInOrder
    /\ Suspended
    /\ Unused
    /\ ClusterState
    /\ ReadyMeansReady
    /\ ConnectedMeansAssigned
    /\ AccessBeforeCluster
-----------------------------------------------------------------------------
(* The lists of stages                                                      *)

LEMMA StageFacts ==
    ASSUME NEW w
    PROVE  /\ Len(StagesOf(w)) = IF Attaching(w) THEN 5 ELSE 6
           /\ \A i \in 1 .. Len(StagesOf(w)) :
                /\ StagesOf(w)[i] \in StageNames
                /\ StagesOf(w)[i] = "acr" <=> i = RegistryAt(w)
                /\ StagesOf(w)[i] = "cluster" <=> i = ClusterAt(w)
                /\ StagesOf(w)[i] = "roleAccess" <=> i = IF Attaching(w) THEN 3 ELSE 2
                /\ StagesOf(w)[i] = "attach" <=> i = Len(StagesOf(w)) - 1
                /\ StagesOf(w)[i] = "verify" <=> i = Len(StagesOf(w))
<1>1. CASE Attaching(w)
  <2>1. StagesOf(w) = <<"cluster", "acr", "roleAccess", "attach", "verify">>
      BY <1>1 DEF StagesOf
  <2>2. QED
      BY <1>1, <2>1 DEF StageNames, RegistryAt, ClusterAt
<1>2. CASE ~Attaching(w)
  <2>1. StagesOf(w) = <<"resourceGroup", "roleAccess", "acr", "cluster", "attach", "verify">>
      BY <1>2 DEF StagesOf
  <2>2. QED
      BY <1>2, <2>1 DEF StageNames, RegistryAt, ClusterAt
<1>3. QED
    BY <1>1, <1>2

LEMMA NamesAreNumbers == None \notin Names /\ \A w \in Selections : w # None
PROOF BY FreshNone DEF Names

(* A stage stands at one place of its list.                                 *)
LEMMA StagesDiffer ==
    ASSUME NEW w, NEW i \in 1 .. Len(StagesOf(w)), NEW j \in 1 .. Len(StagesOf(w)),
           StagesOf(w)[i] = StagesOf(w)[j]
    PROVE  i = j
<1>1. CASE Attaching(w)
  <2>1. StagesOf(w) = <<"cluster", "acr", "roleAccess", "attach", "verify">>
      BY <1>1 DEF StagesOf
  <2>2. QED
      BY <2>1
<1>2. CASE ~Attaching(w)
  <2>1. StagesOf(w) = <<"resourceGroup", "roleAccess", "acr", "cluster", "attach", "verify">>
      BY <1>2 DEF StagesOf
  <2>2. QED
      BY <2>1
<1>3. QED
    BY <1>1, <1>2

-----------------------------------------------------------------------------
(* What a step of a run does to its place in the list                       *)

Current(r) == StagesOf(wants[r])[at[r]]

(* The run stays at its stage or takes the next one, reports these two and  *)
(* no other, keeps what it recorded, and succeeds at the last one only.     *)
Moves(r) ==
    /\ pc[r] # "idle"
    /\ pc' \in [Runs -> PCs]
    /\ \/ at' = at
       \/ at[r] < Len(StagesOf(wants[r])) /\ at' = [at EXCEPT ![r] = @ + 1]
    /\ status' \in [Runs -> [StageNames -> StageStates]]
    /\ \A q \in Runs \ {r} : status'[q] = status[q] /\ result'[q] = result[q]
    /\ \A s \in StageNames : status'[r][s] # "none" =>
          status[r][s] # "none" \/ s = Current(r) \/ s = StagesOf(wants[r])[at'[r]]
    /\ result' \in [Runs -> Results]
    /\ result[r].portal => result'[r].portal
    /\ result[r].loginServer => result'[r].loginServer
    /\ result'[r].succeeded => result[r].succeeded \/ at[r] = Len(StagesOf(wants[r]))

(* What a step of a run leaves in Azure, and what it never takes away.      *)
Keeps ==
    /\ UNCHANGED <<cluster, listed, mayAssign, active, wants, cancelled>>
    /\ group' \in BOOLEAN
    /\ registry' \in BOOLEAN /\ (registry => registry')
    /\ pull' \in BOOLEAN /\ (pull => pull')
    /\ allowed' \in [Runs -> BOOLEAN] /\ \A q \in Runs : allowed[q] => allowed'[q]
    /\ early' \in [Runs -> {"none", "reading", "granting", "done"}]

(* What a run has behind it stays there.                                    *)
LEMMA PastStays ==
    ASSUME IInv, NEW r \in Runs, Keeps, NEW q \in Runs, Moves(r), NEW i, Past(q, i)
    PROVE  Past(q, i)'
PROOF BY DEF Keeps, Moves, Past

(* A run that may take its next stage keeps the order.                      *)
LEMMA OrderKept ==
    ASSUME IInv, NEW r \in Runs, Keeps, Moves(r), Past(r, at[r])'
    PROVE  ReachedInOrder'
<1> USE DEF IInv
<1>1. SUFFICES ASSUME NEW q \in Runs, NEW i \in 1 .. Len(StagesOf(wants[q])),
                      at'[q] = i \/ status'[q][StagesOf(wants[q])[i]] # "none"
               PROVE  Past(q, i)'
    BY DEF ReachedInOrder, Keeps
<1>2. StagesOf(wants[q])[i] \in StageNames
    BY StageFacts
<1>3. CASE q # r
  <2>1. at'[q] = at[q] /\ status'[q] = status[q]
      BY <1>3 DEF Moves, TypeOK
  <2>2. Past(q, i)
      BY <1>1, <2>1 DEF ReachedInOrder
  <2>3. QED
      BY <2>2, PastStays
<1>4. CASE q = r
  <2>1. wants[r] # None /\ at[r] \in 1 .. Len(StagesOf(wants[r]))
      BY DEF Moves, Suspended, TypeOK
  <2>2. at'[r] \in 1 .. Len(StagesOf(wants[r]))
      BY <2>1 DEF Moves, TypeOK
  <2>3. CASE i = at'[r]
      BY <1>4, <2>3 DEF Past
  <2>4. CASE i # at'[r]
    <3>1. StagesOf(wants[r])[i] # StagesOf(wants[r])[at'[r]]
        BY <1>4, <2>2, <2>4, StagesDiffer
    <3>2. status[r][StagesOf(wants[r])[i]] # "none" \/ StagesOf(wants[r])[i] = Current(r)
        BY <1>1, <1>2, <1>4, <2>4, <3>1 DEF Moves
    <3>3. StagesOf(wants[r])[i] = Current(r) => i = at[r]
        BY <1>4, <2>1, StagesDiffer DEF Current
    <3>4. Past(r, i)
        BY <1>4, <3>2, <3>3 DEF ReachedInOrder
    <3>5. QED
        BY <1>4, <3>4, PastStays
  <2>5. QED
      BY <2>3, <2>4
<1>5. QED
    BY <1>3, <1>4
(* ... and what its success claims.                                         *)
LEMMA SuccessKept ==
    ASSUME IInv, NEW r \in Runs, Keeps, Moves(r)
    PROVE  ReadyMeansReady' /\ ConnectedMeansAssigned'
<1> USE DEF IInv
<1>1. wants[r] # None /\ at[r] \in 1 .. Len(StagesOf(wants[r]))
    BY DEF Moves, Suspended, TypeOK
<1>2. Past(r, at[r])
    BY <1>1 DEF ReachedInOrder
<1>3. result'[r].succeeded /\ ~result[r].succeeded =>
        /\ registry /\ result[r].loginServer /\ cluster # "absent" /\ result[r].portal
        /\ ~Attaching(wants[r]) => cluster = "Succeeded"
        /\ Attaching(wants[r]) => pull
  <2>1. SUFFICES ASSUME at[r] = Len(StagesOf(wants[r]))
                 PROVE  /\ registry /\ result[r].loginServer
                        /\ cluster # "absent" /\ result[r].portal
                        /\ ~Attaching(wants[r]) => cluster = "Succeeded"
                        /\ Attaching(wants[r]) => pull
      BY DEF Moves
  <2>2. at[r] = IF Attaching(wants[r]) THEN 5 ELSE 6
      BY <2>1, StageFacts
  <2>3. QED
      BY <1>2, <2>2 DEF Past, RegistryAt, ClusterAt
<1>4. ReadyMeansReady'
    BY <1>3 DEF ReadyMeansReady, Moves, Keeps
<1>5. ConnectedMeansAssigned'
    BY <1>3 DEF ConnectedMeansAssigned, Moves, Keeps
<1>6. QED
    BY <1>4, <1>5

(* With the deployments as they were or one of them accepted under the      *)
(* run's name, and the run's name drawn if need be, a step of a run keeps   *)
(* everything.                                                              *)
Deploys(r) ==
    /\ \/ named' = named
       \/ \E n \in Names : named[r] = None /\ named' = [named EXCEPT ![r] = n]
    /\ \/ deployments' = deployments
       \/ \E n \in Names :
             /\ named[r] = n /\ pc[r] = "creating"
             /\ deployments' = [deployments EXCEPT ![n] = "accepted"]

LEMMA RunStepKeeps ==
    ASSUME IInv, NEW r \in Runs, Keeps, Moves(r), Deploys(r), Past(r, at[r])', Suspended'
    PROVE  IInv'
<1> USE DEF IInv
<1>1. wants[r] # None /\ at[r] \in 1 .. Len(StagesOf(wants[r]))
    BY DEF Moves, Suspended, TypeOK
<1>2. Len(StagesOf(wants[r])) \in {5, 6}
    BY StageFacts
<1>3. /\ at' \in [Runs -> 1 .. 6]
      /\ \A q \in Runs : wants[q] # None => at'[q] \in 1 .. Len(StagesOf(wants[q]))
      /\ \A q \in Runs \ {r} : at'[q] = at[q]
  <2>1. /\ at \in [Runs -> 1 .. 6]
        /\ \A q \in Runs : wants[q] # None => at[q] \in 1 .. Len(StagesOf(wants[q]))
      BY DEF TypeOK
  <2>2. CASE at' = at
      BY <2>1, <2>2
  <2>3. CASE at[r] < Len(StagesOf(wants[r])) /\ at' = [at EXCEPT ![r] = @ + 1]
    <3>1. at[r] + 1 \in 1 .. 6 /\ at[r] + 1 \in 1 .. Len(StagesOf(wants[r]))
      <4>1. PICK len \in {5, 6} : len = Len(StagesOf(wants[r]))
          BY <1>2
      <4>2. at[r] \in 1 .. len /\ at[r] < len
          BY <1>1, <2>3, <4>1
      <4>3. at[r] + 1 \in 1 .. 6 /\ at[r] + 1 \in 1 .. len
          BY <4>2
      <4>4. QED
          BY <4>1, <4>3
    <3>2. QED
        BY <2>1, <2>3, <3>1
  <2>4. QED
      BY <2>2, <2>3 DEF Moves
<1>4. TypeOK'
  <2>1. /\ named' \in [Runs -> Names \cup {None}]
        /\ deployments' \in [Names -> {"none", "accepted", "applied", "succeeded", "failed"}]
    <3>1. /\ named \in [Runs -> Names \cup {None}]
          /\ deployments \in [Names -> {"none", "accepted", "applied", "succeeded", "failed"}]
        BY DEF TypeOK
    <3>2. QED
        BY <3>1 DEF Deploys
  <2>2. QED
      BY <1>3, <2>1 DEF TypeOK, Keeps, Moves, PCs, StageStates, Results
<1>5. Unused'
  <2>1. SUFFICES ASSUME NEW q \in Runs, wants[q] = None
                 PROVE  at'[q] = 1 /\ status'[q] = NoStatus /\ ~result'[q].succeeded
      BY DEF Unused, Keeps
  <2>2. q # r
      BY <1>1, <2>1
  <2>3. QED
      BY <1>3, <2>1, <2>2 DEF Unused, Moves
<1>6. ClusterState'
    BY DEF ClusterState, Keeps, Deploys, TypeOK
<1>7. \A q \in Runs, n \in Names : named[q] = n => named'[q] = n
    BY NamesAreNumbers DEF Deploys, TypeOK
<1>8. AccessBeforeCluster'
  <2>1. ASSUME NEW n \in Names, named[r] = n, pc[r] = "creating"
        PROVE  allowed[r]
    <3>1. ~Attaching(wants[r]) /\ StagesOf(wants[r])[at[r]] = "cluster"
        BY <2>1 DEF Suspended, Stage
    <3>2. at[r] = 4 /\ Past(r, at[r])
        BY <1>1, <3>1, StageFacts DEF ReachedInOrder, ClusterAt
    <3>3. QED
        BY <3>1, <3>2 DEF Past
  <2>2. QED
      BY <1>7, <2>1 DEF AccessBeforeCluster, Deploys, Keeps, TypeOK
<1>9. ReachedInOrder' /\ ReadyMeansReady' /\ ConnectedMeansAssigned'
    BY OrderKept, SuccessKept
<1>10. QED
    BY <1>4, <1>5, <1>6, <1>8, <1>9
-----------------------------------------------------------------------------
(* The four ways a step of a stage ends                                     *)

Leaves(r) == \E p \in {"idle", "working"} : pc' = [pc EXCEPT ![r] = p]

LEMMA RunTypes ==
    ASSUME IInv, NEW r \in Runs, pc[r] # "idle"
    PROVE  /\ pc \in [Runs -> PCs] /\ at \in [Runs -> 1 .. 6]
           /\ status \in [Runs -> [StageNames -> StageStates]]
           /\ result \in [Runs -> Results]
           /\ at[r] \in 1 .. Len(StagesOf(wants[r]))
           /\ Current(r) \in StageNames
           /\ at[r] < Len(StagesOf(wants[r])) =>
                 at[r] + 1 \in 1 .. 6 /\ StagesOf(wants[r])[at[r] + 1] \in StageNames
<1>1. /\ pc \in [Runs -> PCs] /\ at \in [Runs -> 1 .. 6]
      /\ status \in [Runs -> [StageNames -> StageStates]]
      /\ result \in [Runs -> Results]
    BY DEF IInv, TypeOK, PCs, StageStates, Results
<1>2. at[r] \in 1 .. Len(StagesOf(wants[r]))
    BY DEF IInv, TypeOK, Suspended
<1>3. Current(r) \in StageNames
    BY <1>2, StageFacts DEF Current
<1>4. ASSUME at[r] < Len(StagesOf(wants[r]))
      PROVE  at[r] + 1 \in 1 .. 6 /\ StagesOf(wants[r])[at[r] + 1] \in StageNames
  <2>1. PICK len \in {5, 6} : len = Len(StagesOf(wants[r]))
      BY StageFacts
  <2>2. at[r] \in 1 .. len /\ at[r] < len
      BY <1>2, <1>4, <2>1
  <2>3. at[r] + 1 \in 1 .. 6 /\ at[r] + 1 \in 1 .. len
      BY <2>2
  <2>4. QED
      BY <2>1, <2>3, StageFacts
<1>5. QED
    BY <1>1, <1>2, <1>3, <1>4

LEMMA NextMoves ==
    ASSUME IInv, NEW r \in Runs, pc[r] # "idle", NEW x \in StageStates, NextStage(r, x)
    PROVE  /\ Moves(r) /\ Leaves(r)
           /\ at' = at \/ at' = [at EXCEPT ![r] = @ + 1]
<1> DEFINE last == at[r] = Len(StagesOf(wants[r]))
           next == StagesOf(wants[r])[at[r] + 1]
<1>1. CASE last
  <2>1. /\ status' = [status EXCEPT ![r][Current(r)] = x]
        /\ result' = [result EXCEPT ![r].succeeded = TRUE]
        /\ pc' = [pc EXCEPT ![r] = "idle"]
        /\ at' = at
      BY <1>1 DEF NextStage, Stage, Current
  <2>2. /\ status' \in [Runs -> [StageNames -> StageStates]]
        /\ \A q \in Runs \ {r} : status'[q] = status[q]
        /\ \A s \in StageNames \ {Current(r)} : status'[r][s] = status[r][s]
      BY <2>1, RunTypes
  <2>3. /\ result' \in [Runs -> Results]
        /\ \A q \in Runs \ {r} : result'[q] = result[q]
        /\ result'[r].portal = result[r].portal
        /\ result'[r].loginServer = result[r].loginServer
      BY <2>1, RunTypes DEF Results
  <2>4. pc' \in [Runs -> PCs]
      BY <2>1, RunTypes DEF PCs
  <2>5. QED
      BY <1>1, <2>1, <2>2, <2>3, <2>4 DEF Moves, Leaves
<1>2. CASE ~last
  <2>1. /\ status' = [status EXCEPT ![r][Current(r)] = x, ![r][next] = "running"]
        /\ at' = [at EXCEPT ![r] = @ + 1]
        /\ pc' = [pc EXCEPT ![r] = "working"]
        /\ result' = result
      BY <1>2 DEF NextStage, Stage, Current
  <2>2. at[r] < Len(StagesOf(wants[r])) /\ next \in StageNames /\ at'[r] = at[r] + 1
    <3>1. PICK len \in {5, 6} : len = Len(StagesOf(wants[r]))
        BY StageFacts
    <3>2. at[r] \in 1 .. len /\ at[r] # len
        BY <1>2, <3>1, RunTypes
    <3>3. at[r] < len
        BY <3>2
    <3>4. QED
        BY <2>1, <3>1, <3>3, RunTypes
  <2>3. /\ status' \in [Runs -> [StageNames -> StageStates]]
        /\ \A q \in Runs \ {r} : status'[q] = status[q]
        /\ \A s \in StageNames \ {Current(r), next} : status'[r][s] = status[r][s]
      BY <2>1, <2>2, RunTypes DEF StageStates
  <2>4. pc' \in [Runs -> PCs] /\ result' \in [Runs -> Results]
      BY <2>1, RunTypes DEF PCs
  <2>5. QED
      BY <2>1, <2>2, <2>3, <2>4 DEF Moves, Leaves
<1>3. QED
    BY <1>1, <1>2

LEMMA RecordMoves ==
    ASSUME IInv, NEW r \in Runs, pc[r] # "idle", at[r] < Len(StagesOf(wants[r])),
           NEW field \in {"portal", "loginServer"}, NextStageRecording(r, field)
    PROVE  /\ Moves(r) /\ Leaves(r)
           /\ at' = [at EXCEPT ![r] = @ + 1]
           /\ result'[r][field]
<1> DEFINE next == StagesOf(wants[r])[at[r] + 1]
<1>1. /\ status' = [status EXCEPT ![r][Current(r)] = "succeeded", ![r][next] = "running"]
      /\ result' = [result EXCEPT ![r][field] = TRUE]
      /\ at' = [at EXCEPT ![r] = @ + 1]
      /\ pc' = [pc EXCEPT ![r] = "working"]
    BY DEF NextStageRecording, Stage, Current
<1>2. next \in StageNames /\ at'[r] = at[r] + 1
    BY <1>1, RunTypes
<1>3. /\ status' \in [Runs -> [StageNames -> StageStates]]
      /\ \A q \in Runs \ {r} : status'[q] = status[q]
      /\ \A s \in StageNames \ {Current(r), next} : status'[r][s] = status[r][s]
    BY <1>1, <1>2, RunTypes DEF StageStates
<1>4. /\ result' \in [Runs -> Results]
      /\ \A q \in Runs \ {r} : result'[q] = result[q]
      /\ result[r].portal => result'[r].portal
      /\ result[r].loginServer => result'[r].loginServer
      /\ result'[r].succeeded = result[r].succeeded
      /\ result'[r][field]
    BY <1>1, RunTypes DEF Results
<1>5. pc' \in [Runs -> PCs]
    BY <1>1, RunTypes DEF PCs
<1>6. QED
    BY <1>1, <1>2, <1>3, <1>4, <1>5 DEF Moves, Leaves

LEMMA HaltMoves ==
    ASSUME IInv, NEW r \in Runs, pc[r] # "idle", HaltRun(r)
    PROVE  Moves(r) /\ Leaves(r) /\ at' = at
<1>1. /\ status' = [status EXCEPT ![r][Current(r)] = "failed"]
      /\ pc' = [pc EXCEPT ![r] = "idle"]
      /\ UNCHANGED <<at, result>>
    BY DEF HaltRun, Stage, Current
<1>2. /\ status' \in [Runs -> [StageNames -> StageStates]]
      /\ \A q \in Runs \ {r} : status'[q] = status[q]
      /\ \A s \in StageNames \ {Current(r)} : status'[r][s] = status[r][s]
    BY <1>1, RunTypes DEF StageStates
<1>3. QED
    BY <1>1, <1>2, RunTypes DEF Moves, Leaves, PCs

LEMMA ContinueMoves ==
    ASSUME IInv, NEW r \in Runs, pc[r] # "idle", pc' \in [Runs -> PCs],
           UNCHANGED <<at, result, status>>
    PROVE  Moves(r)
PROOF BY RunTypes DEF Moves
-----------------------------------------------------------------------------
(* A run that leaves a stage has it behind it                               *)

Concludes(r) ==
    \/ at' = at
    \/ /\ at' = [at EXCEPT ![r] = @ + 1]
       /\ Current(r) = "acr" => registry' /\ result'[r].loginServer
       /\ Current(r) = "cluster" =>
             /\ cluster # "absent" /\ result'[r].portal
             /\ ~Attaching(wants[r]) => cluster = "Succeeded"
       /\ Current(r) = "roleAccess" /\ ~Attaching(wants[r]) => allowed'[r]
       /\ Current(r) = "attach" /\ Attaching(wants[r]) => pull'

LEMMA PastConcluded ==
    ASSUME IInv, NEW r \in Runs, Keeps, Moves(r), Concludes(r)
    PROVE  Past(r, at[r])'
<1>1. pc[r] # "idle"
    BY DEF Moves
<1>2. Past(r, at[r])
    BY <1>1, RunTypes DEF IInv, ReachedInOrder
<1>3. CASE at' = at
    BY <1>2, <1>3 DEF Keeps, Moves, Past
<1>4. CASE at' # at
  <2>1. PICK i \in Nat : i = at[r]
      BY <1>1, RunTypes
  <2>2. at'[r] = i + 1
      BY <1>1, <1>4, <2>1, RunTypes DEF Concludes
  <2>3. /\ Current(r) = "acr" <=> i = RegistryAt(wants[r])
        /\ Current(r) = "cluster" <=> i = ClusterAt(wants[r])
        /\ Current(r) = "roleAccess" <=> i = IF Attaching(wants[r]) THEN 3 ELSE 2
        /\ Current(r) = "attach" <=> i = Len(StagesOf(wants[r])) - 1
      BY <1>1, <2>1, RunTypes, StageFacts DEF Current
  <2>4. Attaching(wants[r]) /\ i = 4 => Current(r) = "attach"
      BY <2>3, StageFacts
  <2>5. Past(r, i + 1)'
    <3>1. i + 1 > RegistryAt(wants[r]) => registry' /\ result'[r].loginServer
        BY <1>2, <1>4, <2>1, <2>3 DEF Past, Keeps, Moves, Concludes, RegistryAt
    <3>2. i + 1 > ClusterAt(wants[r]) =>
             /\ cluster # "absent" /\ result'[r].portal
             /\ ~Attaching(wants[r]) => cluster = "Succeeded"
        BY <1>2, <1>4, <2>1, <2>3 DEF Past, Keeps, Moves, Concludes, ClusterAt
    <3>3. ~Attaching(wants[r]) /\ i + 1 > 2 => allowed'[r]
        BY <1>2, <1>4, <2>1, <2>3 DEF Past, Keeps, Moves, Concludes
    <3>4. Attaching(wants[r]) /\ i + 1 = 5 => pull'
        BY <1>4, <2>1, <2>4 DEF Concludes
    <3>5. QED
        BY <3>1, <3>2, <3>3, <3>4 DEF Past, Keeps
  <2>6. QED
      BY <2>2, <2>5 DEF Past
<1>5. QED
    BY <1>3, <1>4

(* A step that leaves what its run was doing.                               *)
LEMMA LeavesKeeps ==
    ASSUME IInv, NEW r \in Runs, Keeps, Moves(r), Leaves(r), Deploys(r), Concludes(r)
    PROVE  IInv'
<1>1. pc[r] # "idle" /\ wants[r] # None
    BY DEF Moves, IInv, Suspended
<1>2. Suspended'
  <2>1. SUFFICES ASSUME NEW q \in Runs
                 PROVE  /\ pc'[q] # "idle" => wants[q] # None
                        /\ pc'[q] \in {"creating", "polling", "watching", "settling"} =>
                              ~Attaching(wants[q]) /\ Stage(q)' = "cluster" /\ named'[q] # None
                        /\ pc'[q] \in {"prompting", "waiting", "denied"} => Stage(q)' = "roleAccess"
                        /\ pc'[q] = "settling" => cluster = "Succeeded"
      BY DEF Suspended, Keeps
  <2>2. CASE q = r
      BY <1>1, <2>2, RunTypes DEF Leaves
  <2>3. CASE q # r
    <3>1. pc'[q] = pc[q] /\ at'[q] = at[q]
        BY <1>1, <2>3, RunTypes DEF Leaves, Concludes
    <3>2. named'[q] = named[q]
        BY <2>3 DEF Deploys, IInv, TypeOK
    <3>3. QED
        BY <3>1, <3>2 DEF IInv, Suspended, Stage, Keeps
  <2>4. QED
      BY <2>2, <2>3
<1>3. QED
    BY <1>2, PastConcluded, RunStepKeeps

(* A step that suspends its run, at the same stage.                         *)
LEMMA ParksKeeps ==
    ASSUME IInv, NEW r \in Runs, Keeps, pc[r] # "idle", pc' \in [Runs -> PCs],
           UNCHANGED <<at, result, status>>, Deploys(r), Suspended'
    PROVE  IInv'
<1>1. Moves(r)
    BY ContinueMoves
<1>2. Past(r, at[r])'
    BY <1>1, PastConcluded DEF Concludes
<1>3. QED
    BY <1>1, <1>2, RunStepKeeps
-----------------------------------------------------------------------------
(* The steps of a run                                                       *)

LEMMA FrameKeeps ==
    ASSUME IInv, NEW r \in Runs, RunFrame,
           UNCHANGED <<cluster, listed, cancelled>>,
           early' \in [Runs -> {"none", "reading", "granting", "done"}],
           group' \in BOOLEAN,
           registry' \in BOOLEAN, registry => registry',
           pull' \in BOOLEAN, pull => pull',
           allowed' = allowed \/ allowed' = [allowed EXCEPT ![r] = TRUE]
    PROVE  Keeps
<1>1. allowed \in [Runs -> BOOLEAN]
    BY DEF IInv, TypeOK
<1>2. allowed' \in [Runs -> BOOLEAN] /\ \A q \in Runs : allowed[q] => allowed'[q]
    BY <1>1
<1>3. QED
    BY <1>2 DEF Keeps, RunFrame

LEMMA WorkingAt ==
    ASSUME IInv, NEW r \in Runs, NEW s, Working(r, s)
    PROVE  pc[r] # "idle" /\ Current(r) = s
PROOF BY DEF Working, Stage, Current

LEMMA LastIsVerify ==
    ASSUME IInv, NEW r \in Runs, pc[r] # "idle", Current(r) # "verify"
    PROVE  at[r] < Len(StagesOf(wants[r]))
<1>1. PICK len \in {5, 6} : len = Len(StagesOf(wants[r]))
    BY StageFacts
<1>2. at[r] \in 1 .. len /\ at[r] # len
    BY <1>1, RunTypes, StageFacts DEF Current
<1>3. at[r] < len
    BY <1>2
<1>4. QED
    BY <1>1, <1>3

LEMMA ResourceGroupStep == ASSUME IInv, NEW r \in Runs, ResourceGroupStage(r) PROVE IInv'
<1>1. pc[r] # "idle" /\ Current(r) = "resourceGroup"
    BY WorkingAt DEF ResourceGroupStage
<1>2. Keeps /\ Deploys(r)
    BY FrameKeeps DEF ResourceGroupStage, Deploys, IInv, TypeOK
<1>3. CASE NextStage(r, "succeeded")
    BY <1>1, <1>2, <1>3, NextMoves, LeavesKeeps DEF Concludes, StageStates
<1>4. CASE HaltRun(r)
    BY <1>1, <1>2, <1>4, HaltMoves, LeavesKeeps DEF Concludes
<1>5. QED
    BY <1>3, <1>4 DEF ResourceGroupStage

LEMMA RegistryStep == ASSUME IInv, NEW r \in Runs, RegistryStage(r) PROVE IInv'
<1>1. pc[r] # "idle" /\ Current(r) = "acr"
    BY WorkingAt DEF RegistryStage
<1>2. Keeps /\ Deploys(r)
  <2>1. registry' = registry \/ registry' = TRUE
      BY Zenon DEF RegistryStage
  <2>2. registry' \in BOOLEAN /\ (registry => registry')
      BY <2>1 DEF IInv, TypeOK
  <2>3. QED
      BY <2>2, FrameKeeps DEF RegistryStage, Deploys, IInv, TypeOK
<1>3. CASE registry' /\ NextStageRecording(r, "loginServer")
  <2>1. /\ Moves(r) /\ Leaves(r) /\ result'[r].loginServer
        /\ at' = [at EXCEPT ![r] = @ + 1]
      BY <1>1, <1>3, RecordMoves, LastIsVerify
  <2>2. QED
      BY <1>1, <1>2, <1>3, <2>1, LeavesKeeps DEF Concludes
<1>4. CASE HaltRun(r)
    BY <1>1, <1>2, <1>4, HaltMoves, LeavesKeeps DEF Concludes
<1>5. QED
    BY <1>3, <1>4 DEF RegistryStage

LEMMA AccessFoundStep ==
    ASSUME IInv, NEW r \in Runs, AccessFound(r) \/ AccessGranted(r) \/ AccessDenied(r)
    PROVE  IInv'
<1>1. pc[r] # "idle" /\ Current(r) = "roleAccess"
    BY DEF AccessFound, AccessGranted, AccessDenied, Working, Stage, Current, IInv, Suspended
<1>2. /\ RoleFrame
      /\ allowed' = allowed \/ allowed' = [allowed EXCEPT ![r] = TRUE]
    BY DEF AccessFound, AccessGranted, AccessDenied
<1>3. Keeps /\ Deploys(r)
    BY <1>2, FrameKeeps DEF RoleFrame, Deploys, IInv, TypeOK
<1>4. CASE AccessFound(r) \/ AccessGranted(r)
  <2>1. ~Attaching(wants[r]) => allowed'[r]
      BY <1>4 DEF AccessFound, AccessGranted, NoGrantNeeded, Attaching, IInv, TypeOK
  <2>2. NextStage(r, "succeeded")
      BY <1>4 DEF AccessFound, AccessGranted
  <2>3. QED
      BY <1>1, <1>3, <2>1, <2>2, NextMoves, LeavesKeeps DEF Concludes, StageStates
<1>5. CASE AccessDenied(r)
    BY <1>1, <1>3, <1>5, HaltMoves, LeavesKeeps DEF Concludes, AccessDenied
<1>6. QED
    BY <1>4, <1>5

(* The run parks, and whoever was parked there before is denied.            *)
LEMMA PromptStep ==
    ASSUME IInv, NEW r \in Runs, AccessMissing(r) \/ PromptReady(r)
    PROVE  IInv'
<1>1. pc[r] # "idle" /\ Current(r) = "roleAccess" /\ wants[r] # None
    BY DEF AccessMissing, PromptReady, Working, Stage, Current, IInv, Suspended
<1>2. /\ RoleFrame /\ UNCHANGED <<allowed, at, result, status>>
      /\ \/ pc' = [pc EXCEPT ![r] = "prompting"]
         \/ pc' = [q \in Runs |-> IF q = r THEN "waiting"
                                   ELSE IF pc[q] = "waiting" THEN "denied" ELSE pc[q]]
    BY DEF AccessMissing, PromptReady, Continue
<1>3. Keeps /\ Deploys(r)
    BY <1>2, FrameKeeps DEF RoleFrame, Deploys, IInv, TypeOK
<1>4. pc' \in [Runs -> PCs]
    BY <1>1, <1>2, RunTypes DEF PCs
<1>5. /\ pc'[r] \in {"prompting", "waiting"}
      /\ \A q \in Runs \ {r} : pc'[q] = pc[q] \/ (pc[q] = "waiting" /\ pc'[q] = "denied")
    BY <1>1, <1>2, RunTypes
<1>6. Suspended'
    BY <1>1, <1>2, <1>5 DEF RoleFrame, RunFrame, IInv, Suspended, Stage, Current
<1>7. QED
    BY <1>1, <1>2, <1>3, <1>4, <1>6, ParksKeeps
(* Between two steps of the cluster stage of a run that deploys.            *)
LEMMA ClusterParks ==
    ASSUME IInv, NEW r \in Runs, pc[r] # "idle", Current(r) = "cluster", ~Attaching(wants[r]),
           Keeps, Deploys(r), UNCHANGED <<at, result, status>>,
           NEW p \in {"creating", "polling", "watching", "settling"},
           pc' = [pc EXCEPT ![r] = p],
           named'[r] # None, p = "settling" => cluster = "Succeeded"
    PROVE  IInv'
<1>1. pc' \in [Runs -> PCs] /\ pc'[r] = p /\ \A q \in Runs \ {r} : pc'[q] = pc[q]
    BY RunTypes DEF PCs
<1>2. wants[r] # None
    BY DEF IInv, Suspended
<1>3. \A q \in Runs \ {r} : named'[q] = named[q]
    BY DEF Deploys, IInv, TypeOK
<1>4. Suspended'
    BY <1>1, <1>2, <1>3 DEF IInv, Suspended, Stage, Current, Keeps
<1>5. QED
    BY <1>1, <1>4, ParksKeeps

LEMMA ResolveStep == ASSUME IInv, NEW r \in Runs, ResolveCluster(r) PROVE IInv'
<1>1. pc[r] # "idle" /\ Current(r) = "cluster"
    BY WorkingAt DEF ResolveCluster
<1>2. Keeps /\ Deploys(r)
    BY FrameKeeps DEF ResolveCluster, Deploys, IInv, TypeOK
<1>3. CASE NextStageRecording(r, "portal")
  <2>1. Moves(r) /\ Leaves(r) /\ result'[r].portal /\ at' = [at EXCEPT ![r] = @ + 1]
      BY <1>1, <1>3, RecordMoves, LastIsVerify
  <2>2. cluster # "absent" /\ Attaching(wants[r])
      BY DEF ResolveCluster, IInv, ClusterState
  <2>3. QED
      BY <1>1, <1>2, <2>1, <2>2, LeavesKeeps DEF Concludes
<1>4. CASE HaltRun(r)
    BY <1>1, <1>2, <1>4, HaltMoves, LeavesKeeps DEF Concludes
<1>5. QED
    BY <1>3, <1>4 DEF ResolveCluster

(* The cluster is there: the stage records it.                              *)
LEMMA ClusterRecorded ==
    ASSUME IInv, NEW r \in Runs, pc[r] # "idle", Current(r) = "cluster",
           Keeps, Deploys(r), cluster = "Succeeded", NextStageRecording(r, "portal")
    PROVE  IInv'
<1>1. Moves(r) /\ Leaves(r) /\ result'[r].portal /\ at' = [at EXCEPT ![r] = @ + 1]
    BY RecordMoves, LastIsVerify
<1>2. QED
    BY <1>1, LeavesKeeps DEF Concludes

LEMMA ReconcileStep == ASSUME IInv, NEW r \in Runs, ReconcileCluster(r) PROVE IInv'
<1>1. pc[r] # "idle" /\ Current(r) = "cluster" /\ ~Attaching(wants[r])
    BY WorkingAt DEF ReconcileCluster
<1>2. early' \in [Runs -> {"none", "reading", "granting", "done"}]
    BY DEF ReconcileCluster, IInv, TypeOK
<1>3. Keeps
    BY <1>2, FrameKeeps DEF ReconcileCluster, DeployFrame, IInv, TypeOK
<1>4. /\ deployments' = deployments
      /\ \/ named' = named
         \/ \E n \in Names : named[r] = None /\ named' = [named EXCEPT ![r] = n]
      /\ DeploymentName(r) => named'[r] # None
    BY NamesAreNumbers DEF ReconcileCluster, DeploymentName, IInv, TypeOK
<1>5. Deploys(r)
    BY <1>4 DEF Deploys
<1>6. CASE HaltRun(r)
    BY <1>1, <1>3, <1>5, <1>6, HaltMoves, LeavesKeeps DEF Concludes
<1>7. CASE cluster = "Succeeded" /\ NextStageRecording(r, "portal")
    BY <1>1, <1>3, <1>5, <1>7, ClusterRecorded
<1>8. CASE DeploymentName(r) /\ (Continue(r, "watching") \/ Continue(r, "creating"))
    BY <1>1, <1>3, <1>4, <1>5, <1>8, ClusterParks DEF Continue
<1>9. QED
    BY <1>6, <1>7, <1>8 DEF ReconcileCluster

(* The later steps of the stage, whose runs are suspended in it.            *)
LEMMA DeployingRun ==
    ASSUME IInv, NEW r \in Runs, pc[r] \in {"creating", "polling", "watching", "settling"}
    PROVE  /\ pc[r] # "idle" /\ Current(r) = "cluster" /\ ~Attaching(wants[r])
           /\ named[r] # None
PROOF BY DEF IInv, Suspended, Stage, Current

LEMMA BeginStep == ASSUME IInv, NEW r \in Runs, BeginDeployment(r) PROVE IInv'
<1>1. /\ pc[r] = "creating" /\ pc[r] # "idle" /\ Current(r) = "cluster"
      /\ ~Attaching(wants[r]) /\ named[r] # None /\ named' = named
    BY DeployingRun DEF BeginDeployment
<1>2. named[r] \in Names
    BY <1>1 DEF IInv, TypeOK
<1>3. Keeps
    BY FrameKeeps DEF BeginDeployment, DeployFrame, IInv, TypeOK
<1>4. \/ deployments' = deployments
      \/ deployments' = [deployments EXCEPT ![named[r]] = "accepted"]
  <2>1. deployments \in [Names -> {"none", "accepted", "applied", "succeeded", "failed"}]
      BY DEF IInv, TypeOK
  <2>2. CASE Active(named[r])
      BY <1>2, <2>1, <2>2 DEF BeginDeployment
  <2>3. CASE ~Active(named[r])
      BY <2>3 DEF BeginDeployment
  <2>4. QED
      BY <2>2, <2>3
<1>5. Deploys(r)
    BY <1>1, <1>2, <1>4 DEF Deploys
<1>6. CASE HaltRun(r)
    BY <1>1, <1>3, <1>5, <1>6, HaltMoves, LeavesKeeps DEF Concludes
<1>7. CASE Continue(r, "polling")
    BY <1>1, <1>3, <1>5, <1>7, ClusterParks DEF Continue
<1>8. QED
    BY <1>6, <1>7 DEF BeginDeployment

LEMMA WaitStep ==
    ASSUME IInv, NEW r \in Runs, PollDeployment(r) \/ ClusterReady(r) \/ WatchCluster(r)
    PROVE  IInv'
<1>1. /\ pc[r] \in {"polling", "settling", "watching"} /\ pc[r] # "idle"
      /\ Current(r) = "cluster" /\ ~Attaching(wants[r]) /\ named[r] # None
    BY DeployingRun DEF PollDeployment, ClusterReady, WatchCluster
<1>2. DeployFrame /\ UNCHANGED <<deployments, early, named>>
    BY DEF PollDeployment, ClusterReady, WatchCluster
<1>3. Keeps /\ Deploys(r)
    BY <1>2, FrameKeeps DEF DeployFrame, Deploys, IInv, TypeOK
<1>4. CASE HaltRun(r)
    BY <1>1, <1>3, <1>4, HaltMoves, LeavesKeeps DEF Concludes
<1>5. CASE PollDeployment(r) /\ ~HaltRun(r)
  <2>1. deployments[named[r]] = "succeeded" /\ Continue(r, "settling")
      BY <1>5 DEF PollDeployment
  <2>2. cluster = "Succeeded"
      BY <1>1, <2>1 DEF IInv, TypeOK, ClusterState
  <2>3. QED
      BY <1>1, <1>2, <1>3, <2>1, <2>2, ClusterParks DEF Continue
<1>6. CASE (ClusterReady(r) \/ WatchCluster(r)) /\ ~HaltRun(r)
  <2>1. cluster = "Succeeded" /\ NextStageRecording(r, "portal")
      BY <1>6 DEF ClusterReady, WatchCluster, WatchedOk, IInv, Suspended
  <2>2. QED
      BY <1>1, <1>3, <2>1, ClusterRecorded
<1>7. QED
    BY <1>4, <1>5, <1>6

LEMMA AttachStep == ASSUME IInv, NEW r \in Runs, AttachStage(r) PROVE IInv'
<1>1. pc[r] # "idle" /\ Current(r) = "attach"
    BY WorkingAt DEF AttachStage
<1>2. pull' = pull \/ pull' = TRUE
    BY Zenon DEF AttachStage
<1>3. Keeps /\ Deploys(r)
  <2>1. pull' \in BOOLEAN /\ (pull => pull')
      BY <1>2 DEF IInv, TypeOK
  <2>2. QED
      BY <2>1, FrameKeeps DEF AttachStage, AttachFrame, Deploys, IInv, TypeOK
<1>4. CASE NextStage(r, "succeeded") /\ pull'
    BY <1>1, <1>3, <1>4, NextMoves, LeavesKeeps DEF Concludes, StageStates
<1>5. CASE NextStage(r, "failed") /\ ~Attaching(wants[r])
    BY <1>1, <1>3, <1>5, NextMoves, LeavesKeeps DEF Concludes, StageStates
<1>6. CASE HaltRun(r)
    BY <1>1, <1>3, <1>6, HaltMoves, LeavesKeeps DEF Concludes
<1>7. QED
    BY <1>4, <1>5, <1>6 DEF AttachStage, AttachFailed, NoGrantNeeded, IInv, ClusterState

LEMMA VerifyStep ==
    ASSUME IInv, NEW r \in Runs, VerifyStage(r) \/ VerifyCancelled(r)
    PROVE  IInv'
<1>1. pc[r] # "idle" /\ Current(r) = "verify"
    BY WorkingAt DEF VerifyStage, VerifyCancelled
<1>2. Keeps /\ Deploys(r)
    BY FrameKeeps DEF VerifyStage, VerifyCancelled, AttachFrame, Deploys, IInv, TypeOK
<1>3. ASSUME NEW x \in {"succeeded", "unchecked", "warning"}, NextStage(r, x) PROVE IInv'
    BY <1>1, <1>2, <1>3, NextMoves, LeavesKeeps DEF Concludes, StageStates
<1>4. CASE Continue(r, "idle")
  <2>1. pc' \in [Runs -> PCs] /\ pc' = [pc EXCEPT ![r] = "idle"] /\ UNCHANGED <<at, result, status>>
      BY <1>1, <1>4, RunTypes DEF Continue, PCs
  <2>2. Moves(r) /\ Leaves(r) /\ Concludes(r)
      BY <1>1, <2>1, ContinueMoves DEF Leaves, Concludes
  <2>3. QED
      BY <1>2, <2>2, LeavesKeeps
<1>5. QED
    BY <1>3, <1>4 DEF VerifyStage, VerifyCancelled
(* The early grant, which may outlive its attempt.                          *)
LEMMA EarlyStepKeeps ==
    ASSUME IInv, NEW r \in Runs, StatusTick(r) \/ EarlyGrant(r)
    PROVE  IInv'
<1> USE DEF IInv
<1>1. EarlyFrame /\ UNCHANGED listed
    BY DEF StatusTick, EarlyGrant
<1>2. /\ pull' \in BOOLEAN /\ (pull => pull')
      /\ early' \in [Runs -> {"none", "reading", "granting", "done"}]
      /\ result' \in [Runs -> Results]
      /\ \A q \in Runs :
            /\ result'[q].succeeded => result[q].succeeded
            /\ result[q].loginServer => result'[q].loginServer
            /\ result[q].portal => result'[q].portal
  <2>1. /\ early \in [Runs -> {"none", "reading", "granting", "done"}]
        /\ result \in [Runs -> Results] /\ pull \in BOOLEAN
      BY DEF TypeOK, Results
  <2>2. CASE StatusTick(r)
    <3>1. UNCHANGED <<pull, result>>
        BY <2>2 DEF StatusTick
    <3>2. \E x \in {"none", "reading", "granting", "done"} : early' = [early EXCEPT ![r] = x]
        BY <2>2 DEF StatusTick
    <3>3. QED
        BY <2>1, <3>1, <3>2
  <2>3. CASE EarlyGrant(r)
    <3>1. early' = [early EXCEPT ![r] = "done"]
        BY <2>3 DEF EarlyGrant
    <3>2. \/ pull' = TRUE /\ result' = [result EXCEPT ![r].portal = TRUE]
          \/ UNCHANGED <<pull, result>>
        BY <2>3 DEF EarlyGrant
    <3>3. QED
        BY <2>1, <3>1, <3>2 DEF Results
  <2>4. QED
      BY <2>2, <2>3
<1>3. TypeOK'
    BY <1>1, <1>2 DEF EarlyFrame, TypeOK, Results
<1>4. UNCHANGED <<registry, cluster, deployments, listed, wants, pc, at, named, status, allowed>>
    BY <1>1 DEF EarlyFrame
<1>5. ReachedInOrder'
  <2>1. \A q \in Runs : \A i \in Nat : Past(q, i) => Past(q, i)'
      BY <1>2, <1>4 DEF Past
  <2>2. \A q \in Runs : 1 .. Len(StagesOf(wants[q])) \subseteq Nat
      BY StageFacts
  <2>3. QED
      BY <1>4, <2>1, <2>2 DEF ReachedInOrder
<1>6. Suspended' /\ Unused'
    BY <1>2, <1>4 DEF Suspended, Stage, Unused
<1>7. ClusterState'
    BY <1>2, <1>4 DEF ClusterState
<1>8. ReadyMeansReady' /\ ConnectedMeansAssigned'
    BY <1>2, <1>4 DEF ReadyMeansReady, ConnectedMeansAssigned
<1>9. AccessBeforeCluster'
    BY <1>4 DEF AccessBeforeCluster
<1>10. QED
    BY <1>3, <1>5, <1>6, <1>7, <1>8, <1>9

-----------------------------------------------------------------------------
(* What the user asks for                                                   *)

(* A new attempt of r, at a stage whose predecessors are behind it.         *)
LEMMA BeginKeeps ==
    ASSUME IInv, NEW r \in Runs, UNCHANGED <<azureVars, early, named, allowed>>,
           active' \in Runs \cup {None},
           NEW w \in Selections, wants' = [wants EXCEPT ![r] = w],
           Attaching(w) => cluster # "absent",
           wants[r] = None \/ wants[r] = w,
           NEW i \in 1 .. Len(StagesOf(w)), Begin(r, i), Past(r, i)'
    PROVE  IInv'
<1> USE DEF IInv
<1>1. wants \in [Runs -> Selections \cup {None}] /\ w # None
    BY NamesAreNumbers DEF TypeOK
<1>2. wants'[r] = w /\ \A q \in Runs \ {r} : wants'[q] = wants[q]
    BY <1>1
<1>3. i \in 1 .. 6 /\ StagesOf(w)[i] \in StageNames
    BY StageFacts
<1>4. /\ pc \in [Runs -> PCs] /\ at \in [Runs -> 1 .. 6] /\ cancelled \in [Runs -> BOOLEAN]
      /\ result \in [Runs -> Results]
      /\ status \in [Runs -> [StageNames -> StageStates]]
    BY DEF TypeOK, PCs, Results, StageStates
<1>5. /\ pc' \in [Runs -> PCs] /\ pc'[r] = "working"
      /\ at' \in [Runs -> 1 .. 6] /\ at'[r] = i
      /\ cancelled' \in [Runs -> BOOLEAN]
      /\ result' \in [Runs -> Results] /\ ~result'[r].succeeded
      /\ result'[r].portal = result[r].portal /\ result'[r].loginServer = result[r].loginServer
      /\ \A q \in Runs \ {r} : pc'[q] = pc[q] /\ at'[q] = at[q] /\ result'[q] = result[q]
    BY <1>3, <1>4 DEF Begin, PCs, Results
<1>6. /\ status' \in [Runs -> [StageNames -> StageStates]]
      /\ \A q \in Runs \ {r} : status'[q] = status[q]
      /\ \A s \in StageNames \ {StagesOf(w)[i]} : status'[r][s] = status[r][s]
  <2>1. status' = [status EXCEPT ![r][StagesOf(w)[i]] = "running"]
      BY <1>2 DEF Begin
  <2>2. QED
      BY <1>3, <1>4, <2>1 DEF StageStates
<1>7. TypeOK'
  <2>1. \A q \in Runs : wants'[q] # None => at'[q] \in 1 .. Len(StagesOf(wants'[q]))
      BY <1>2, <1>5 DEF TypeOK
  <2>2. wants' \in [Runs -> Selections \cup {None}]
      BY <1>1
  <2>3. QED
      BY <1>5, <1>6, <2>1, <2>2 DEF TypeOK, azureVars, PCs, Results, StageStates
<1>8. ReachedInOrder'
  <2>1. SUFFICES ASSUME NEW q \in Runs, NEW j \in 1 .. Len(StagesOf(wants'[q])),
                        at'[q] = j \/ status'[q][StagesOf(wants'[q])[j]] # "none"
                 PROVE  Past(q, j)'
      BY DEF ReachedInOrder
  <2>2. CASE q # r
    <3>1. Past(q, j)
        BY <1>2, <1>5, <1>6, <2>1, <2>2 DEF ReachedInOrder
    <3>2. QED
        BY <1>2, <1>5, <2>2, <3>1 DEF Past, azureVars
  <2>3. CASE q = r /\ j = i
      BY <2>3 DEF Past
  <2>4. CASE q = r /\ j # i
    <3>1. j \in 1 .. Len(StagesOf(w)) /\ StagesOf(w)[j] \in StageNames
        BY <1>2, <2>1, <2>4, StageFacts
    <3>2. StagesOf(w)[j] # StagesOf(w)[i]
        BY <2>4, <3>1, StagesDiffer
    <3>3. status[r][StagesOf(w)[j]] # "none"
        BY <1>2, <1>5, <1>6, <2>1, <2>4, <3>1, <3>2
    <3>4. wants[r] = w
        BY <3>1, <3>3 DEF Unused, NoStatus
    <3>5. Past(r, j)
        BY <3>1, <3>3, <3>4 DEF ReachedInOrder
    <3>6. QED
        BY <1>2, <1>5, <2>4, <3>4, <3>5 DEF Past, azureVars
  <2>5. QED
      BY <2>2, <2>3, <2>4
<1>9. Suspended' /\ Unused'
  <2>1. UNCHANGED <<cluster, named>>
      BY DEF azureVars
  <2>2. Suspended'
    <3>1. SUFFICES ASSUME NEW q \in Runs
                   PROVE  /\ pc'[q] # "idle" => wants'[q] # None
                          /\ pc'[q] \in {"creating", "polling", "watching", "settling"} =>
                                ~Attaching(wants'[q]) /\ Stage(q)' = "cluster" /\ named'[q] # None
                          /\ pc'[q] \in {"prompting", "waiting", "denied"} =>
                                Stage(q)' = "roleAccess"
                          /\ pc'[q] = "settling" => cluster' = "Succeeded"
        BY DEF Suspended
    <3>2. CASE q = r
        BY <1>1, <1>2, <1>5, <3>2
    <3>3. CASE q # r
        BY <1>2, <1>5, <2>1, <3>3 DEF Suspended, Stage
    <3>4. QED
        BY <3>2, <3>3
  <2>3. Unused'
      BY <1>1, <1>2, <1>5, <1>6 DEF Unused
  <2>4. QED
      BY <2>2, <2>3
<1>10. ClusterState'
    BY <1>2 DEF ClusterState, azureVars
<1>11. ReadyMeansReady' /\ ConnectedMeansAssigned'
    BY <1>2, <1>5 DEF ReadyMeansReady, ConnectedMeansAssigned, azureVars
<1>12. AccessBeforeCluster'
    BY DEF AccessBeforeCluster, azureVars
<1>13. QED
    BY <1>7, <1>8, <1>9, <1>10, <1>11, <1>12

LEMMA StartStep ==
    ASSUME IInv, WantedAssumption, NEW r \in Runs, NEW w \in Wanted, StartRun(r, w)
    PROVE  IInv'
<1>1. w \in Selections /\ wants' = [wants EXCEPT ![r] = w] /\ wants[r] = None
    BY WantedAssumption DEF StartRun
<1>2. 1 \in 1 .. Len(StagesOf(w))
    BY StageFacts
<1>3. wants'[r] = w
    BY <1>1 DEF IInv, TypeOK
<1>4. Past(r, 1)'
    BY <1>3 DEF Past, RegistryAt, ClusterAt
<1>5. QED
    BY <1>1, <1>2, <1>4, BeginKeeps DEF StartRun

LEMMA RetryStep == ASSUME IInv, NEW r \in Runs, NEW i \in 1 .. 6, RetryStage(r, i) PROVE IInv'
<1> DEFINE w == wants[r]
           j == RetryFrom(w, i)
<1>1. i \in 1 .. Len(StagesOf(w)) /\ status[r][StagesOf(w)[i]] # "none"
  <2>1. PICK len \in {5, 6} : len = Len(StagesOf(w))
      BY StageFacts
  <2>2. i <= len
      BY <2>1 DEF RetryStage
  <2>3. i \in 1 .. len
      BY <2>2
  <2>4. QED
      BY <2>1, <2>3 DEF RetryStage
<1>2. w \in Selections
  <2>1. StagesOf(w)[i] \in StageNames
      BY <1>1, StageFacts
  <2>2. w # None
      BY <1>1, <2>1 DEF IInv, Unused, NoStatus
  <2>3. QED
      BY <2>2 DEF IInv, TypeOK
<1>3. Past(r, i)
    BY <1>1 DEF IInv, ReachedInOrder
<1>4. j \in 1 .. Len(StagesOf(w)) /\ j <= i /\ (j = 5 => i = 5 \/ ~Attaching(w))
  <2>1. PICK len \in {5, 6} : len = Len(StagesOf(w)) /\ (Attaching(w) => len = 5)
      BY StageFacts
  <2>2. i \in 1 .. len /\ (StagesOf(w)[i] = "verify" <=> i = len)
      BY <1>1, <2>1, StageFacts
  <2>3. j = IF i = len THEN i - 1 ELSE i
      BY <2>2 DEF RetryFrom
  <2>4. j \in 1 .. len /\ j <= i /\ (j = 5 => i = 5 \/ ~Attaching(w))
      BY <2>1, <2>2, <2>3
  <2>5. QED
      BY <2>1, <2>4
<1>5. /\ UNCHANGED <<azureVars, early, named, allowed, active, wants>> /\ Begin(r, j)
    BY DEF RetryStage
<1>6. /\ wants'[r] = w /\ wants' = [wants EXCEPT ![r] = w]
      /\ result'[r].portal = result[r].portal /\ result'[r].loginServer = result[r].loginServer
    BY <1>5 DEF Begin, IInv, TypeOK
<1>7. Past(r, j)'
  <2>1. j \in Nat /\ j > RegistryAt(w) => i > RegistryAt(w)
      BY <1>4 DEF RegistryAt
  <2>2. j > ClusterAt(w) => i > ClusterAt(w)
      BY <1>4 DEF ClusterAt
  <2>3. j > 2 => i > 2
      BY <1>4
  <2>4. QED
      BY <1>3, <1>4, <1>5, <1>6, <2>1, <2>2, <2>3 DEF Past, azureVars
<1>8. active' \in Runs \cup {None} /\ (Attaching(w) => cluster # "absent")
    BY <1>5 DEF IInv, TypeOK, ClusterState
<1>9. QED
    BY <1>2, <1>4, <1>5, <1>6, <1>7, <1>8, BeginKeeps
LEMMA BackStep == ASSUME IInv, NEW r \in Runs, BackToSetup(r) PROVE IInv'
<1> USE DEF IInv
<1>1. /\ UNCHANGED <<azureVars, wants, at, early, named, result, status, allowed>>
      /\ active' = None
      /\ pc' = [q \in Runs |-> IF pc[q] = "waiting" THEN "denied" ELSE pc[q]]
    BY DEF BackToSetup
<1>2. cancelled' \in [Runs -> BOOLEAN]
  <2>1. cancelled \in [Runs -> BOOLEAN] /\ cancelled' = [cancelled EXCEPT ![r] = pc[r] # "idle"]
      BY DEF BackToSetup, TypeOK
  <2>2. (pc[r] # "idle") \in BOOLEAN
      OBVIOUS
  <2>3. QED
      BY <2>1, <2>2, Zenon
<1>3. /\ pc' \in [Runs -> PCs]
      /\ \A q \in Runs : pc'[q] = pc[q] \/ (pc[q] = "waiting" /\ pc'[q] = "denied")
  <2>1. pc \in [Runs -> PCs]
      BY DEF TypeOK, PCs
  <2>2. QED
      BY <1>1, <2>1 DEF PCs
<1>4. TypeOK'
    BY <1>1, <1>2, <1>3 DEF TypeOK, PCs, azureVars
<1>5. ReachedInOrder'
    BY <1>1 DEF ReachedInOrder, Past, azureVars
<1>6. Suspended'
    BY <1>1, <1>3 DEF Suspended, Stage, azureVars
<1>7. Unused' /\ ClusterState'
    BY <1>1 DEF Unused, ClusterState, azureVars
<1>8. ReadyMeansReady' /\ ConnectedMeansAssigned' /\ AccessBeforeCluster'
    BY <1>1 DEF ReadyMeansReady, ConnectedMeansAssigned, AccessBeforeCluster, azureVars
<1>9. QED
    BY <1>4, <1>5, <1>6, <1>7, <1>8

-----------------------------------------------------------------------------
(* What Azure does by itself                                                *)

(* A deployment that was started goes on, and a cluster that exists stays.  *)
ClusterEffect ==
    /\ cluster' \in {"absent", "Creating", "Succeeded", "Failed"}
    /\ deployments' \in [Names -> {"none", "accepted", "applied", "succeeded", "failed"}]
    /\ cluster = "Succeeded" => cluster' = "Succeeded"
    /\ cluster # "absent" => cluster' # "absent"
    /\ \A n \in Names : deployments'[n] # "none" => deployments[n] # "none"
    /\ \A n \in Names : deployments'[n] \in {"accepted", "applied"} =>
                         deployments[n] \in {"accepted", "applied"}
    /\ \A n \in Names : deployments'[n] = "applied" => cluster' = "Creating"
    /\ \A n, m \in Names : deployments'[n] = "applied" /\ deployments'[m] = "applied" => n = m
    /\ \A n \in Names : deployments'[n] = "succeeded" => cluster' = "Succeeded"

LEMMA AzureStep == ASSUME IInv, Azure PROVE IInv'
<1> USE DEF IInv
<1>1. /\ UNCHANGED <<group, registry, pull, runVars>>
      /\ mayAssign' \in BOOLEAN
      /\ listed' = listed \/ (listed' = TRUE /\ pull)
  <2>1. ASSUME NEW n \in Names, DeploymentApplies(n) \/ DeploymentEnds(n)
        PROVE  UNCHANGED <<group, registry, pull, listed, mayAssign, runVars>>
      BY <2>1 DEF DeploymentApplies, DeploymentEnds, AzureFrame
  <2>2. CASE OthersClusterEnds \/ AssignmentAppears
      BY <2>2, Zenon DEF OthersClusterEnds, AssignmentAppears, AzureFrame, TypeOK
  <2>3. CASE PermissionChanges
      BY <2>3, Zenon DEF PermissionChanges
  <2>4. mayAssign \in BOOLEAN
      BY DEF TypeOK
  <2>5. QED
      BY <2>1, <2>2, <2>3, <2>4, Zenon DEF Azure
<1>2. /\ deployments \in [Names -> {"none", "accepted", "applied", "succeeded", "failed"}]
      /\ cluster \in {"absent", "Creating", "Succeeded", "Failed"}
    BY DEF TypeOK
<1>3. ClusterEffect
  <2>1. ASSUME NEW n \in Names, DeploymentApplies(n) PROVE ClusterEffect
    <3>1. CASE cluster \in {"absent", "Failed"}
      <4>1. cluster' = "Creating" /\ deployments' = [deployments EXCEPT ![n] = "applied"]
            /\ deployments[n] = "accepted"
          BY <2>1, <3>1 DEF DeploymentApplies
      <4>2. QED
          BY <1>2, <3>1, <4>1 DEF ClusterEffect, ClusterState
    <3>2. CASE cluster = "Creating"
      <4>1. cluster' = "Creating" /\ deployments' = [deployments EXCEPT ![n] = "failed"]
            /\ deployments[n] = "accepted"
          BY <2>1, <3>2 DEF DeploymentApplies
      <4>2. QED
          BY <1>2, <3>2, <4>1 DEF ClusterEffect, ClusterState
    <3>3. CASE cluster = "Succeeded"
      <4>1. cluster' = "Succeeded" /\ deployments' = [deployments EXCEPT ![n] = "succeeded"]
            /\ deployments[n] = "accepted"
          BY <2>1, <3>3 DEF DeploymentApplies
      <4>2. QED
          BY <1>2, <3>3, <4>1 DEF ClusterEffect, ClusterState
    <3>4. QED
        BY <1>2, <3>1, <3>2, <3>3
  <2>2. ASSUME NEW n \in Names, DeploymentEnds(n) PROVE ClusterEffect
    <3>1. deployments[n] = "applied" /\ cluster = "Creating"
        BY <2>2 DEF DeploymentEnds, ClusterState
    <3>2. \/ cluster' = "Succeeded" /\ deployments' = [deployments EXCEPT ![n] = "succeeded"]
          \/ cluster' = "Failed" /\ deployments' = [deployments EXCEPT ![n] = "failed"]
        BY <2>2 DEF DeploymentEnds
    <3>3. QED
        BY <1>2, <3>1, <3>2 DEF ClusterEffect, ClusterState
  <2>3. CASE AssignmentAppears \/ PermissionChanges
    <3>1. UNCHANGED <<cluster, deployments>>
        BY <2>3 DEF AssignmentAppears, PermissionChanges
    <3>2. QED
        BY <1>2, <3>1 DEF ClusterEffect, ClusterState
  <2>4. CASE OthersClusterEnds
    <3>1. /\ cluster = "Creating" /\ cluster' \in {"Succeeded", "Failed"}
          /\ deployments' = deployments /\ \A n \in Names : deployments[n] # "applied"
        BY <2>4 DEF OthersClusterEnds
    <3>2. QED
        BY <1>2, <3>1 DEF ClusterEffect, ClusterState
  <2>5. QED
      BY <2>1, <2>2, <2>3, <2>4 DEF Azure
<1> USE DEF ClusterEffect
<1>4. TypeOK'
    BY <1>1, <1>3 DEF TypeOK, runVars
<1>5. ReachedInOrder'
    BY <1>1, <1>3 DEF ReachedInOrder, Past, runVars
<1>6. Suspended' /\ Unused'
    BY <1>1, <1>3 DEF Suspended, Unused, Stage, runVars
<1>7. ClusterState'
    BY <1>1, <1>3 DEF ClusterState, runVars
<1>8. ReadyMeansReady' /\ ConnectedMeansAssigned'
    BY <1>1, <1>3 DEF ReadyMeansReady, ConnectedMeansAssigned, runVars
<1>9. AccessBeforeCluster'
    BY <1>1, <1>3 DEF AccessBeforeCluster, runVars
<1>10. QED
    BY <1>4, <1>5, <1>6, <1>7, <1>8, <1>9

-----------------------------------------------------------------------------
(* The theorems                                                             *)

LEMMA Starting == Init => IInv
<1> SUFFICES ASSUME Init PROVE IInv
    OBVIOUS
<1>1. \A r \in Runs : wants[r] = None /\ ~Attaching(wants[r])
    BY NamesAreNumbers, FreshNone DEF Init, Attaching, Selections
<1>2. status \in [Runs -> [StageNames -> StageStates]]
      /\ \A r \in Runs : \A s \in StageNames : status[r][s] = "none"
    BY DEF Init, NoStatus, StageStates
<1>3. result \in [Runs -> Results] /\ \A r \in Runs : ~result[r].succeeded
    BY DEF Init, NoResult, Results
<1>4. TypeOK
  <2>1. /\ group \in BOOLEAN /\ registry \in BOOLEAN /\ pull \in BOOLEAN
        /\ mayAssign \in BOOLEAN /\ listed \in BOOLEAN
      BY DEF Init
  <2>2. QED
      BY <1>1, <1>2, <1>3, <2>1 DEF Init, TypeOK, StageStates, Results
<1>5. ReachedInOrder
  <2>1. SUFFICES ASSUME NEW r \in Runs, NEW i \in 1 .. Len(StagesOf(wants[r])),
                        at[r] = i \/ status[r][StagesOf(wants[r])[i]] # "none"
                 PROVE  Past(r, i)
      BY DEF ReachedInOrder
  <2>2. i = 1
      BY <1>2, <2>1, StageFacts DEF Init
  <2>3. QED
      BY <1>1, <2>2 DEF Past, RegistryAt, ClusterAt
<1>6. Suspended /\ Unused /\ ClusterState
    BY <1>1, <1>3 DEF Init, Suspended, Unused, ClusterState
<1>7. ReadyMeansReady /\ ConnectedMeansAssigned /\ AccessBeforeCluster
    BY <1>3 DEF Init, ReadyMeansReady, ConnectedMeansAssigned, AccessBeforeCluster
<1>8. QED
    BY <1>4, <1>5, <1>6, <1>7 DEF IInv

LEMMA Stepping == IInv /\ [Next]_vars => IInv'
<1> SUFFICES ASSUME IInv, [Next]_vars PROVE IInv'
    OBVIOUS
<1>1. CASE Azure
    BY <1>1, AzureStep
<1>2. ASSUME NEW r \in Runs, StageStep(r) PROVE IInv'
  <2>1. CASE AccessStep(r)
      BY <2>1, AccessFoundStep, PromptStep DEF AccessStep
  <2>2. CASE ClusterStep(r)
      BY <2>2, ResolveStep, ReconcileStep, BeginStep, WaitStep, EarlyStepKeeps DEF ClusterStep
  <2>3. QED
      BY <1>2, <2>1, <2>2, ResourceGroupStep, RegistryStep, AttachStep, VerifyStep
         DEF StageStep
<1>3. ASSUME NEW r \in Runs, User(r) PROVE IInv'
    BY <1>3, WantedAssumption, StartStep, RetryStep, BackStep DEF User
<1>4. CASE UNCHANGED vars
  <2>1. UNCHANGED <<azureVars, runVars>>
      BY <1>4 DEF vars
  <2>2. TypeOK' /\ ReachedInOrder' /\ Suspended' /\ Unused' /\ ClusterState'
      BY <2>1 DEF azureVars, runVars, IInv, TypeOK, ReachedInOrder, Past, Suspended, Stage,
                  Unused, ClusterState
  <2>3. ReadyMeansReady' /\ ConnectedMeansAssigned' /\ AccessBeforeCluster'
      BY <2>1 DEF azureVars, runVars, IInv, ReadyMeansReady, ConnectedMeansAssigned,
                  AccessBeforeCluster
  <2>4. QED
      BY <2>2, <2>3 DEF IInv
<1>5. QED
    BY <1>1, <1>2, <1>3, <1>4 DEF Next

LEMMA Invariance == Spec => []IInv
<1>1. QED
    BY Starting, Stepping, PTL DEF Spec

\* The state stays well-typed.
THEOREM TypeCorrect == Spec => []TypeOK
<1>1. IInv => TypeOK
    BY DEF IInv
<1>2. QED
    BY <1>1, Invariance, PTL

\* A run that reports success has its registry and its cluster, which is up if the run was to
\* create it, and their names; one that connects an existing cluster, in whatever state,
\* succeeds only if the cluster may pull.
THEOREM SuccessIsTrue == Spec => []SuccessIsTruthful
<1>1. IInv => SuccessIsTruthful
    BY DEF IInv, SuccessIsTruthful
<1>2. QED
    BY <1>1, Invariance, PTL

\* No cluster is deployed by a run that has not seen that it may assign roles.
THEOREM AccessComesFirst == Spec => []AccessBeforeCluster
<1>1. IInv => AccessBeforeCluster
    BY DEF IInv
<1>2. QED
    BY <1>1, Invariance, PTL
=============================================================================
