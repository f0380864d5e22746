--------------------------- MODULE AzureSessionProofs ---------------------------
(***************************************************************************)
(* What AzureSession guarantees for every number of overlapping calls and  *)
(* every assignment of tenants to accounts.                                *)
(***************************************************************************)
EXTENDS AzureSession, TLAPS

Records == [kind : JobKinds \cup {"none"}, at : Places \cup {"idle"},
            seen : SUBSET Tenants, changed : BOOLEAN]

\* Job builds a record of the type, and Idle is one.
LEMMA JobTypes ==
    /\ Idle \in Records
    /\ \A k \in JobKinds \cup {"none"}, p \in Places \cup {"idle"}, s \in SUBSET Tenants :
          Job(k, p, s) \in Records
PROOF BY DEF Idle, Job, Records

\* The update of the provider by j, whose event releases the jobs that wait for it.
LEMMA UpdateTypes ==
    ASSUME SignInTypeOK, NEW j \in Jobs, NEW new \in SUBSET Tenants, NEW changed \in BOOLEAN,
           NEW sel \in Tenants \cup {Nil}, Update(j, new, changed, sel)
    PROVE  /\ status' \in {"SignedIn", "SignedOut"}
           /\ tenants' \in SUBSET Tenants
           /\ selected' \in Tenants \cup {Nil}
           /\ ready' \in BOOLEAN
           /\ job' \in [Jobs -> Records]
<1>1. AfterUpdate(j) \in Records /\ Job("ready", "entering", {}) \in Records
    BY JobTypes DEF AfterUpdate, JobKinds, Places
<1>2. job \in [Jobs -> Records] /\ ready \in BOOLEAN
    BY DEF SignInTypeOK, Records
<1>3. job' \in [Jobs -> Records]
    BY <1>1, <1>2 DEF Update
<1>4. QED
    BY <1>2, <1>3 DEF Update, StatusOf

\* The step of a job to another await keeps the type of the jobs.
LEMMA GoTypes ==
    ASSUME SignInTypeOK, NEW j \in Jobs, NEW k \in JobKinds \cup {"none"},
           NEW p \in Places \cup {"idle"}, NEW s \in SUBSET Tenants,
           Go(j, k, p, s) \/ Finished(j)
    PROVE  job' \in [Jobs -> Records]
<1>1. Job(k, p, s) \in Records /\ Idle \in Records
    BY JobTypes
<1>2. job \in [Jobs -> Records]
    BY DEF SignInTypeOK, Records
<1>3. QED
    BY <1>1, <1>2 DEF Go, Finished

\* The state stays well-typed.
THEOREM TypeCorrect == SignInSpec => []SignInTypeOK
<1>1. SignInInit => SignInTypeOK
  <2>1. SUFFICES ASSUME SignInInit PROVE SignInTypeOK
      OBVIOUS
  <2>2. job \in [Jobs -> Records]
    <3>1. Job("init", "org", {}) \in Records /\ Idle \in Records
        BY JobTypes DEF JobKinds, Places
    <3>2. PICK j \in Jobs :
            job = [i \in Jobs |-> IF i = j THEN Job("init", "org", {}) ELSE Idle]
        BY <2>1 DEF SignInInit
    <3>3. QED
        BY <3>1, <3>2
  <2>3. 0 \in 0 .. MaxEvents
      BY EventsAssumption
  <2>4. QED
      BY <2>1, <2>2, <2>3 DEF SignInInit, SignInTypeOK, Records
<1>2. SignInTypeOK /\ [SignInNext]_signInVars => SignInTypeOK'
  <2> SUFFICES ASSUME SignInTypeOK, [SignInNext]_signInVars PROVE SignInTypeOK'
      OBVIOUS
  <2> USE DEF SignInTypeOK
  <2>1. job \in [Jobs -> Records] /\ events \in 0 .. MaxEvents /\ MaxEvents \in Nat
      BY EventsAssumption DEF Records
  <2>2. CASE AccountChanges
      BY <2>1, <2>2 DEF AccountChanges, provider
  <2>3. ASSUME NEW j \in Jobs, SessionsChanged(j) PROVE SignInTypeOK'
    <3>1. job' \in [Jobs -> Records]
        BY <2>1, <2>3, GoTypes DEF SessionsChanged, JobKinds, Places
    <3>2. events' \in 0 .. MaxEvents
        BY <2>1, <2>3 DEF SessionsChanged
    <3>3. handling' \in BOOLEAN
        BY <2>3, Zenon DEF SessionsChanged
    <3>4. QED
        BY <2>3, <3>1, <3>2, <3>3 DEF SessionsChanged, provider, Records
  <2>4. ASSUME NEW j \in Jobs, OrgSessionFound(j) PROVE SignInTypeOK'
    <3>1. account' \in Accounts /\ events' \in 0 .. MaxEvents
        BY <2>1, <2>4 DEF OrgSessionFound, MayReport
    <3>2. Sees[account'] \in SUBSET Tenants
        BY <3>1, SeesAssumption
    <3>3. job[j].kind \in JobKinds \cup {"none"}
        BY <2>1 DEF Records
    <3>4. job' \in [Jobs -> Records]
        BY <2>4, <3>2, <3>3, GoTypes DEF OrgSessionFound, Places
    <3>5. QED
        BY <2>4, <3>1, <3>4 DEF OrgSessionFound, provider, Records
  <2>5. ASSUME NEW j \in Jobs, OrgSessionMissing(j) PROVE SignInTypeOK'
    <3>1. PICK changed \in BOOLEAN : Update(j, {}, changed, Nil)
        BY <2>5 DEF OrgSessionMissing
    <3>2.  /\ status' \in {"SignedIn", "SignedOut"}
           /\ tenants' \in SUBSET Tenants
           /\ selected' \in Tenants \cup {Nil}
           /\ ready' \in BOOLEAN
           /\ job' \in [Jobs -> Records]
        BY <3>1, UpdateTypes
    <3>3. QED
        BY <2>1, <2>5, <3>2 DEF OrgSessionMissing, Records
  <2>6. ASSUME NEW j \in Jobs, TenantsListed(j) PROVE SignInTypeOK'
    <3>1. PICK new \in SUBSET Tenants, sel \in Tenants \cup {Nil} :
            Update(j, new, new # tenants, sel)
        <4>1. {job[j].seen, {}} \subseteq SUBSET Tenants
            BY <2>1 DEF Records
        <4>2. PICK new \in {job[j].seen, {}} :
                \/ Update(j, new, new # tenants, selected)
                \/ \E t \in new : Update(j, new, new # tenants, t)
                \/ Update(j, new, new # tenants, Nil)
            BY <2>6 DEF TenantsListed
        <4>3. new \in SUBSET Tenants
            BY <4>1, <4>2
        <4>4. QED
            BY <4>2, <4>3
    <3>2.  /\ status' \in {"SignedIn", "SignedOut"}
           /\ tenants' \in SUBSET Tenants
           /\ selected' \in Tenants \cup {Nil}
           /\ ready' \in BOOLEAN
           /\ job' \in [Jobs -> Records]
        BY <3>1, UpdateTypes
    <3>3. QED
        BY <2>6, <3>2 DEF TenantsListed, Records
  <2>7. ASSUME NEW j \in Jobs, ProbeTenants(j) PROVE SignInTypeOK'
    <3>1. PICK c \in BOOLEAN : job' = [job EXCEPT ![j].at = "probing", ![j].changed = c]
        BY <2>7, Zenon DEF ProbeTenants
    <3>2. job' \in [Jobs -> Records]
        BY <2>1, <3>1 DEF Records, Places
    <3>3. QED
        BY <2>7, <3>2 DEF ProbeTenants, provider, Records
  <2>8. ASSUME NEW j \in Jobs, ProbeAnswered(j) PROVE SignInTypeOK'
      BY <2>8 DEF ProbeAnswered, provider
  <2>9. ASSUME NEW j \in Jobs, ProbesDone(j) PROVE SignInTypeOK'
    <3>1. job[j].seen \in SUBSET Tenants /\ job[j].changed \in BOOLEAN
        BY <2>1 DEF Records
    <3>2. PICK new \in SUBSET Tenants, c \in BOOLEAN, sel \in Tenants \cup {Nil} :
            Update(j, new, c, sel)
        BY <2>9, <3>1, Zenon DEF ProbesDone, ProbeResults
    <3>3.  /\ status' \in {"SignedIn", "SignedOut"}
           /\ tenants' \in SUBSET Tenants
           /\ selected' \in Tenants \cup {Nil}
           /\ ready' \in BOOLEAN
           /\ job' \in [Jobs -> Records]
        BY <3>2, UpdateTypes
    <3>4. QED
        BY <2>9, <3>3 DEF ProbesDone, Records
  <2>10. ASSUME NEW j \in Jobs, BeginSignIn(j) PROVE SignInTypeOK'
    <3>1. job[j].kind \in JobKinds \cup {"none"}
        BY <2>1 DEF Records
    <3>2. job' \in [Jobs -> Records]
        BY <2>10, <3>1, GoTypes DEF BeginSignIn, Places
    <3>3. QED
        BY <2>10, <3>2 DEF BeginSignIn, Records
  <2>11. ASSUME NEW j \in Jobs, NotSignedIn(j) \/ NoTenantPicked(j) PROVE SignInTypeOK'
    <3>1. job' \in [Jobs -> Records]
        BY <2>11, GoTypes DEF NotSignedIn, NoTenantPicked
    <3>2. QED
        BY <2>11, <3>1 DEF NotSignedIn, NoTenantPicked, provider, Records
  <2>12. ASSUME NEW j \in Jobs, AskForTenant(j) PROVE SignInTypeOK'
    <3>1. job' \in [Jobs -> Records]
        BY <2>12, GoTypes DEF AskForTenant, JobKinds, Places
    <3>2. QED
        BY <2>12, <3>1 DEF AskForTenant, provider, Records
  <2>13. ASSUME NEW j \in Jobs, BeginSession(j) PROVE SignInTypeOK'
    <3>1. job' \in [Jobs -> Records]
        BY <2>13, GoTypes DEF BeginSession, JobKinds, Places
    <3>2. QED
        BY <2>13, <3>1 DEF BeginSession, Records
  <2>14. ASSUME NEW j \in Jobs, TenantPicked(j) PROVE SignInTypeOK'
    <3>1. job' \in [Jobs -> Records]
        BY <2>14, GoTypes DEF TenantPicked, JobKinds, Places
    <3>2. selected' \in Tenants
        BY <2>1, <2>14 DEF TenantPicked, Records
    <3>3. QED
        BY <2>14, <3>1, <3>2 DEF TenantPicked, Records
  <2>15. ASSUME NEW j \in Jobs, SessionEnds(j) PROVE SignInTypeOK'
    <3>1. job' \in [Jobs -> Records]
        BY <2>15, GoTypes DEF SessionEnds
    <3>2. QED
        BY <2>1, <2>15, <3>1 DEF SessionEnds, MayReport, provider, Records
  <2>16. ASSUME NEW j \in Jobs, TenantChosen(j) PROVE SignInTypeOK'
    <3>1. job' \in [Jobs -> Records]
        BY <2>16, GoTypes DEF TenantChosen
    <3>2. selected' \in Tenants \cup {Nil}
        BY <2>1, <2>16 DEF TenantChosen, Settable
    <3>3. QED
        BY <2>16, <3>1, <3>2 DEF TenantChosen, Records
  <2>17. ASSUME NEW j \in Jobs, SignIn(j) \/ GetReady(j) \/ GetToken(j) PROVE SignInTypeOK'
    <3>1. job' \in [Jobs -> Records]
        BY <2>17, GoTypes DEF SignIn, GetReady, GetToken, JobKinds, Places
    <3>2. QED
        BY <2>17, <3>1 DEF SignIn, GetReady, GetToken, provider, Records
  <2>18. ASSUME NEW j \in Jobs, SelectTenant(j) PROVE SignInTypeOK'
    <3>1. job' \in [Jobs -> Records]
        BY <2>18, GoTypes DEF SelectTenant, JobKinds, Places
    <3>2. QED
        BY <2>18, <3>1 DEF SelectTenant, Records
  <2>19. CASE UNCHANGED signInVars
      BY <2>19 DEF signInVars, provider
  <2>20. QED
      BY <2>2, <2>3, <2>4, <2>5, <2>6, <2>7, <2>8, <2>9, <2>10, <2>11, <2>12, <2>13, <2>14,
         <2>15, <2>16, <2>17, <2>18, <2>19
      DEF SignInNext, Resume, Command
<1>3. QED
    BY <1>1, <1>2, PTL DEF SignInSpec

-----------------------------------------------------------------------------

\* What the three safety invariants have in common: each is inductive next to SignInTypeOK.
IInv == SignInTypeOK /\ NoOneWaitsSignedIn /\ DeafOnlyInSession /\ StatusMatchesTenants

InSession(j) == job[j].at \in {"org", "probing", "session"}

\* The jobs are records one by one.
LEMMA JobsAreFunctions ==
    ASSUME SignInTypeOK
    PROVE  /\ job = [j \in Jobs |-> job[j]]
           /\ \A j \in Jobs : job[j] \in Records
PROOF BY DEF SignInTypeOK, Records

\* A step of one job to p, or to its end, leaves the other jobs where they are.
LEMMA GoMoves ==
    ASSUME SignInTypeOK, NEW j \in Jobs, NEW k, NEW p, NEW s, Go(j, k, p, s)
    PROVE  /\ job'[j].at = p
           /\ \A i \in Jobs \ {j} : job'[i] = job[i]
PROOF BY JobsAreFunctions DEF Go, Job

LEMMA FinishMoves ==
    ASSUME SignInTypeOK, NEW j \in Jobs, Finished(j)
    PROVE  /\ job'[j].at = "idle"
           /\ \A i \in Jobs \ {j} : job'[i] = job[i]
PROOF BY JobsAreFunctions DEF Finished, Idle

\* An update moves its own job on, and of the others it moves only those that wait; none of
\* them waits afterwards if the update has signed in.
LEMMA UpdateMoves ==
    ASSUME IInv, NEW j \in Jobs, NEW new \in SUBSET Tenants, NEW changed, NEW sel,
           Update(j, new, changed, sel)
    PROVE  /\ job'[j].at \in {"idle", "entering"}
           /\ \A i \in Jobs \ {j} : job'[i] = job[i] \/ job'[i].at = "entering"
           /\ NoOneWaitsSignedIn'
           /\ StatusMatchesTenants'
<1>1. \A i \in Jobs : job'[i] = IF i = j THEN AfterUpdate(j)
                             ELSE IF At(i, "waiting") /\ StatusOf(new) = "SignedIn"
                                       /\ Fires(StatusOf(new), changed, sel)
                             THEN Job("ready", "entering", {})
                             ELSE job[i]
    BY DEF Update
<1>2. AfterUpdate(j).at \in {"idle", "entering"} /\ Job("ready", "entering", {}).at = "entering"
    BY DEF AfterUpdate, Job, Idle
<1>3. status' = StatusOf(new) /\ tenants' = new
    BY DEF Update
<1>4. StatusMatchesTenants'
    BY <1>3 DEF StatusMatchesTenants, StatusOf
<1>5. ASSUME status' = "SignedIn", NEW i \in Jobs PROVE job'[i].at # "waiting"
  <2>1. CASE i = j
      BY <1>1, <1>2, <2>1
  <2>2. CASE i # j /\ At(i, "waiting")
    <3>1. status # "SignedIn"
        BY <2>2 DEF IInv, NoOneWaitsSignedIn
    <3>2. Fires(StatusOf(new), changed, sel)
        BY <1>3, <1>5, <3>1 DEF Fires
    <3>3. QED
        BY <1>1, <1>2, <1>3, <1>5, <2>2, <3>2
  <2>3. CASE i # j /\ ~At(i, "waiting")
      BY <1>1, <2>3 DEF At
  <2>4. QED
      BY <2>1, <2>2, <2>3
<1>6. QED
    BY <1>1, <1>2, <1>4, <1>5 DEF NoOneWaitsSignedIn, At

\* The steps that update the provider, and what they do to the flag.
LEMMA UpdatingStep ==
    ASSUME IInv, NEW j \in Jobs,
           OrgSessionMissing(j) \/ TenantsListed(j) \/ ProbesDone(j)
    PROVE  /\ \E new \in SUBSET Tenants : \E changed, sel : Update(j, new, changed, sel)
           /\ handling' = TRUE \/ (handling' = handling /\ ~InSession(j))
<1>1. job[j].seen \in SUBSET Tenants
    BY JobsAreFunctions DEF IInv, Records
<1>2. CASE OrgSessionMissing(j)
    BY <1>2 DEF OrgSessionMissing
<1>3. CASE TenantsListed(j)
    BY <1>1, <1>3 DEF TenantsListed, At, InSession
<1>4. CASE ProbesDone(j)
    BY <1>1, <1>4 DEF ProbesDone
<1>5. QED
    BY <1>2, <1>3, <1>4

\* The steps that move one job and leave the list of tenants alone.
Moves(j) ==
    \/ SessionsChanged(j) \/ OrgSessionFound(j) \/ ProbeTenants(j) \/ BeginSignIn(j)
    \/ NotSignedIn(j) \/ AskForTenant(j) \/ BeginSession(j) \/ TenantPicked(j)
    \/ NoTenantPicked(j) \/ SessionEnds(j) \/ TenantChosen(j) \/ Command(j)

\* Such a step begins a wait only before the sign-in is over, and clears the flag only as it
\* enters a session.
LEMMA MovingStep ==
    ASSUME IInv, NEW j \in Jobs, Moves(j)
    PROVE  /\ tenants' = tenants
           /\ status' \in {status, "SigningIn"}
           /\ \A i \in Jobs \ {j} : job'[i] = job[i]
           /\ job'[j].at = "waiting" => job[j].at = "waiting" \/ status' # "SignedIn"
           /\ \/ handling' = TRUE
              \/ job'[j].at \in {"org", "probing", "session"}
              \/ handling' = handling /\ ~InSession(j)
<1> USE JobsAreFunctions DEF IInv, At, IsIdle, InSession
<1>1. CASE SessionsChanged(j)
  <2>1. CASE handling
    <3>1. Go(j, "event", "org", {})
        BY <1>1, <2>1, Zenon DEF SessionsChanged
    <3>2. QED
        BY <1>1, <3>1, GoMoves DEF SessionsChanged, provider
  <2>2. CASE ~handling
      BY <1>1, <2>2 DEF SessionsChanged, provider
  <2>3. QED
      BY <2>1, <2>2
<1>2. CASE OrgSessionFound(j)
    BY <1>2, GoMoves DEF OrgSessionFound, provider
<1>3. CASE ProbeTenants(j)
  <2>1. /\ job'[j].at = "probing"
        /\ \A i \in Jobs \ {j} : job'[i] = job[i]
    <3>1. PICK c : job' = [job EXCEPT ![j].at = "probing", ![j].changed = c]
        BY <1>3, Zenon DEF ProbeTenants
    <3>2. job[j] \in Records /\ job \in [Jobs -> Records]
        BY DEF SignInTypeOK, Records
    <3>3. QED
        BY <3>1, <3>2 DEF Records
  <2>2. QED
      BY <1>3, <2>1 DEF ProbeTenants, provider
<1>4. CASE BeginSignIn(j)
    BY <1>4, GoMoves DEF BeginSignIn
<1>5. CASE NotSignedIn(j) \/ NoTenantPicked(j)
    BY <1>5, FinishMoves DEF NotSignedIn, NoTenantPicked, provider
<1>6. CASE AskForTenant(j)
    BY <1>6, GoMoves DEF AskForTenant, provider
<1>7. CASE BeginSession(j)
    BY <1>7, GoMoves DEF BeginSession
<1>8. CASE TenantPicked(j)
    BY <1>8, GoMoves DEF TenantPicked
<1>9. CASE SessionEnds(j)
    BY <1>9, FinishMoves DEF SessionEnds, provider
<1>10. CASE TenantChosen(j)
    BY <1>10, FinishMoves DEF TenantChosen
<1>11. CASE SignIn(j) \/ GetToken(j)
    BY <1>11, GoMoves DEF SignIn, GetToken, provider
<1>12. CASE GetReady(j)
  <2>1. \A i \in Jobs \ {j} : job'[i] = job[i]
      BY <1>12, GoMoves DEF GetReady
  <2>2. job'[j].at = "waiting" => status # "SignedIn"
      BY <1>12, GoMoves DEF GetReady
  <2>3. QED
      BY <1>12, <2>1, <2>2 DEF GetReady, provider
<1>13. CASE SelectTenant(j)
    BY <1>13, GoMoves DEF SelectTenant
<1>14. QED
    BY <1>1, <1>2, <1>3, <1>4, <1>5, <1>6, <1>7, <1>8, <1>9, <1>10, <1>11, <1>12, <1>13
    DEF Moves, Command

\* Every step is of one of the kinds.
LEMMA StepKinds ==
    ASSUME SignInNext
    PROVE  \/ AccountChanges
           \/ \E j \in Jobs : ProbeAnswered(j)
           \/ \E j \in Jobs : OrgSessionMissing(j) \/ TenantsListed(j) \/ ProbesDone(j)
           \/ \E j \in Jobs : Moves(j)
PROOF BY DEF SignInNext, Resume, Moves

\* The three invariants are kept by every step.
LEMMA Inductive == IInv /\ SignInTypeOK' /\ [SignInNext]_signInVars => IInv'
<1> SUFFICES ASSUME IInv, SignInTypeOK', [SignInNext]_signInVars PROVE IInv'
    OBVIOUS
<1>1. ASSUME NEW j \in Jobs, OrgSessionMissing(j) \/ TenantsListed(j) \/ ProbesDone(j)
      PROVE  IInv'
  <2>0. PICK new \in SUBSET Tenants : \E changed, sel : Update(j, new, changed, sel)
      BY <1>1, UpdatingStep
  <2>1. PICK changed, sel : Update(j, new, changed, sel)
      BY <2>0
  <2>2. NoOneWaitsSignedIn' /\ StatusMatchesTenants'
      BY <2>1, UpdateMoves
  <2>3. ASSUME handling' # TRUE PROVE \E i \in Jobs : InSession(i)'
    <3>1. handling' = handling /\ ~InSession(j)
        BY <1>1, <2>3, UpdatingStep
    <3>2. ~handling
        BY <2>3, <3>1 DEF IInv, SignInTypeOK
    <3>3. PICK i \in Jobs : InSession(i)
        BY <3>2 DEF IInv, DeafOnlyInSession, InSession
    <3>4. job'[i] = job[i] \/ job'[i].at = "entering"
        BY <2>1, <3>1, <3>3, UpdateMoves
    <3>5. At(i, "waiting") = FALSE
        BY <3>3 DEF InSession, At
    <3>6. job'[i] = job[i]
        BY <2>1, <3>1, <3>3, <3>5 DEF Update
    <3>7. QED
        BY <3>3, <3>6 DEF InSession
  <2>4. QED
      BY <2>2, <2>3, Zenon DEF IInv, DeafOnlyInSession, InSession
<1>2. ASSUME NEW j \in Jobs, Moves(j) PROVE IInv'
  <2>1. StatusMatchesTenants'
      BY <1>2, MovingStep DEF IInv, StatusMatchesTenants
  <2>2. NoOneWaitsSignedIn'
      BY <1>2, MovingStep DEF IInv, NoOneWaitsSignedIn, At
  <2>3. DeafOnlyInSession'
      BY <1>2, MovingStep DEF IInv, DeafOnlyInSession, InSession
  <2>4. QED
      BY <2>1, <2>2, <2>3 DEF IInv
<1>3. CASE AccountChanges \/ \E j \in Jobs : ProbeAnswered(j)
    BY <1>3 DEF AccountChanges, ProbeAnswered, provider, IInv, NoOneWaitsSignedIn,
                DeafOnlyInSession, StatusMatchesTenants, At
<1>4. CASE UNCHANGED signInVars
    BY <1>4 DEF signInVars, provider, IInv, NoOneWaitsSignedIn, DeafOnlyInSession,
                StatusMatchesTenants, At
<1>5. QED
    BY <1>1, <1>2, <1>3, <1>4, StepKinds

\* IInv is an invariant.
THEOREM Safe == SignInSpec => []IInv
<1>1. SignInInit /\ SignInTypeOK => IInv
  <2> SUFFICES ASSUME SignInInit, SignInTypeOK PROVE IInv
      OBVIOUS
  <2>1. PICK j \in Jobs :
          job = [i \in Jobs |-> IF i = j THEN Job("init", "org", {}) ELSE Idle]
      BY DEF SignInInit
  <2>2. job[j].at = "org"
      BY <2>1 DEF Job
  <2>3. QED
      BY <2>2 DEF SignInInit, IInv, NoOneWaitsSignedIn, DeafOnlyInSession, StatusMatchesTenants
<1>2. QED
    BY <1>1, Inductive, TypeCorrect, PTL DEF SignInSpec

\* No caller waits for a sign-in that has succeeded, however many callers and updates overlap.
THEOREM WaitersReleased == SignInSpec => []NoOneWaitsSignedIn
PROOF BY Safe, PTL DEF IInv

\* handleSessionChanges is cleared only while a session is being got.
THEOREM ChangesHeard == SignInSpec => []DeafOnlyInSession
PROOF BY Safe, PTL DEF IInv

\* The status and the list of tenants agree.
THEOREM StatusAgrees == SignInSpec => []StatusMatchesTenants
PROOF BY Safe, PTL DEF IInv

\* Updates and the setter never select a tenant outside the list: only a pick made for
\* getAuthSession, from a list replaced meanwhile, does.
THEOREM StaleOnlyByPick == SignInSpec => OnlyPicksGoStale
<1> DEFINE Fresh == selected \in tenants \cup {Nil}
           PickedLate == \E j \in Jobs : At(j, "picking") /\ job'[j].at = "session"
<1>1. ASSUME SignInTypeOK, [SignInNext]_signInVars, Fresh PROVE Fresh' \/ PickedLate
  <2> USE <1>1
  <2>1. ASSUME NEW j \in Jobs, TenantsListed(j) PROVE Fresh'
      BY <2>1 DEF TenantsListed, Keeps, Update
  <2>2. ASSUME NEW j \in Jobs, OrgSessionMissing(j) \/ ProbesDone(j) PROVE Fresh'
      BY <2>2 DEF OrgSessionMissing, ProbesDone, ProbeResults, Update
  <2>3. ASSUME NEW j \in Jobs, TenantPicked(j) PROVE PickedLate
      BY <2>3, GoMoves DEF TenantPicked
  <2>4. ASSUME NEW j \in Jobs, BeginSession(j) PROVE Fresh'
      BY <2>4 DEF BeginSession
  <2>5. ASSUME NEW j \in Jobs, SelectTenant(j) \/ TenantChosen(j) PROVE Fresh'
      BY <2>5 DEF SelectTenant, TenantChosen, Settable
  <2>6. ASSUME UNCHANGED <<tenants, selected>> PROVE Fresh'
      BY <2>6
  <2>7. QED
      BY <2>1, <2>2, <2>3, <2>4, <2>5, <2>6
      DEF SignInNext, Resume, Command, AccountChanges, SessionsChanged, OrgSessionFound, ProbeTenants,
          ProbeAnswered, BeginSignIn, NotSignedIn, AskForTenant, NoTenantPicked, SessionEnds,
          SignIn, GetReady, GetToken, signInVars, provider
<1>2. SignInTypeOK /\ [SignInNext]_signInVars =>
        [(selected' \notin tenants' \cup {Nil}) /\ (selected \in tenants \cup {Nil}) =>
            \E j \in Jobs : At(j, "picking") /\ job'[j].at = "session"]_signInVars
    BY <1>1
<1>3. QED
    BY <1>2, TypeCorrect, PTL DEF SignInSpec, OnlyPicksGoStale

=============================================================================
