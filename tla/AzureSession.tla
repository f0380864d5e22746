------------------------------ MODULE AzureSession ------------------------------
(***************************************************************************)
(* The sign-in state machine of auth/azureSessionProvider.ts and the       *)
(* callers that drive it: AzureSessionProviderImpl, getReadySessionProvider *)
(* and the selectTenant command.                                           *)
(*                                                                         *)
(* Every call is a job; a job runs to its next await in one step, and the  *)
(* jobs interleave there.  They share the provider's fields and the flag   *)
(* handleSessionChanges.  VS Code keeps the account that getSession        *)
(* returns, and reports its changes.                                       *)
(***************************************************************************)
EXTENDS Naturals

CONSTANTS
    Jobs,       \* calls that may be under way at once
    Accounts,   \* accounts the user may sign in with
    Tenants,
    Sees,       \* account -> the tenants it may list
    MaxEvents,  \* bound on the reports of VS Code under way
    Nil

ASSUME SeesAssumption == Sees \in [Accounts -> SUBSET Tenants]
ASSUME EventsAssumption == MaxEvents \in Nat
ASSUME FreshNone == Nil \notin Tenants /\ Nil \notin Accounts

VARIABLES
    status,    \* signInStatusValue
    tenants,
    selected,  \* selectedTenantValue
    handling,  \* handleSessionChanges
    ready,     \* initializePromise is resolved
    job,       \* job -> what it does, where it is and what it holds across its await
    account,   \* VS Code: the account a silent getSession finds
    events     \* VS Code: changes not yet reported to this extension

provider == <<status, tenants, selected>>
signInVars == <<provider, handling, ready, job, account, events>>

JobKinds == {"init", "event", "signIn", "ready", "choose"}
Places == {"signingIn", "org", "listing", "probing", "waiting", "entering", "picking",
           "choosing", "session"}

Idle == [kind |-> "none", at |-> "idle", seen |-> {}, changed |-> FALSE]

\* A job of kind k that has got to p with the tenants s in hand.
Job(k, p, s) == [kind |-> k, at |-> p, seen |-> s, changed |-> FALSE]

IsIdle(j) == job[j].at = "idle"
At(j, p) == job[j].at = p

\* AuthScenario.SignIn: the sign-in command, and getReadySessionProvider through signIn.
Interactive(j) == job[j].kind \in {"signIn", "ready"}

SignInTypeOK ==
    /\ status \in {"Initializing", "SigningIn", "SignedIn", "SignedOut"}
    /\ tenants \in SUBSET Tenants
    /\ selected \in Tenants \cup {Nil}
    /\ handling \in BOOLEAN
    /\ ready \in BOOLEAN
    /\ job \in [Jobs -> [kind : JobKinds \cup {"none"}, at : Places \cup {"idle"},
                         seen : SUBSET Tenants, changed : BOOLEAN]]
    /\ account \in Accounts \cup {Nil}
    /\ events \in 0 .. MaxEvents

\* The constructor has called initialize, which waits for the organizations session.
SignInInit ==
    /\ status = "Initializing"
    /\ tenants = {}
    /\ selected = Nil
    /\ handling = FALSE
    /\ ready = FALSE
    /\ \E j \in Jobs : job = [i \in Jobs |-> IF i = j THEN Job("init", "org", {}) ELSE Idle]
    /\ account \in Accounts \cup {Nil}
    /\ events = 0

Go(j, k, p, s) == job' = [job EXCEPT ![j] = Job(k, p, s)]
Finished(j) == job' = [job EXCEPT ![j] = Idle]

-----------------------------------------------------------------------------
(* VS Code                                                                  *)

\* An account was added or chosen: there may be a change to report.
MayReport == events' \in {n \in {events, events + 1} : n <= MaxEvents}

\* The user signs in or out in the Accounts menu, or in another window.
AccountChanges ==
    /\ events < MaxEvents
    /\ account' \in (Accounts \cup {Nil}) \ {account}
    /\ events' = events + 1
    /\ UNCHANGED <<provider, handling, ready, job>>

\* onDidChangeSessions: dropped while a getArmSession is thought to be under way.
SessionsChanged(j) ==
    /\ events > 0 /\ IsIdle(j)
    /\ events' = events - 1
    /\ IF handling
       THEN /\ handling' = FALSE
            /\ Go(j, "event", "org", {})
       ELSE UNCHANGED <<handling, job>>
    /\ UNCHANGED <<provider, ready, account>>

-----------------------------------------------------------------------------
(* signInAndUpdateTenants                                                   *)

\* A job that has updated the provider is done, unless it was to get a session.
AfterUpdate(j) == IF job[j].kind = "ready" THEN Job("ready", "entering", {}) ELSE Idle

\* Mutant of Fires: an event only when the tenants or the selection changed.
FiresOnTenants(st, changed, sel) == changed \/ sel # selected

Fires(st, changed, sel) == st # status \/ changed \/ sel # selected

\* Mutant of StatusOf: the list that is being replaced is looked at.
StatusOfOld(new) == IF tenants # {} THEN "SignedIn" ELSE "SignedOut"

StatusOf(new) == IF new # {} THEN "SignedIn" ELSE "SignedOut"

\* The update: the three fields at once, and an event that releases waitForSignIn.
Update(j, new, changed, sel) ==
    LET st == StatusOf(new) IN
    /\ tenants' = new
    /\ selected' = sel
    /\ status' = st
    /\ job' = [i \in Jobs |->
                  IF i = j THEN AfterUpdate(j)
                  ELSE IF At(i, "waiting") /\ st = "SignedIn" /\ Fires(st, changed, sel)
                  THEN Job("ready", "entering", {})
                  ELSE job[i]]
    /\ ready' = (ready \/ job[j].kind = "init")

\* The organizations session, silently or from the user, or none.
OrgSessionFound(j) ==
    /\ At(j, "org")
    /\ handling' = TRUE
    /\ \/ ~Interactive(j) /\ account # Nil /\ UNCHANGED <<account, events>>
       \/ Interactive(j) /\ account' \in Accounts /\ MayReport
    /\ Go(j, job[j].kind, "listing", Sees[account'])
    /\ UNCHANGED <<provider, ready>>

\* Mutant of OrgSessionMissing: it returns without going through the finally block.
OrgSessionMissingEarly(j) ==
    /\ At(j, "org")
    /\ UNCHANGED handling
    /\ Update(j, {}, tenants # {}, Nil)
    /\ UNCHANGED <<account, events>>

\* Mutant of OrgSessionMissing: a failed sign-in leaves the fields as they were.
OrgSessionMissingReturns(j) ==
    /\ At(j, "org")
    /\ handling' = TRUE
    /\ Finished(j)
    /\ ready' = (ready \/ job[j].kind = "init")
    /\ UNCHANGED <<provider, account, events>>

OrgSessionMissing(j) ==
    /\ At(j, "org")
    /\ handling' = TRUE
    /\ Update(j, {}, tenants # {}, Nil)
    /\ UNCHANGED <<account, events>>

\* The current selection is retained when it is still valid.
Keeps(j, new) == ~Interactive(j) /\ selected \in new

Single(new) == \E t \in new : new = {t}

\* The tenants of the session are listed, or cannot be, and the selection is decided now...
TenantsListed(j) ==
    /\ At(j, "listing")
    /\ \E new \in {job[j].seen, {}} :
          \/ /\ Keeps(j, new)
             /\ Update(j, new, new # tenants, selected)
          \/ /\ ~Keeps(j, new)
             /\ \E t \in new : new = {t} /\ Update(j, new, new # tenants, t)
          \/ /\ ~Keeps(j, new) /\ ~Single(new)
             /\ new = {} \/ Interactive(j)
             /\ Update(j, new, new # tenants, Nil)
    /\ UNCHANGED <<handling, account, events>>

\* ... or after a silent session was tried for each of them.
ProbeTenants(j) ==
    LET new == job[j].seen IN
    /\ At(j, "listing")
    /\ ~Interactive(j) /\ ~Keeps(j, new) /\ new # {} /\ ~Single(new)
    /\ handling' = FALSE
    /\ job' = [job EXCEPT ![j].at = "probing", ![j].changed = new # tenants]
    /\ UNCHANGED <<provider, ready, account, events>>

\* The first of these getArmSession calls to end sets the flag for all of them.
ProbeAnswered(j) ==
    /\ At(j, "probing") /\ ~handling
    /\ handling' = TRUE
    /\ UNCHANGED <<provider, ready, job, account, events>>

\* The one tenant with a session, if there is one.
ProbeResults(j) == job[j].seen \cup {Nil}

ProbesDone(j) ==
    /\ At(j, "probing")
    /\ handling' = TRUE
    /\ \E sel \in ProbeResults(j) : Update(j, job[j].seen, job[j].changed, sel)
    /\ UNCHANGED <<account, events>>

-----------------------------------------------------------------------------
(* signIn and getReadySessionProvider                                       *)

SignIn(j) ==
    /\ IsIdle(j)
    /\ Go(j, "signIn", "signingIn", {})
    /\ UNCHANGED <<provider, handling, ready, account, events>>

\* initializePromise is resolved; the prompt is up.
BeginSignIn(j) ==
    /\ At(j, "signingIn") /\ ready
    /\ status' = "SigningIn"
    /\ handling' = FALSE
    /\ Go(j, job[j].kind, "org", {})
    /\ UNCHANGED <<tenants, selected, ready, account, events>>

\* A command asks for a ready provider, and is not served at once.
GetReady(j) ==
    /\ IsIdle(j)
    /\ \/ status \in {"Initializing", "SigningIn"} /\ Go(j, "ready", "waiting", {})
       \/ status = "SignedOut" /\ Go(j, "ready", "signingIn", {})
       \/ status = "SignedIn" /\ selected = Nil /\ Go(j, "ready", "entering", {})
    /\ UNCHANGED <<provider, handling, ready, account, events>>

-----------------------------------------------------------------------------
(* getAuthSession                                                           *)

\* A credential of a ready provider asks for a token.
GetToken(j) ==
    /\ IsIdle(j) /\ status = "SignedIn" /\ selected # Nil
    /\ Go(j, "ready", "entering", {})
    /\ UNCHANGED <<provider, handling, ready, account, events>>

NotSignedIn(j) ==
    /\ At(j, "entering") /\ ready /\ status # "SignedIn"
    /\ Finished(j)
    /\ UNCHANGED <<provider, handling, ready, account, events>>

AskForTenant(j) ==
    /\ At(j, "entering") /\ ready /\ status = "SignedIn"
    /\ selected = Nil /\ ~Single(tenants)
    /\ Go(j, "ready", "picking", tenants)
    /\ UNCHANGED <<provider, handling, ready, account, events>>

\* The getArmSession of the tenant that is selected by now.
BeginSession(j) ==
    /\ At(j, "entering") /\ ready /\ status = "SignedIn"
    /\ \/ selected # Nil /\ UNCHANGED selected
       \/ selected = Nil /\ \E t \in tenants : tenants = {t} /\ selected' = t
    /\ handling' = FALSE
    /\ Go(j, "ready", "session", {})
    /\ UNCHANGED <<status, tenants, ready, account, events>>

\* quickPickTenant: the answer is stored as it is, or there is none.
TenantPicked(j) ==
    /\ At(j, "picking")
    /\ \E t \in job[j].seen : selected' = t
    /\ handling' = FALSE
    /\ Go(j, "ready", "session", {})
    /\ UNCHANGED <<status, tenants, ready, account, events>>

NoTenantPicked(j) ==
    /\ At(j, "picking")
    /\ Finished(j)
    /\ UNCHANGED <<provider, handling, ready, account, events>>

\* A session, silently or from the user, who may sign in for it; or a failure.
SessionEnds(j) ==
    /\ At(j, "session")
    /\ handling' = TRUE
    /\ \/ UNCHANGED <<account, events>>
       \/ account' \in Accounts /\ MayReport
    /\ Finished(j)
    /\ UNCHANGED <<provider, ready>>

-----------------------------------------------------------------------------
(* selectTenant                                                             *)

SelectTenant(j) ==
    /\ IsIdle(j) /\ status = "SignedIn"
    /\ \/ /\ \E t \in tenants : tenants = {t} /\ selected' = t
          /\ Go(j, "choose", "entering", {})
       \/ /\ ~Single(tenants)
          /\ Go(j, "choose", "choosing", tenants)
          /\ UNCHANGED selected
    /\ UNCHANGED <<status, tenants, handling, ready, account, events>>

\* The setter's check of the tenant against the list as it is now.
Settable(t) == t \in tenants

TenantChosen(j) ==
    /\ At(j, "choosing")
    /\ \/ \E t \in job[j].seen : Settable(t) /\ selected' = t
       \/ UNCHANGED selected
    /\ Finished(j)
    /\ UNCHANGED <<status, tenants, handling, ready, account, events>>

-----------------------------------------------------------------------------
(* Specification                                                            *)

\* A job that is under way goes on.
Resume(j) ==
    \/ OrgSessionFound(j) \/ OrgSessionMissing(j)
    \/ TenantsListed(j) \/ ProbeTenants(j) \/ ProbeAnswered(j) \/ ProbesDone(j)
    \/ BeginSignIn(j)
    \/ NotSignedIn(j) \/ AskForTenant(j) \/ BeginSession(j)
    \/ TenantPicked(j) \/ NoTenantPicked(j) \/ SessionEnds(j)
    \/ TenantChosen(j)

Command(j) == SignIn(j) \/ GetReady(j) \/ GetToken(j) \/ SelectTenant(j)

SignInNext == AccountChanges \/ \E j \in Jobs : SessionsChanged(j) \/ Resume(j) \/ Command(j)

SignInSpec == SignInInit /\ [][SignInNext]_signInVars

\* Requests and prompts are answered in the end.
SignInFairness == \A j \in Jobs : WF_signInVars(Resume(j))

-----------------------------------------------------------------------------
(* Properties                                                               *)

\* No caller of getReadySessionProvider is left waiting for a sign-in that has succeeded:
\* every way to "SignedIn" fires the event it listens to (waitForSignIn).
NoOneWaitsSignedIn == status = "SignedIn" => \A j \in Jobs : ~At(j, "waiting")

\* Changes of account are heard whenever no session is being got: however the calls of
\* getArmSession overlap and fail, the last one leaves handleSessionChanges set.
DeafOnlyInSession ==
    ~handling => \E j \in Jobs : job[j].at \in {"org", "probing", "session"}

\* A provider that says it is signed in has tenants, so that getAuthSession has something to
\* select from, and one that is signed out lists none; it may still have one selected, by a
\* pick that was under way.
StatusMatchesTenants ==
    /\ status = "SignedIn" => tenants # {}
    /\ status = "SignedOut" => tenants = {}

\* The selection leaves the list of tenants in one way only: a tenant picked for
\* getAuthSession after the list was replaced.  Updates and the setter check it.
OnlyPicksGoStale ==
    [][(selected' \notin tenants' \cup {Nil}) /\ (selected \in tenants \cup {Nil}) =>
          \E j \in Jobs : At(j, "picking") /\ job'[j].at = "session"]_signInVars

\* A sign-in comes to an end, with a session or without.
SignInSettles == (status = "SigningIn") ~> (status # "SigningIn")
=============================================================================
