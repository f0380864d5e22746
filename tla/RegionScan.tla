------------------------------ MODULE RegionScan ------------------------------
(***************************************************************************)
(* The scan of a subscription (runSubscriptionScan in                      *)
(* panels/kickstartAzureBackend.ts) as the panel starts it: the status of  *)
(* the resource providers, then the regions, best first, probed through a  *)
(* window of concurrent workers until enough of them have cleared.         *)
(* A region clears when both its quota and its zones suffice; the two      *)
(* reads never throw, so a probe always ends with a verdict.               *)
(*                                                                         *)
(* A scan's code runs uninterrupted between two awaits: the worker window  *)
(* is filled and the race awaited in one step, and what follows the race,  *)
(* up to the next one, is another.  Starting a scan cancels the one before.*)
(***************************************************************************)
EXTENDS Naturals, Sequences, FiniteSets

CONSTANTS
    Subs,           \* subscriptions
    NRegions,       \* length of PREFERRED_REGION_ORDER
    Concurrency,    \* SCAN_CONCURRENCY
    MaxSuggested,   \* MAX_SUGGESTED_REGIONS
    MaxScans,       \* bound on the scans started
    NoChoice

ASSUME ScanAssumption ==
    /\ NRegions \in Nat \ {0} /\ Concurrency \in Nat \ {0} /\ MaxSuggested \in Nat \ {0}
    /\ MaxScans \in Nat
    /\ NoChoice \notin Nat /\ NoChoice \notin Subs

Regions == 1 .. NRegions     \* a region is its place in the order

Scans == 1 .. MaxScans

VARIABLES
    scans,          \* each scan: its place in the code and what scanWithConcurrencyUntil keeps
    scanToken,      \* the panel's scanToken: the scan it belongs to
    scanPosts       \* what the last step posted as subscriptionScanComplete

scanVars == <<scans, scanToken, scanPosts>>

Pcs == {"idle", "providers", "quota", "racing", "settling", "done", "cancelled"}

Scan == [pc : Pcs,
         sub : Subs \cup {NoChoice},
         cancelled : BOOLEAN,         \* its token
         next : Nat,                  \* nextIndex
         inFlight : SUBSET Regions,
         raced : SUBSET Regions,      \* inFlight as it was when the race was awaited
         indexed : SUBSET Regions,    \* ended probes not yet collected
         results : Seq(Regions),
         cleared : SUBSET Regions]    \* the regions whose result is "succeeded"

IdleScan == [pc |-> "idle", sub |-> NoChoice, cancelled |-> FALSE, next |-> 1, inFlight |-> {},
             raced |-> {}, indexed |-> {}, results |-> <<>>, cleared |-> {}]

\* A scan that is over: its locals are gone; probes still in flight end unheard.
Over(r, pc) == [IdleScan EXCEPT !.pc = pc, !.sub = r.sub, !.cancelled = r.cancelled]

ScanInit ==
    /\ scans = [s \in Scans |-> IdleScan]
    /\ scanToken = NoChoice
    /\ scanPosts = <<>>

Least(a, b) == IF a <= b THEN a ELSE b

-----------------------------------------------------------------------------
(* scanWithConcurrencyUntil                                                *)

\* collect: the loop over i = 0, 1, ... deletes what it takes, so once index 0 is gone it
\* takes nothing any more.
Collectable(r) == {i \in r.indexed : 1 .. i \subseteq r.indexed}

Collected(r) ==
    [r EXCEPT !.results = @ \o [i \in 1 .. Cardinality(Collectable(r)) |-> i],
              !.indexed = @ \ Collectable(r)]

Cleared(r) == SelectSeq(r.results, LAMBDA i : i \in r.cleared)

ShouldStop(r) == Len(Cleared(r)) >= MaxSuggested

\* The workers started by the inner loop.
Started(r) ==
    r.next .. Least(NRegions, r.next + (Concurrency - Cardinality(r.inFlight)) - 1)

\* The inner loop, up to the await of the race.
Filled(r) ==
    LET inFlight == r.inFlight \cup Started(r)
    IN  [r EXCEPT !.pc = "racing", !.next = @ + Cardinality(Started(r)),
                  !.inFlight = inFlight, !.raced = inFlight]

\* Mutant of Continued: the token is looked at only when the scan has ended.
ContinuedAnyway(r) ==
    IF ShouldStop(r) \/ (r.next > NRegions /\ r.inFlight = {})
    THEN [r EXCEPT !.pc = "settling"]
    ELSE Filled(r)

\* From the collect that follows the race to the next await.
Continued(r) ==
    IF r.cancelled
    THEN Over(r, "cancelled")
    ELSE IF ShouldStop(r) \/ (r.next > NRegions /\ r.inFlight = {})
         THEN [r EXCEPT !.pc = "settling"]
         ELSE Filled(r)

-----------------------------------------------------------------------------
(* The steps of a scan                                                     *)

Posted(m) == scanPosts' = m

\* handleStartSubscriptionScan.
StartScan(sub) ==
    \E s \in Scans :
        /\ scans[s].pc = "idle"
        /\ \A t \in Scans : t < s => scans[t].pc # "idle"
        /\ scans' = [t \in Scans |->
              CASE t = s -> [IdleScan EXCEPT !.pc = "providers", !.sub = sub]
                [] t = scanToken -> [scans[t] EXCEPT !.cancelled = TRUE]
                [] OTHER -> scans[t]]
        /\ scanToken' = s
        /\ Posted(<<>>)

\* getProviderRegistrationStatus answers, or fails: a warning unless the scan is cancelled.
ProvidersRead(s) ==
    /\ scans[s].pc = "providers"
    /\ \E ok \in BOOLEAN :
        scans' = [scans EXCEPT ![s] =
                    IF ~ok /\ @.cancelled THEN Over(@, "cancelled") ELSE [@ EXCEPT !.pc = "quota"]]
    /\ Posted(<<>>)
    /\ UNCHANGED scanToken

\* The first round of the loop.
FirstRound(s) ==
    /\ scans[s].pc = "quota"
    /\ scans' = [scans EXCEPT ![s] = Continued(@)]
    /\ Posted(<<>>)
    /\ UNCHANGED scanToken

\* A worker ends, also one of a scan that was cancelled.
ProbeEnds(s, i) ==
    /\ i \in scans[s].inFlight
    /\ \E clear \in BOOLEAN :
        scans' = [scans EXCEPT ![s].inFlight = @ \ {i},
                               ![s].indexed = @ \cup {i},
                               ![s].cleared = IF clear THEN @ \cup {i} ELSE @]
    /\ Posted(<<>>)
    /\ UNCHANGED scanToken

\* Promise.race resolves once a worker that it awaits has ended.
RaceWon(s) ==
    /\ scans[s].pc = "racing" /\ scans[s].inFlight # scans[s].raced
    /\ scans' = [scans EXCEPT ![s] = Continued(Collected(@))]
    /\ Posted(<<>>)
    /\ UNCHANGED scanToken

\* availableRegions and regionResults.
Suggested(r) ==
    LET available == Cleared(r)
        suggested == IF available # <<>> THEN available ELSE r.results
    IN  SubSeq(suggested, 1, Least(MaxSuggested, Len(suggested)))

Recommended(r) == IF Cleared(r) = <<>> THEN NoChoice ELSE Head(Cleared(r))

Answer(s, r) == [run |-> s, sub |-> r.sub, region |-> Recommended(r), chips |-> Suggested(r)]

\* Promise.allSettled, the last collect, and the answer unless the scan was cancelled.
ScanEnds(s) ==
    /\ scans[s].pc = "settling" /\ scans[s].inFlight = {}
    /\ LET r == Collected(scans[s])
       IN  /\ scans' = [scans EXCEPT ![s] =
                          Over(r, IF r.cancelled THEN "cancelled" ELSE "done")]
           /\ Posted(IF r.cancelled THEN <<>> ELSE <<Answer(s, r)>>)
    /\ UNCHANGED scanToken

ScanStep(s) ==
    \/ ProvidersRead(s)
    \/ FirstRound(s)
    \/ \E i \in Regions : ProbeEnds(s, i)
    \/ RaceWon(s)
    \/ ScanEnds(s)

ScanNext == (\E sub \in Subs : StartScan(sub)) \/ (\E s \in Scans : ScanStep(s))

ScanSpec == ScanInit /\ [][ScanNext]_scanVars

-----------------------------------------------------------------------------
(* Properties                                                              *)

ScanTypeOK ==
    /\ scans \in [Scans -> Scan]
    /\ scanToken \in Scans \cup {NoChoice}

\* A scan whose token is cancelled starts no further probe, and only the scan whose token
\* the panel holds answers.
CancelledScanStops ==
    [][\A s \in Scans :
        /\ scans[s].cancelled => scans'[s].next <= scans[s].next
        /\ scanPosts' # <<>> => scanPosts'[1].run = scanToken]_scanVars
=============================================================================
