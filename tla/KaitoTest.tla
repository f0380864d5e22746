-------------------------------- MODULE KaitoTest --------------------------------
(***************************************************************************)
(* Testing a model: every prompt that the page submits runs curl in a pod  *)
(* of its own, reads the pod's log and deletes the pod.  A query that is   *)
(* under way refuses others, from the moment when its progress is shown,   *)
(* which comes later than the check.  A kubectl command may fail; what     *)
(* throws is the parsing of an answer.                                     *)
(***************************************************************************)
EXTENDS FiniteSets

CONSTANT Queries     \* the queries that may run at once

ASSUME QueriesAssumption == IsFiniteSet(Queries)

VARIABLES
    query,               \* where each query is
    isQueryInProgress,
    curlPods,            \* the pods that were created and not deleted
    undeleted            \* whether the deletion of one has failed

queryVars == <<query, isQueryInProgress, curlPods, undeleted>>

Idle(q) == query[q] = "none"
QueryGoes(q, from, to) == query[q] = from /\ query' = [query EXCEPT ![q] = to]
Ends == isQueryInProgress' = FALSE

handleSubmitPrompt ==
    /\ ~isQueryInProgress
    /\ \E q \in Queries : QueryGoes(q, "none", "shown")
    /\ UNCHANGED <<isQueryInProgress, curlPods, undeleted>>

\* longRunning has started its task.
StartsQuery(q) ==
    /\ QueryGoes(q, "shown", "address")
    /\ isQueryInProgress' = TRUE
    /\ UNCHANGED <<curlPods, undeleted>>

\* Mutant: a model without an address leaves the query in progress.
GivesUpSilently(q) ==
    /\ \/ QueryGoes(q, "address", "create")
       \/ QueryGoes(q, "address", "none")
    /\ UNCHANGED <<isQueryInProgress, curlPods, undeleted>>

getClusterIP(q) ==
    /\ \/ QueryGoes(q, "address", "create") /\ UNCHANGED isQueryInProgress
       \/ QueryGoes(q, "address", "none") /\ Ends
    /\ UNCHANGED <<curlPods, undeleted>>

\* The answer of the command that creates the pod is not looked at.
createCurlPod(q) ==
    /\ QueryGoes(q, "create", "logs")
    /\ \E pods \in {curlPods, curlPods \cup {q}} : curlPods' = pods
    /\ UNCHANGED <<isQueryInProgress, undeleted>>

\* Whether the log is there or not, or is not an answer, the pod is deleted.
getCurlPodLogs(q) ==
    /\ QueryGoes(q, "logs", "delete")
    /\ UNCHANGED <<isQueryInProgress, curlPods, undeleted>>

\* A second query's end is the end of both, as far as the page is concerned.
deleteCurlPod(q) ==
    /\ QueryGoes(q, "delete", "none")
    /\ \/ curlPods' = curlPods \ {q} /\ UNCHANGED undeleted
       \/ q \in curlPods /\ undeleted' = TRUE /\ UNCHANGED curlPods
    /\ Ends

handleQueryRequest(q) == \/ StartsQuery(q) \/ getClusterIP(q) \/ createCurlPod(q)
                         \/ getCurlPodLogs(q) \/ deleteCurlPod(q)

QueryInit == /\ query = [q \in Queries |-> "none"]
             /\ isQueryInProgress = FALSE
             /\ curlPods = {}
             /\ undeleted = FALSE

QueryNext == handleSubmitPrompt \/ \E q \in Queries : handleQueryRequest(q)

QuerySpec == QueryInit /\ [][QueryNext]_queryVars

-----------------------------------------------------------------------------
\* When every query has come to its end the page takes prompts again, and no pod of
\* theirs is left in the cluster unless its deletion failed: also when two prompts
\* were submitted before the first of them was seen to be in progress.
QueriesCleanUp ==
    (\A q \in Queries : Idle(q)) => ~isQueryInProgress /\ (undeleted \/ curlPods = {})
=============================================================================
