------------------------------- MODULE AttachAcr -------------------------------
(***************************************************************************)
(* The panel that attaches a container registry to a cluster.  Its page    *)
(* loads what it needs when it needs it: subscriptions, the registries and *)
(* the clusters of the selected subscription, and whether the selected     *)
(* cluster may pull from the selected registry.  Whatever is NotLoaded     *)
(* when the page renders is asked for once and marked Loading.  The panel  *)
(* answers each request in its own time, so that an answer may arrive when *)
(* the user has selected something else.                                   *)
(*                                                                         *)
(* A registry or a cluster stands for its key; HomeOf gives the            *)
(* subscription and the resource group of that key.  Azure is external: a  *)
(* role assignment is a principal and a scope, the scope a registry or the *)
(* resource group that holds it.                                           *)
(***************************************************************************)
EXTENDS Naturals, FiniteSets

CONSTANTS Subscriptions, Acrs, Clusters, Groups, Principals,
          HomeOf,       \* of a registry or a cluster: [sub |-> , group |-> ]
          Worlds,       \* the identities the clusters may have, what these may
                        \* hold on the groups, and what the page may open with
          MaxHandled,   \* the user waits while so many requests are handled
          Unset

ASSUME HomesAssumption ==
    HomeOf \in [Acrs \cup Clusters -> [sub : Subscriptions, group : Groups]]
\* No registry is a resource group.
ASSUME ScopesAssumption == Acrs \cap (Subscriptions \X Groups) = {}
ASSUME WorldsAssumption ==
    Worlds \subseteq [principalOf : [Clusters -> Principals],
                      inherited : SUBSET (Principals \X (Subscriptions \X Groups)),
                      opening : [sub : Subscriptions \cup {Unset},
                                 acrGroup : Groups \cup {Unset}, acr : Acrs \cup {Unset},
                                 clusterGroup : Groups \cup {Unset},
                                 cluster : Clusters \cup {Unset}]]

VARIABLES
    form,        \* the page: reference data, selections, and whether it threw
    requests,    \* the requests the panel is handling
    assigned,    \* Azure: the AcrPull assignments, <<principal, scope>>
    world        \* Azure: the identities, and the assignments on groups at the start

attachVars == <<form, requests, assigned, world>>

Pairs == Acrs \X Clusters
NotLoaded == [is |-> "notLoaded", value |-> {}]
Loading == [is |-> "loading", value |-> {}]
Loaded(items) == [is |-> "loaded", value |-> items]
Of(s, items) == {i \in items : HomeOf[i].sub = s}
GroupOf(i) == HomeOf[i].group
ScopeOf(i) == <<HomeOf[i].sub, HomeOf[i].group>>

(***************************************************************************)
(* What a render needs: the requests posted, and the data marked Loading   *)
(* by the effect that follows it.                                          *)
(***************************************************************************)
FirstStep(op) == CASE op \in {"subs", "acrs", "clusters"} -> "lookUp"
                   [] op \in {"create", "delete"} -> "change"
                   [] op = "role" -> "list"
Request(op, on) == [op |-> op, on |-> on, step |-> FirstStep(op), found |-> {}]

SubKnown(f) == f.subs.is = "loaded" /\ f.sel.sub # Unset
AcrKnown(f) == SubKnown(f) /\ f.acrs[f.sel.sub].is = "loaded" /\ f.sel.acr # Unset

NeedSubs(f) == f.subs.is = "notLoaded"
NeedAcrs(f) == SubKnown(f) /\ f.acrs[f.sel.sub].is = "notLoaded"
NeedClusters(f) == SubKnown(f) /\ f.clusters[f.sel.sub].is = "notLoaded"

\* getOrThrow: the selected registry has to be one of its subscription's.
FormThrows(f) == AcrKnown(f) /\ f.sel.acr \notin f.acrs[f.sel.sub].value

NeedRole(f) == /\ AcrKnown(f) /\ ~FormThrows(f)
               /\ f.sel.cluster # Unset
               /\ f.role[<<f.sel.acr, f.sel.cluster>>] = "notLoaded"

\* Updates of the reference data.
WithSubs(f, lazy) == [f EXCEPT !.subs = lazy]
WithAcrs(f, s, lazy) == [f EXCEPT !.acrs[s] = lazy]
WithClusters(f, s, lazy) == [f EXCEPT !.clusters[s] = lazy]
WithRole(f, p, role) == [f EXCEPT !.role[p] = role]

Asked(f) ==
    (IF NeedSubs(f) THEN {Request("subs", Unset)} ELSE {})
    \cup (IF NeedAcrs(f) THEN {Request("acrs", f.sel.sub)} ELSE {})
    \cup (IF NeedClusters(f) THEN {Request("clusters", f.sel.sub)} ELSE {})
    \cup (IF NeedRole(f) THEN {Request("role", <<f.sel.acr, f.sel.cluster>>)} ELSE {})

Marked(f) ==
    LET subs == IF NeedSubs(f) THEN WithSubs(f, Loading) ELSE f
        acrs == IF NeedAcrs(f) THEN WithAcrs(subs, f.sel.sub, Loading) ELSE subs
        clusters == IF NeedClusters(f) THEN WithClusters(acrs, f.sel.sub, Loading) ELSE acrs
    IN CASE FormThrows(f) -> [f EXCEPT !.threw = TRUE]
         [] NeedRole(f) -> WithRole(clusters, <<f.sel.acr, f.sel.cluster>>, "loading")
         [] OTHER -> clusters

\* The page takes on f and renders; others are the requests still handled.
RenderForm(f, others) == /\ form' = Marked(f)
                     /\ requests' = others \cup Asked(f)

-----------------------------------------------------------------------------
NothingSelected == [sub |-> Unset, acrGroup |-> Unset, acr |-> Unset,
                clusterGroup |-> Unset, cluster |-> Unset]

FirstForm ==
    [subs |-> NotLoaded,
     acrs |-> [s \in Subscriptions |-> NotLoaded],
     clusters |-> [s \in Subscriptions |-> NotLoaded],
     role |-> [p \in Pairs |-> "notLoaded"],
     sel |-> NothingSelected, pending |-> world.opening, threw |-> FALSE]

AttachInit == /\ world \in Worlds
        /\ assigned = world.inherited
        /\ form = Marked(FirstForm)
        /\ requests = Asked(FirstForm)

-----------------------------------------------------------------------------
(* The user.  A selector shows what is loaded; null deselects.             *)

Usable == ~form.threw /\ Cardinality(requests) < MaxHandled
InGroup(items, g) == {i \in items : GroupOf(i) = g}

Offers(lazy, items, i) == Usable /\ lazy.is = "loaded" /\ i \in items \cup {Unset}
AcrList == IF SubKnown(form) THEN form.acrs[form.sel.sub] ELSE NotLoaded
ClusterList == IF SubKnown(form) THEN form.clusters[form.sel.sub] ELSE NotLoaded

SelectSub(s) ==
    /\ Offers(form.subs, form.subs.value, s)
    /\ RenderForm([form EXCEPT !.pending.sub = Unset, !.sel = [NothingSelected EXCEPT !.sub = s]],
              requests)
    /\ UNCHANGED <<assigned, world>>

SelectAcrGroup(g) ==
    /\ Offers(AcrList, {GroupOf(a) : a \in AcrList.value}, g)
    /\ RenderForm([form EXCEPT !.pending.acrGroup = Unset,
                           !.sel.acrGroup = g, !.sel.acr = Unset], requests)
    /\ UNCHANGED <<assigned, world>>

SelectAcr(a) ==
    /\ Offers(AcrList, InGroup(AcrList.value, form.sel.acrGroup), a)
    /\ RenderForm([form EXCEPT !.pending.acr = Unset, !.sel.acr = a], requests)
    /\ UNCHANGED <<assigned, world>>

SelectClusterGroup(g) ==
    /\ Offers(ClusterList, {GroupOf(c) : c \in ClusterList.value}, g)
    /\ RenderForm([form EXCEPT !.pending.clusterGroup = Unset,
                           !.sel.clusterGroup = g, !.sel.cluster = Unset], requests)
    /\ UNCHANGED <<assigned, world>>

SelectCluster(c) ==
    /\ Offers(ClusterList, InGroup(ClusterList.value, form.sel.clusterGroup), c)
    /\ RenderForm([form EXCEPT !.pending.cluster = Unset, !.sel.cluster = c], requests)
    /\ UNCHANGED <<assigned, world>>

\* Attach and Detach are live only while the role of the pair is known.
Shown == <<form.sel.acr, form.sel.cluster>>
RoleShown(is) == /\ Usable /\ AcrKnown(form) /\ form.sel.cluster # Unset
                 /\ form.role[Shown] = is

ChangeUnmarked(op) == /\ RenderForm(form, requests \cup {Request(op, Shown)})
                      /\ UNCHANGED <<assigned, world>>

Change(op) == /\ RenderForm(WithRole(form, Shown, "loading"),
                        requests \cup {Request(op, Shown)})
              /\ UNCHANGED <<assigned, world>>

Attach == RoleShown("no") /\ Change("create")
Detach == RoleShown("yes") /\ Change("delete")

-----------------------------------------------------------------------------
(* The panel lists what it is asked for; what cannot be listed is an error *)
(* shown to the user and an empty list for the page.                       *)

OnlyOrPending(items, matching) ==
    CASE Cardinality(items) = 1 -> CHOOSE i \in items : TRUE
      [] Cardinality(items) # 1 /\ matching # {} -> CHOOSE i \in matching : TRUE
      [] OTHER -> Unset

\* The group is that of the only item, or the pending one if some item has it.
GroupFor(items, g) ==
    IF Cardinality(items) = 1 THEN GroupOf(CHOOSE i \in items : TRUE)
    ELSE IF \E i \in items : GroupOf(i) = g THEN g ELSE Unset

ListOf(r) == CASE r.op = "subs" -> Subscriptions
               [] r.op = "acrs" -> Of(r.on, Acrs)
               [] r.op = "clusters" -> Of(r.on, Clusters)

SubsAnswered(f, items) ==
    [WithSubs(f, Loaded(items)) EXCEPT
              !.sel = [NothingSelected EXCEPT
                         !.sub = OnlyOrPending(items, items \cap {f.pending.sub})]]

AcrsAnswered(f, s, items) ==
    [WithAcrs(f, s, Loaded(items)) EXCEPT
              !.sel.acrGroup = GroupFor(items, f.pending.acrGroup),
              !.sel.acr = OnlyOrPending(items, InGroup(items, f.pending.acrGroup)
                                                \cap {f.pending.acr})]

ClustersAnswered(f, s, items) ==
    [WithClusters(f, s, Loaded(items)) EXCEPT
              !.sel.clusterGroup = GroupFor(items, f.pending.clusterGroup),
              !.sel.cluster = OnlyOrPending(items, InGroup(items, f.pending.clusterGroup)
                                                    \cap {f.pending.cluster})]

ListAnswered(r, items) ==
    CASE r.op = "subs" -> SubsAnswered(form, items)
      [] r.op = "acrs" -> AcrsAnswered(form, r.on, items)
      [] r.op = "clusters" -> ClustersAnswered(form, r.on, items)

\* A page that threw has unmounted: what the panel posts is not rendered.
Deliver(r, f) == IF form.threw THEN form' = form /\ requests' = requests \ {r}
                 ELSE RenderForm(f, requests \ {r})

AnswerListUnlessFailed(r) ==
    /\ r.op \in {"subs", "acrs", "clusters"}
    /\ \/ Deliver(r, ListAnswered(r, ListOf(r)))
       \/ form' = form /\ requests' = requests \ {r}
    /\ UNCHANGED <<assigned, world>>

AnswerList(r) ==
    /\ r.op \in {"subs", "acrs", "clusters"}
    /\ \E items \in {ListOf(r), {}} : Deliver(r, ListAnswered(r, items))
    /\ UNCHANGED <<assigned, world>>

-----------------------------------------------------------------------------
(* The panel finds the identity of the cluster, changes its assignments    *)
(* if asked to, lists what it then holds and answers.                      *)

Principal(r) == world.principalOf[r.on[2]]
Applying(r) == {x \in assigned : /\ x[1] = Principal(r)
                                 /\ x[2] \in {r.on[1], ScopeOf(r.on[1])}}
Advance(r, step, found) ==
    requests' = (requests \ {r}) \cup {[r EXCEPT !.step = step, !.found = found]}

\* getClusterPrincipalId comes first; its failure answers nothing.
NoPrincipal(r) ==
    /\ r.op \in {"role", "create", "delete"} /\ r.step = FirstStep(r.op)
    /\ requests' = requests \ {r}
    /\ UNCHANGED <<form, assigned, world>>

\* An assignment that exists already is as good as a new one.
CreateAssignment(r) ==
    /\ r.op = "create" /\ r.step = "change"
    /\ \/ assigned' = assigned \cup {<<Principal(r), r.on[1]>>}
       \/ assigned' = assigned      \* refused: the error is shown
    /\ Advance(r, "list", {})
    /\ UNCHANGED <<form, world>>

\* deleteRoleAssignment lists the assignments that apply to the registry,
\* inherited ones included, ...
FindAssignment(r) ==
    /\ r.op = "delete" /\ r.step = "change"
    /\ IF Applying(r) = {}
       THEN Advance(r, "list", {})
       ELSE \/ \E x \in Applying(r) : Advance(r, "delete", {x})
            \/ Advance(r, "list", {})     \* could not list them
    /\ UNCHANGED <<form, assigned, world>>

\* ... and deletes the first that is AcrPull for the principal.
DeleteAssignment(r) ==
    /\ r.op = "delete" /\ r.step = "delete"
    /\ \/ assigned' = assigned \ r.found
       \/ assigned' = assigned
    /\ Advance(r, "list", {})
    /\ UNCHANGED <<form, world>>

\* getPrincipalRoleAssignmentsForAcr; nothing is found when it fails.
ListAssignments(r) ==
    /\ r.step = "list"
    /\ \E found \in {Applying(r), {}} : Advance(r, "answer", found)
    /\ UNCHANGED <<form, assigned, world>>

HasAcrPullAsAsked(r) == r.op = "create" \/ r.found # {}
HasAcrPull(r) == r.found # {}

AnswerRole(r) ==
    /\ r.step = "answer"
    /\ Deliver(r, WithRole(form, r.on, IF HasAcrPull(r) THEN "yes" ELSE "no"))
    /\ UNCHANGED <<assigned, world>>

Handle(r) == \/ AnswerList(r) \/ NoPrincipal(r) \/ CreateAssignment(r)
             \/ FindAssignment(r) \/ DeleteAssignment(r) \/ ListAssignments(r)
             \/ AnswerRole(r)

Select == \/ \E s \in Subscriptions \cup {Unset} : SelectSub(s)
          \/ \E g \in Groups \cup {Unset} : SelectAcrGroup(g)
          \/ \E a \in Acrs \cup {Unset} : SelectAcr(a)
          \/ \E g \in Groups \cup {Unset} : SelectClusterGroup(g)
          \/ \E c \in Clusters \cup {Unset} : SelectCluster(c)

AttachNext == \/ Select
        \/ Attach
        \/ Detach
        \/ \E r \in requests : Handle(r)

\* Azure answers, one way or the other: no handler waits for ever.
Ops == {"subs", "acrs", "clusters", "role", "create", "delete"}
HandleFor(op, on) == \E r \in requests : r.op = op /\ r.on = on /\ Handle(r)

Fairness == /\ WF_attachVars(HandleFor("subs", Unset))
            /\ \A s \in Subscriptions :
                  /\ WF_attachVars(HandleFor("acrs", s))
                  /\ WF_attachVars(HandleFor("clusters", s))

AttachSpec == AttachInit /\ [][AttachNext]_attachVars /\ Fairness

-----------------------------------------------------------------------------
\* The variables have their types.
AttachTypeOK ==
    /\ form.subs.is \in {"notLoaded", "loading", "loaded"}
    /\ form.role \in [Pairs -> {"notLoaded", "loading", "yes", "no"}]
    /\ \A r \in requests : /\ r.op \in Ops
                           /\ r.step \in {"lookUp", "change", "delete", "list", "answer"}
    /\ assigned \subseteq Principals \X (Acrs \cup Subscriptions \X Groups)

\* Nothing is asked twice: of one list, and of one pair of a registry and a
\* cluster, the panel handles at most one request at a time, so that no two
\* of them can be answered in the wrong order.
About(r) == <<IF r.op \in {"role", "create", "delete"} THEN "role" ELSE r.op, r.on>>
OneRequestEach == \A q, r \in requests : About(q) = About(r) => q = r

\* A cluster the page shows as attached may pull from the registry, whatever
\* was attached and detached meanwhile, if no other cluster shares its identity
\* and it inherits nothing: these two let the change of one pair reach another.
Alone(c) ==
    LET p == world.principalOf[c] IN
    /\ \A d \in Clusters \ {c} : world.principalOf[d] # p
    /\ \A x \in world.inherited : x[1] # p
AttachedMayPull ==
    \A p \in Pairs :
        form.role[p] = "yes" /\ Alone(p[2]) => <<world.principalOf[p[2]], p[1]>> \in assigned

\* A list that is being loaded gets loaded, even if Azure refuses to list it:
\* the selectors come back, unless the page is gone.
ListsSettle ==
    \A s \in Subscriptions :
        /\ form.acrs[s].is = "loading" ~> (form.acrs[s].is = "loaded" \/ form.threw)
        /\ form.clusters[s].is = "loading" ~> (form.clusters[s].is = "loaded" \/ form.threw)
=============================================================================
