---------------------------- MODULE LazyPagesProofs ----------------------------
(***************************************************************************)
(* The pages that load what they list when they need it, for every value   *)
(* of their constants.  The invariant of each relates what the page has    *)
(* marked, or asked for, to what is on its way and to what is selected, so *)
(* that answers may come in any order between the selections.              *)
(*                                                                         *)
(* A render is a function of the page: what holds of a page that was just  *)
(* changed is stated of any page, and RenderOK and Renders say that a      *)
(* render keeps it.                                                        *)
(***************************************************************************)
EXTENDS Draft, AttachAcr, FiniteSetTheorems, SequenceTheorems, TLAPS

-----------------------------------------------------------------------------
(* Attaching a registry to a cluster                                       *)

Selections == [sub : Subscriptions \cup {Unset},
               acrGroup : Groups \cup {Unset}, acr : Acrs \cup {Unset},
               clusterGroup : Groups \cup {Unset}, cluster : Clusters \cup {Unset}]
Lazy(items) == [is : {"notLoaded", "loading", "loaded"}, value : SUBSET items]
Forms == [subs : Lazy(Subscriptions), acrs : [Subscriptions -> Lazy(Acrs)],
          clusters : [Subscriptions -> Lazy(Clusters)],
          role : [Pairs -> {"notLoaded", "loading", "yes", "no"}],
          sel : Selections, pending : Selections, threw : BOOLEAN]

RoleOps == {"role", "create", "delete"}
Assignments == Principals \X (Acrs \cup (Subscriptions \X Groups))
Requests ==
    {r \in [op : Ops, on : {Unset} \cup Subscriptions \cup Pairs,
            step : {"lookUp", "change", "delete", "list", "answer"}, found : SUBSET Assignments] :
        /\ r.op = "subs" => r.on = Unset
        /\ r.op \in {"acrs", "clusters"} => r.on \in Subscriptions
        /\ r.op \in RoleOps => r.on \in Pairs /\ r.step # "lookUp"
        /\ r.op \notin RoleOps => r.step = "lookUp"}

(* What is asked for is marked on the page.                                *)
ListMarked(f, r) ==
    /\ r.op = "subs" => f.subs.is = "loading"
    /\ r.op = "acrs" => f.acrs[r.on].is = "loading"
    /\ r.op = "clusters" => f.clusters[r.on].is = "loading"
RoleMarked(f, r) == r.op \in RoleOps => f.role[r.on] = "loading"
OneEach(rs) == \A q, r \in rs : About(q) = About(r) => q = r

(* What a handler found.                                                   *)
HasRole(p) == <<world.principalOf[p[2]], p[1]>> \in assigned
FoundOK(r) ==
    r.op \in RoleOps =>
        /\ r.step = "delete" =>
            \A x \in r.found : x[1] = Principal(r) /\ x[2] \in {r.on[1], ScopeOf(r.on[1])}
        /\ r.step = "answer" /\ r.found # {} /\ Alone(r.on[2]) => HasRole(r.on)

AttachInv ==
    /\ world \in Worlds
    /\ form \in Forms /\ requests \in SUBSET Requests /\ assigned \in SUBSET Assignments
    /\ OneEach(requests)
    /\ \A r \in requests : RoleMarked(form, r) /\ (form.threw \/ ListMarked(form, r)) /\ FoundOK(r)
    /\ \A x \in assigned : x[2] \in Subscriptions \X Groups => x \in world.inherited
    /\ AttachedMayPull

-----------------------------------------------------------------------------
(* What a render marks as loading: nothing, if the form throws.            *)
LEMMA Marks ==
    ASSUME NEW f \in Forms
    PROVE  /\ Marked(f) \in Forms
           /\ Marked(f).threw = (f.threw \/ FormThrows(f))
           /\ FormThrows(f) =>
                /\ Marked(f).subs = f.subs /\ Marked(f).acrs = f.acrs
                /\ Marked(f).clusters = f.clusters /\ Marked(f).role = f.role
           /\ ~FormThrows(f) =>
                /\ Marked(f).subs = IF NeedSubs(f) THEN Loading ELSE f.subs
                /\ Marked(f).acrs =
                     IF NeedAcrs(f) THEN [f.acrs EXCEPT ![f.sel.sub] = Loading] ELSE f.acrs
                /\ Marked(f).clusters =
                     IF NeedClusters(f) THEN [f.clusters EXCEPT ![f.sel.sub] = Loading]
                     ELSE f.clusters
                /\ Marked(f).role =
                     IF NeedRole(f)
                     THEN [f.role EXCEPT ![<<f.sel.acr, f.sel.cluster>>] = "loading"]
                     ELSE f.role
<1> DEFINE subs == IF NeedSubs(f) THEN WithSubs(f, Loading) ELSE f
           acrs == IF NeedAcrs(f) THEN WithAcrs(subs, f.sel.sub, Loading) ELSE subs
           clusters == IF NeedClusters(f) THEN WithClusters(acrs, f.sel.sub, Loading) ELSE acrs
<1>1. \A items : Loading \in Lazy(items)
  BY DEF Loading, Lazy
<1>2. /\ subs \in Forms /\ subs.subs = IF NeedSubs(f) THEN Loading ELSE f.subs
      /\ subs.acrs = f.acrs /\ subs.clusters = f.clusters /\ subs.role = f.role
      /\ subs.threw = f.threw
  BY <1>1 DEF Forms, WithSubs
<1>3. NeedAcrs(f) \/ NeedClusters(f) => f.sel.sub \in Subscriptions
  BY DEF NeedAcrs, NeedClusters, SubKnown, Forms, Selections
<1>4. /\ acrs \in Forms /\ acrs.subs = subs.subs
      /\ acrs.acrs = IF NeedAcrs(f) THEN [f.acrs EXCEPT ![f.sel.sub] = Loading] ELSE f.acrs
      /\ acrs.clusters = f.clusters /\ acrs.role = f.role /\ acrs.threw = f.threw
  <2> HIDE DEF subs
  <2> QED BY <1>1, <1>2, <1>3 DEF Forms, WithAcrs
<1>5. /\ clusters \in Forms /\ clusters.subs = subs.subs /\ clusters.acrs = acrs.acrs
      /\ clusters.clusters =
           IF NeedClusters(f) THEN [f.clusters EXCEPT ![f.sel.sub] = Loading] ELSE f.clusters
      /\ clusters.role = f.role /\ clusters.threw = f.threw
  <2> HIDE DEF acrs, subs
  <2> QED BY <1>1, <1>3, <1>4 DEF Forms, WithClusters
<1> HIDE DEF subs, acrs, clusters
<1>6. CASE FormThrows(f)
  <2>1. Marked(f) = [f EXCEPT !.threw = TRUE]
    BY <1>6 DEF Marked, NeedRole
  <2> QED BY <1>6, <2>1 DEF Forms
<1>7. CASE ~FormThrows(f) /\ NeedRole(f)
  <2>1. Marked(f) = WithRole(clusters, <<f.sel.acr, f.sel.cluster>>, "loading")
    BY <1>7 DEF Marked, clusters, acrs, subs
  <2>2. <<f.sel.acr, f.sel.cluster>> \in Pairs
    BY <1>7 DEF NeedRole, AcrKnown, Forms, Selections, Pairs
  <2> QED BY SMTT(30), <1>2, <1>4, <1>5, <1>7, <2>1, <2>2 DEF Forms, WithRole
<1>8. CASE ~FormThrows(f) /\ ~NeedRole(f)
  <2>1. Marked(f) = clusters
    BY <1>8 DEF Marked, clusters, acrs, subs
  <2>2. Marked(f).threw = f.threw /\ Marked(f).role = f.role
    BY <1>5, <2>1
  <2>3. Marked(f).subs = IF NeedSubs(f) THEN Loading ELSE f.subs
    BY <1>2, <1>4, <1>5, <2>1
  <2>4. Marked(f).acrs = IF NeedAcrs(f) THEN [f.acrs EXCEPT ![f.sel.sub] = Loading] ELSE f.acrs
    BY <1>4, <1>5, <2>1
  <2>5. Marked(f).clusters =
          IF NeedClusters(f) THEN [f.clusters EXCEPT ![f.sel.sub] = Loading] ELSE f.clusters
    BY <1>5, <2>1
  <2>6. Marked(f) \in Forms
    BY <1>5, <2>1
  <2>7. Marked(f).threw = (f.threw \/ FormThrows(f))
    BY <1>8, <2>2 DEF Forms
  <2> QED BY <1>8, <2>2, <2>3, <2>4, <2>5, <2>6, <2>7
<1> QED BY <1>6, <1>7, <1>8

(* The requests that a render posts, each about what is not loaded.        *)
LEMMA Asks ==
    ASSUME NEW f \in Forms, NEW r \in Asked(f)
    PROVE  /\ r \in Requests /\ r.found = {} /\ r.step \in {"lookUp", "list"}
           /\ \/ r.op = "subs" /\ NeedSubs(f)
              \/ r.op = "acrs" /\ r.on = f.sel.sub /\ NeedAcrs(f)
              \/ r.op = "clusters" /\ r.on = f.sel.sub /\ NeedClusters(f)
              \/ r.op = "role" /\ r.on = <<f.sel.acr, f.sel.cluster>> /\ NeedRole(f)
<1> USE DEF Request, FirstStep, Requests, Ops, RoleOps
<1>1. CASE r = Request("subs", Unset) /\ NeedSubs(f)
  BY <1>1
<1>2. CASE r = Request("acrs", f.sel.sub) /\ NeedAcrs(f)
  <2>1. f.sel.sub \in Subscriptions
    BY <1>2 DEF NeedAcrs, SubKnown, Forms, Selections
  <2> QED BY <1>2, <2>1
<1>3. CASE r = Request("clusters", f.sel.sub) /\ NeedClusters(f)
  <2>1. f.sel.sub \in Subscriptions
    BY <1>3 DEF NeedClusters, SubKnown, Forms, Selections
  <2> QED BY <1>3, <2>1
<1>4. CASE r = Request("role", <<f.sel.acr, f.sel.cluster>>) /\ NeedRole(f)
  <2>1. <<f.sel.acr, f.sel.cluster>> \in Pairs
    BY <1>4 DEF NeedRole, AcrKnown, Forms, Selections, Pairs
  <2> QED BY <1>4, <2>1
<1> QED BY <1>1, <1>2, <1>3, <1>4 DEF Asked

(* A render of a page f, while the other requests are handled.             *)
LEMMA Renders ==
    ASSUME AttachInv, UNCHANGED <<assigned, world>>,
           NEW f \in Forms, ~f.threw, NEW others \in SUBSET Requests, RenderForm(f, others),
           OneEach(others),
           \A r \in others : RoleMarked(f, r) /\ ListMarked(f, r) /\ FoundOK(r),
           \A p \in Pairs : f.role[p] = "yes" /\ Alone(p[2]) => HasRole(p)
    PROVE  AttachInv'
<1>1. form' = Marked(f) /\ requests' = others \cup Asked(f)
  BY DEF RenderForm
<1>2. form' \in Forms /\ requests' \in SUBSET Requests
  BY <1>1, Marks, Asks
<1>3. ASSUME NEW q \in others, NEW r \in Asked(f) PROVE About(q) # About(r)
  <2>1. q \in Requests /\ r \in Requests /\ RoleMarked(f, q) /\ ListMarked(f, q)
    BY <1>3, Asks
  <2> QED BY ZenonT(60), <1>3, <2>1, Asks
       DEF About, RoleMarked, ListMarked, RoleOps, NeedSubs, NeedAcrs, NeedClusters, NeedRole,
           Requests
<1>4. ASSUME NEW q \in Asked(f), NEW r \in Asked(f), About(q) = About(r) PROVE q = r
  <2>1. q.op = r.op /\ q.on = r.on
    BY <1>4, Asks DEF About, Requests
  <2>2. q = Request(q.op, q.on) /\ r = Request(r.op, r.on)
    BY <1>4 DEF Asked, Request
  <2> QED BY <2>1, <2>2
<1>5. OneEach(requests')
  BY <1>1, <1>3, <1>4 DEF OneEach
<1>a. form'.threw = FormThrows(f)
  BY <1>1, Marks DEF FormThrows
<1>b. ~FormThrows(f) /\ (NeedSubs(f) \/ f.subs.is = "loading") => form'.subs.is = "loading"
  <2>1. ~FormThrows(f) => form'.subs = IF NeedSubs(f) THEN Loading ELSE f.subs
    BY <1>1, Marks
  <2> QED BY <2>1 DEF Loading
<1>c. ASSUME ~FormThrows(f), NEW s \in Subscriptions,
             (NeedAcrs(f) /\ s = f.sel.sub) \/ f.acrs[s].is = "loading"
      PROVE  form'.acrs[s].is = "loading"
  <2>1. /\ f.acrs \in [Subscriptions -> Lazy(Acrs)]
        /\ form'.acrs = IF NeedAcrs(f) THEN [f.acrs EXCEPT ![f.sel.sub] = Loading] ELSE f.acrs
    BY <1>1, <1>c, Marks DEF Forms
  <2> QED BY <1>c, <2>1 DEF Loading
<1>d. ASSUME ~FormThrows(f), NEW s \in Subscriptions,
             (NeedClusters(f) /\ s = f.sel.sub) \/ f.clusters[s].is = "loading"
      PROVE  form'.clusters[s].is = "loading"
  <2>1. /\ f.clusters \in [Subscriptions -> Lazy(Clusters)]
        /\ form'.clusters =
             IF NeedClusters(f) THEN [f.clusters EXCEPT ![f.sel.sub] = Loading] ELSE f.clusters
    BY <1>1, <1>d, Marks DEF Forms
  <2> QED BY <1>d, <2>1 DEF Loading
<1>e. ASSUME NEW p \in Pairs,
             (NeedRole(f) /\ p = <<f.sel.acr, f.sel.cluster>>) \/ f.role[p] = "loading"
      PROVE  form'.role[p] = "loading"
  <2>1. f.role \in [Pairs -> {"notLoaded", "loading", "yes", "no"}]
    BY DEF Forms
  <2>2. CASE FormThrows(f)
    BY <1>1, <1>e, <2>2, Marks DEF NeedRole
  <2>3. CASE ~FormThrows(f)
    BY <1>1, <1>e, <2>1, <2>3, Marks
  <2> QED BY <2>2, <2>3
<1>6. ASSUME NEW r \in requests'
      PROVE  RoleMarked(form', r) /\ (form'.threw \/ ListMarked(form', r)) /\ FoundOK(r)'
  <2>1. CASE r \in others
    <3>1. RoleMarked(f, r) /\ ListMarked(f, r) /\ FoundOK(r) /\ r \in Requests
      BY <2>1
    <3>2. RoleMarked(form', r)
      BY <1>e, <3>1 DEF RoleMarked, Requests
    <3>3. form'.threw \/ ListMarked(form', r)
      BY <1>a, <1>b, <1>c, <1>d, <3>1 DEF ListMarked, Requests
    <3>4. FoundOK(r)'
      BY <3>1 DEF FoundOK, HasRole, Alone, Principal
    <3> QED BY <3>2, <3>3, <3>4
  <2>2. CASE r \in Asked(f)
    <3>1. /\ r.found = {} /\ r.step \in {"lookUp", "list"}
          /\ \/ r.op = "subs" /\ NeedSubs(f)
             \/ r.op = "acrs" /\ r.on = f.sel.sub /\ NeedAcrs(f)
             \/ r.op = "clusters" /\ r.on = f.sel.sub /\ NeedClusters(f)
             \/ r.op = "role" /\ r.on = <<f.sel.acr, f.sel.cluster>> /\ NeedRole(f)
      BY <2>2, Asks
    <3>2. NeedRole(f) => ~FormThrows(f) /\ <<f.sel.acr, f.sel.cluster>> \in Pairs
      BY DEF NeedRole, AcrKnown, Forms, Selections, Pairs
    <3>3. NeedAcrs(f) \/ NeedClusters(f) => f.sel.sub \in Subscriptions
      BY DEF NeedAcrs, NeedClusters, SubKnown, Forms, Selections
    <3>4. RoleMarked(form', r)
      BY <1>e, <3>1, <3>2 DEF RoleMarked, RoleOps
    <3>5. form'.threw \/ ListMarked(form', r)
      BY <1>a, <1>b, <1>c, <1>d, <3>1, <3>3 DEF ListMarked
    <3>6. FoundOK(r)'
      BY <3>1 DEF FoundOK
    <3> QED BY <3>4, <3>5, <3>6
  <2> QED BY <1>1, <2>1, <2>2
<1>7. \A p \in Pairs : form'.role[p] = "yes" => f.role[p] = "yes"
  BY <1>1, Marks DEF Forms
<1>8. AttachedMayPull'
  BY <1>7 DEF AttachedMayPull, Alone, HasRole
<1> QED BY <1>2, <1>5, <1>6, <1>8 DEF AttachInv

-----------------------------------------------------------------------------
(* A selection is rendered, and its requests are posted.                   *)
LEMMA SelectionAsked ==
    ASSUME AttachInv, UNCHANGED <<assigned, world>>, ~form.threw,
           NEW f \in Forms, RenderForm(f, requests),
           f.subs = form.subs, f.acrs = form.acrs, f.clusters = form.clusters,
           f.role = form.role, f.threw = form.threw
    PROVE  AttachInv'
<1>1. \A r \in requests : RoleMarked(f, r) /\ ListMarked(f, r) /\ FoundOK(r)
  BY DEF AttachInv, RoleMarked, ListMarked
<1>2. \A p \in Pairs : f.role[p] = "yes" /\ Alone(p[2]) => HasRole(p)
  BY DEF AttachInv, AttachedMayPull, HasRole
<1> QED BY <1>1, <1>2, Renders DEF AttachInv

(* The user selects.                                                       *)
LEMMA SelectStep == ASSUME AttachInv, Select PROVE AttachInv'
<1>0. form \in Forms /\ form.subs \in Lazy(Subscriptions)
      /\ AcrList \in Lazy(Acrs) /\ ClusterList \in Lazy(Clusters)
  BY DEF AttachInv, AcrList, ClusterList, Forms, Lazy, SubKnown, Selections, NotLoaded
<1>1. ASSUME NEW s \in Subscriptions \cup {Unset}, SelectSub(s) PROVE AttachInv'
  <2> DEFINE f == [form EXCEPT !.pending.sub = Unset, !.sel = [NothingSelected EXCEPT !.sub = s]]
  <2>1. f \in Forms /\ f.subs = form.subs /\ f.acrs = form.acrs /\ f.clusters = form.clusters
        /\ f.role = form.role /\ f.threw = form.threw
    BY ZenonT(60), <1>0 DEF Forms, Selections, NothingSelected
  <2> QED BY <1>1, <2>1, SelectionAsked DEF SelectSub, Offers, Usable
<1>2. ASSUME NEW g \in Groups \cup {Unset}, SelectAcrGroup(g) PROVE AttachInv'
  <2> DEFINE f == [form EXCEPT !.pending.acrGroup = Unset,
                               !.sel.acrGroup = g, !.sel.acr = Unset]
  <2>1. f \in Forms /\ f.subs = form.subs /\ f.acrs = form.acrs /\ f.clusters = form.clusters
        /\ f.role = form.role /\ f.threw = form.threw
    BY ZenonT(60), <1>0 DEF Forms, Selections
  <2> QED BY <1>2, <2>1, SelectionAsked DEF SelectAcrGroup, Offers, Usable
<1>3. ASSUME NEW a \in Acrs \cup {Unset}, SelectAcr(a) PROVE AttachInv'
  <2> DEFINE f == [form EXCEPT !.pending.acr = Unset, !.sel.acr = a]
  <2>1. f \in Forms /\ f.subs = form.subs /\ f.acrs = form.acrs /\ f.clusters = form.clusters
        /\ f.role = form.role /\ f.threw = form.threw
    BY ZenonT(60), <1>0 DEF Forms, Selections
  <2> QED BY <1>3, <2>1, SelectionAsked DEF SelectAcr, Offers, Usable
<1>4. ASSUME NEW g \in Groups \cup {Unset}, SelectClusterGroup(g) PROVE AttachInv'
  <2> DEFINE f == [form EXCEPT !.pending.clusterGroup = Unset,
                               !.sel.clusterGroup = g, !.sel.cluster = Unset]
  <2>1. f \in Forms /\ f.subs = form.subs /\ f.acrs = form.acrs /\ f.clusters = form.clusters
        /\ f.role = form.role /\ f.threw = form.threw
    BY ZenonT(60), <1>0 DEF Forms, Selections
  <2> QED BY <1>4, <2>1, SelectionAsked DEF SelectClusterGroup, Offers, Usable
<1>5. ASSUME NEW c \in Clusters \cup {Unset}, SelectCluster(c) PROVE AttachInv'
  <2> DEFINE f == [form EXCEPT !.pending.cluster = Unset, !.sel.cluster = c]
  <2>1. f \in Forms /\ f.subs = form.subs /\ f.acrs = form.acrs /\ f.clusters = form.clusters
        /\ f.role = form.role /\ f.threw = form.threw
    BY ZenonT(60), <1>0 DEF Forms, Selections
  <2> QED BY <1>5, <2>1, SelectionAsked DEF SelectCluster, Offers, Usable
<1> QED BY <1>1, <1>2, <1>3, <1>4, <1>5 DEF Select

(* The user attaches, or detaches.                                         *)
LEMMA ChangeStep == ASSUME AttachInv, Attach \/ Detach PROVE AttachInv'
<1>1. PICK op \in {"create", "delete"} :
        /\ Change(op) /\ ~form.threw /\ Shown \in Pairs /\ form.role[Shown] \in {"yes", "no"}
  <2>1. AcrKnown(form) /\ form.sel.cluster # Unset => Shown \in Pairs
    BY DEF AttachInv, AcrKnown, Forms, Selections, Pairs, Shown
  <2> QED BY <2>1 DEF Attach, Detach, RoleShown, Usable
<1> DEFINE f == WithRole(form, Shown, "loading")
           r == Request(op, Shown)
           others == requests \cup {r}
<1>2. /\ f \in Forms /\ f.subs = form.subs /\ f.acrs = form.acrs /\ f.clusters = form.clusters
      /\ f.role = [form.role EXCEPT ![Shown] = "loading"] /\ f.threw = form.threw
      /\ form.role \in [Pairs -> {"notLoaded", "loading", "yes", "no"}]
  BY <1>1 DEF WithRole, AttachInv, Forms
<1>3. r \in Requests /\ r.op \in RoleOps /\ r.on = Shown /\ r.step = "change" /\ r.found = {}
  BY <1>1 DEF Request, Requests, FirstStep, Ops, RoleOps
<1> HIDE DEF f, r
<1>4. OneEach(others)
  <2>1. ASSUME NEW q \in requests PROVE About(q) # About(r)
    <3>1. RoleMarked(form, q) /\ q \in Requests
      BY DEF AttachInv
    <3> QED BY <1>1, <1>3, <3>1 DEF About, RoleMarked, RoleOps, Requests
  <2> QED BY <2>1 DEF OneEach, AttachInv
<1>5. ASSUME NEW q \in others PROVE RoleMarked(f, q) /\ ListMarked(f, q) /\ FoundOK(q)
  <2>1. CASE q = r
    <3>1. RoleMarked(f, q) /\ ListMarked(f, q)
      BY <1>1, <1>2, <1>3, <2>1 DEF RoleMarked, ListMarked, RoleOps
    <3>2. FoundOK(q)
      BY <1>3, <2>1 DEF FoundOK
    <3> QED BY <3>1, <3>2
  <2>2. CASE q \in requests
    <3>1. RoleMarked(form, q) /\ ListMarked(form, q) /\ FoundOK(q) /\ q \in Requests
      BY <1>1, <2>2 DEF AttachInv
    <3> QED BY <1>2, <3>1 DEF RoleMarked, ListMarked, Requests
  <2> QED BY <2>1, <2>2
<1>6. \A p \in Pairs : f.role[p] = "yes" /\ Alone(p[2]) => HasRole(p)
  <2>1. \A p \in Pairs : f.role[p] = "yes" => form.role[p] = "yes"
    BY <1>1, <1>2
  <2> QED BY <2>1 DEF AttachInv, AttachedMayPull, HasRole
<1>7. RenderForm(f, others) /\ UNCHANGED <<assigned, world>>
  BY <1>1 DEF Change, f, r
<1>8. others \in SUBSET Requests
  BY <1>3 DEF AttachInv
<1> QED BY <1>1, <1>2, <1>4, <1>5, <1>6, <1>7, <1>8, Renders

(* The answer of a request, when the page takes on f.                      *)
LEMMA Delivers ==
    ASSUME AttachInv, UNCHANGED <<assigned, world>>, NEW r \in requests, NEW f, Deliver(r, f),
           ~form.threw => f \in Forms /\ ~f.threw,
           ~form.threw => \A q \in requests \ {r} :
                RoleMarked(form, q) /\ ListMarked(form, q) => RoleMarked(f, q) /\ ListMarked(f, q),
           ~form.threw => \A p \in Pairs : f.role[p] = "yes" /\ Alone(p[2]) => HasRole(p)
    PROVE  AttachInv'
<1> DEFINE others == requests \ {r}
<1>1. OneEach(others) /\ others \in SUBSET Requests
  BY DEF AttachInv, OneEach
<1>2. CASE form.threw
  <2>1. form' = form /\ requests' = others
    BY <1>2 DEF Deliver
  <2>2. \A q \in others : RoleMarked(form, q) /\ form.threw /\ FoundOK(q)
    BY <1>2 DEF AttachInv
  <2>3. \A q \in others : FoundOK(q)'
    BY <2>2 DEF FoundOK, HasRole, Alone, Principal
  <2>4. AttachedMayPull'
    BY <2>1 DEF AttachInv, AttachedMayPull, Alone
  <2>5. \A q \in requests' : /\ RoleMarked(form', q)
                             /\ form'.threw \/ ListMarked(form', q)
                             /\ FoundOK(q)'
    BY <2>1, <2>2, <2>3
  <2>6. OneEach(requests')
    BY <1>1, <2>1
  <2> QED BY <1>1, <2>1, <2>4, <2>5, <2>6 DEF AttachInv
<1>3. CASE ~form.threw
  <2>1. RenderForm(f, others) /\ f \in Forms /\ ~f.threw
    BY <1>3 DEF Deliver
  <2>2. \A q \in others : RoleMarked(f, q) /\ ListMarked(f, q) /\ FoundOK(q)
    BY <1>3 DEF AttachInv
  <2>3. \A p \in Pairs : f.role[p] = "yes" /\ Alone(p[2]) => HasRole(p)
    BY <1>3
  <2> QED BY <1>1, <2>1, <2>2, <2>3, Renders
<1> QED BY <1>2, <1>3

(* What the page selects of a list that comes.                             *)
LEMMA Chosen ==
    ASSUME NEW items, NEW matching \in SUBSET items
    PROVE  OnlyOrPending(items, matching) \in items \cup {Unset}
<1>1. Cardinality(items) = 1 => \E i \in items : TRUE
  BY FS_EmptySet
<1>2. CASE Cardinality(items) = 1
  BY <1>1, <1>2 DEF OnlyOrPending
<1>3. CASE Cardinality(items) # 1 /\ matching # {}
  BY <1>3 DEF OnlyOrPending
<1>4. CASE Cardinality(items) # 1 /\ matching = {}
  BY <1>4 DEF OnlyOrPending
<1> QED BY <1>2, <1>3, <1>4

(* The resource group of what a list selects.                              *)
LEMMA GroupChosen ==
    ASSUME NEW items \in SUBSET (Acrs \cup Clusters), NEW g \in Groups \cup {Unset}
    PROVE  GroupFor(items, g) \in Groups \cup {Unset}
<1>1. Cardinality(items) = 1 => \E i \in items : TRUE
  BY FS_EmptySet
<1>2. \A i \in Acrs \cup Clusters : GroupOf(i) \in Groups
  BY HomesAssumption DEF GroupOf
<1> QED BY <1>1, <1>2 DEF GroupFor

(* A list comes.                                                           *)
LEMMA ListStep == ASSUME AttachInv, NEW r \in requests, AnswerList(r) PROVE AttachInv'
<1>1. PICK items \in {ListOf(r), {}} :
        Deliver(r, ListAnswered(r, items)) /\ UNCHANGED <<assigned, world>>
  BY DEF AnswerList
<1> DEFINE f == ListAnswered(r, items)
<1>2. r \in Requests /\ r.op \in {"subs", "acrs", "clusters"} /\ form \in Forms
  BY DEF AnswerList, AttachInv
<1>3. \A q \in requests \ {r} : q \in Requests /\ About(q) # About(r)
  BY DEF AttachInv, OneEach
<1>4. \A p \in Pairs : form.role[p] = "yes" /\ Alone(p[2]) => HasRole(p)
  BY DEF AttachInv, AttachedMayPull, HasRole
<1>5. CASE r.op = "subs"
  <2>1. items \in SUBSET Subscriptions /\ f = SubsAnswered(form, items)
    BY <1>5 DEF ListOf, ListAnswered
  <2>2. OnlyOrPending(items, items \cap {form.pending.sub}) \in Subscriptions \cup {Unset}
    BY <2>1, Chosen
  <2>3. /\ f \in Forms /\ f.threw = form.threw /\ f.role = form.role
        /\ f.acrs = form.acrs /\ f.clusters = form.clusters
    <3> DEFINE sub == OnlyOrPending(items, items \cap {form.pending.sub})
    <3>1. f = [form EXCEPT !.subs = Loaded(items), !.sel = [NothingSelected EXCEPT !.sub = sub]]
      BY <2>1, <1>2 DEF SubsAnswered, WithSubs, Forms
    <3> HIDE DEF sub, f
    <3>2. [NothingSelected EXCEPT !.sub = sub] \in Selections
      BY <2>2 DEF NothingSelected, Selections, sub
    <3>3. Loaded(items) \in Lazy(Subscriptions)
      BY <2>1 DEF Lazy, Loaded
    <3> QED BY <1>2, <3>1, <3>2, <3>3 DEF Forms
  <2> HIDE DEF f
  <2>4. \A q \in requests \ {r} :
          RoleMarked(form, q) /\ ListMarked(form, q) => RoleMarked(f, q) /\ ListMarked(f, q)
    BY <1>2, <1>3, <1>5, <2>3 DEF About, RoleMarked, ListMarked, Requests, RoleOps
  <2> QED BY <1>1, <1>4, <2>3, <2>4, Delivers DEF f
<1>6. CASE r.op = "acrs"
  <2>1. items \in SUBSET Acrs /\ f = AcrsAnswered(form, r.on, items) /\ r.on \in Subscriptions
    BY <1>2, <1>6 DEF ListOf, ListAnswered, Of, Requests
  <2> DEFINE group == GroupFor(items, form.pending.acrGroup)
             acr == OnlyOrPending(items, InGroup(items, form.pending.acrGroup)
                                           \cap {form.pending.acr})
  <2>2. acr \in Acrs \cup {Unset}
    BY <2>1, Chosen DEF InGroup
  <2>3. group \in Groups \cup {Unset}
    BY <1>2, <2>1, GroupChosen DEF Forms, Selections
  <2>4. /\ f \in Forms /\ f.threw = form.threw /\ f.role = form.role
        /\ f.acrs = [form.acrs EXCEPT ![r.on] = Loaded(items)]
        /\ f.subs = form.subs /\ f.clusters = form.clusters
    <3> DEFINE lists == [form.acrs EXCEPT ![r.on] = Loaded(items)]
               chosen == [form.sel EXCEPT !.acrGroup = group, !.acr = acr]
    <3>1. f = [form EXCEPT !.acrs = lists, !.sel = chosen]
      BY <2>1, <1>2 DEF AcrsAnswered, WithAcrs, Forms
    <3> HIDE DEF group, acr, f
    <3>2. chosen \in Selections
      BY <1>2, <2>2, <2>3 DEF Forms, Selections
    <3>3. Loaded(items) \in Lazy(Acrs)
      BY <2>1 DEF Lazy, Loaded
    <3>4. lists \in [Subscriptions -> Lazy(Acrs)]
      BY <1>2, <2>1, <3>3 DEF Forms
    <3> HIDE DEF lists, chosen
    <3>5. f \in Forms /\ f.acrs = lists
      BY <1>2, <3>1, <3>2, <3>4 DEF Forms
    <3>6. f.threw = form.threw /\ f.role = form.role /\ f.subs = form.subs
          /\ f.clusters = form.clusters
      BY <1>2, <3>1 DEF Forms
    <3> QED BY <3>5, <3>6 DEF lists
  <2> HIDE DEF f
  <2>5. \A q \in requests \ {r} :
          RoleMarked(form, q) /\ ListMarked(form, q) => RoleMarked(f, q) /\ ListMarked(f, q)
    BY <1>2, <1>3, <1>6, <2>1, <2>4 DEF About, RoleMarked, ListMarked, Requests, RoleOps, Forms
  <2> QED BY <1>1, <1>4, <2>4, <2>5, Delivers DEF f
<1>7. CASE r.op = "clusters"
  <2>1. items \in SUBSET Clusters /\ f = ClustersAnswered(form, r.on, items)
        /\ r.on \in Subscriptions
    BY <1>2, <1>7 DEF ListOf, ListAnswered, Of, Requests
  <2> DEFINE group == GroupFor(items, form.pending.clusterGroup)
             cluster == OnlyOrPending(items, InGroup(items, form.pending.clusterGroup)
                                               \cap {form.pending.cluster})
  <2>2. cluster \in Clusters \cup {Unset}
    BY <2>1, Chosen DEF InGroup
  <2>3. group \in Groups \cup {Unset}
    BY <1>2, <2>1, GroupChosen DEF Forms, Selections
  <2>4. /\ f \in Forms /\ f.threw = form.threw /\ f.role = form.role
        /\ f.clusters = [form.clusters EXCEPT ![r.on] = Loaded(items)]
        /\ f.subs = form.subs /\ f.acrs = form.acrs
    <3> DEFINE lists == [form.clusters EXCEPT ![r.on] = Loaded(items)]
               chosen == [form.sel EXCEPT !.clusterGroup = group, !.cluster = cluster]
    <3>1. f = [form EXCEPT !.clusters = lists, !.sel = chosen]
      BY <2>1, <1>2 DEF ClustersAnswered, WithClusters, Forms
    <3> HIDE DEF group, cluster, f
    <3>2. chosen \in Selections
      BY <1>2, <2>2, <2>3 DEF Forms, Selections
    <3>3. Loaded(items) \in Lazy(Clusters)
      BY <2>1 DEF Lazy, Loaded
    <3>4. lists \in [Subscriptions -> Lazy(Clusters)]
      BY <1>2, <2>1, <3>3 DEF Forms
    <3> HIDE DEF lists, chosen
    <3>5. f \in Forms /\ f.clusters = lists
      BY <1>2, <3>1, <3>2, <3>4 DEF Forms
    <3>6. f.threw = form.threw /\ f.role = form.role /\ f.subs = form.subs
          /\ f.acrs = form.acrs
      BY <1>2, <3>1 DEF Forms
    <3> QED BY <3>5, <3>6 DEF lists
  <2> HIDE DEF f
  <2>5. \A q \in requests \ {r} :
          RoleMarked(form, q) /\ ListMarked(form, q) => RoleMarked(f, q) /\ ListMarked(f, q)
    BY <1>2, <1>3, <1>7, <2>1, <2>4 DEF About, RoleMarked, ListMarked, Requests, RoleOps, Forms
  <2> QED BY <1>1, <1>4, <2>4, <2>5, Delivers DEF f
<1> QED BY <1>2, <1>5, <1>6, <1>7

(* An answer about a role comes.                                           *)
LEMMA RoleAnswerStep == ASSUME AttachInv, NEW r \in requests, AnswerRole(r) PROVE AttachInv'
<1> DEFINE is == IF HasAcrPull(r) THEN "yes" ELSE "no"
           f == WithRole(form, r.on, is)
<1>1. /\ r \in Requests /\ r.op \in RoleOps /\ r.on \in Pairs /\ form \in Forms
      /\ FoundOK(r) /\ r.step = "answer"
  BY DEF AnswerRole, AttachInv, Requests
<1>2. \A q \in requests \ {r} : q \in Requests /\ About(q) # About(r)
  BY DEF AttachInv, OneEach
<1>3. /\ f \in Forms /\ f.threw = form.threw /\ f.role = [form.role EXCEPT ![r.on] = is]
      /\ f.subs = form.subs /\ f.acrs = form.acrs /\ f.clusters = form.clusters
      /\ form.role \in [Pairs -> {"notLoaded", "loading", "yes", "no"}]
  BY <1>1 DEF WithRole, Forms
<1>4. Deliver(r, f) /\ UNCHANGED <<assigned, world>>
  BY DEF AnswerRole
<1>5. is = "yes" => r.found # {}
  BY DEF HasAcrPull
<1> HIDE DEF f, is
<1>6. \A q \in requests \ {r} :
        RoleMarked(form, q) /\ ListMarked(form, q) => RoleMarked(f, q) /\ ListMarked(f, q)
  BY <1>1, <1>2, <1>3 DEF About, RoleMarked, ListMarked, Requests, RoleOps
<1>7. ASSUME NEW p \in Pairs, f.role[p] = "yes", Alone(p[2]) PROVE HasRole(p)
  <2>1. CASE p = r.on
    BY <1>1, <1>3, <1>5, <1>7, <2>1 DEF FoundOK
  <2>2. CASE p # r.on
    BY <1>1, <1>3, <1>7, <2>2 DEF AttachInv, AttachedMayPull, HasRole
  <2> QED BY <2>1, <2>2
<1> QED BY <1>3, <1>4, <1>6, <1>7, Delivers

(* A step of a handler that is not its last.                               *)
LEMMA Advances ==
    ASSUME AttachInv, NEW r \in requests, r.op \in RoleOps, UNCHANGED <<form, world>>,
           NEW step \in {"delete", "list", "answer"}, NEW found \in SUBSET Assignments,
           Advance(r, step, found), FoundOK([r EXCEPT !.step = step, !.found = found])',
           assigned' \in SUBSET Assignments,
           \A x \in assigned' : x[2] \in Subscriptions \X Groups => x \in world.inherited,
           \A p \in Pairs : HasRole(p) /\ ~HasRole(p)' => p = r.on \/ ~Alone(p[2])
    PROVE  AttachInv'
<1> DEFINE s == [r EXCEPT !.step = step, !.found = found]
<1>1. /\ r \in Requests /\ s \in Requests /\ s.op = r.op /\ s.on = r.on
      /\ requests' = (requests \ {r}) \cup {s}
  BY DEF AttachInv, Requests, Advance, RoleOps
<1> HIDE DEF s
<1>2. About(s) = About(r) /\ \A q \in requests \ {r} : q \in Requests /\ About(q) # About(r)
  BY <1>1 DEF AttachInv, OneEach, About
<1>3. OneEach(requests')
  BY <1>1, <1>2 DEF OneEach, AttachInv
<1>4. ASSUME NEW p \in Pairs, Alone(p[2]), p # r.on PROVE HasRole(p) => HasRole(p)'
  BY <1>4
<1>5. ASSUME NEW q \in requests'
      PROVE  RoleMarked(form', q) /\ (form'.threw \/ ListMarked(form', q)) /\ FoundOK(q)'
  <2>1. CASE q = s
    BY <1>1, <2>1 DEF AttachInv, RoleMarked, ListMarked, RoleOps, s
  <2>2. CASE q \in requests \ {r}
    <3>1. RoleMarked(form, q) /\ (form.threw \/ ListMarked(form, q)) /\ FoundOK(q) /\ q \in Requests
      BY <2>2 DEF AttachInv
    <3>2. q.op \in RoleOps => q.on \in Pairs /\ q.on # r.on
      BY <1>1, <1>2, <2>2, <3>1 DEF About, RoleOps, Requests
    <3>3. FoundOK(q)'
      BY <1>4, <3>1, <3>2 DEF FoundOK, Alone, Principal
    <3> QED BY <3>1, <3>3
  <2> QED BY <1>1, <2>1, <2>2
<1>6. AttachedMayPull'
  <2>1. ASSUME NEW p \in Pairs, form.role[p] = "yes", Alone(p[2]) PROVE HasRole(p)'
    <3>1. HasRole(p)
      BY <2>1 DEF AttachInv, AttachedMayPull, HasRole
    <3>2. p # r.on
      BY <2>1 DEF AttachInv, RoleMarked
    <3> QED BY <1>4, <2>1, <3>1, <3>2
  <2> QED BY <2>1 DEF AttachedMayPull, HasRole, Alone
<1> QED BY <1>1, <1>3, <1>5, <1>6 DEF AttachInv

(* A handler reads or changes Azure: what it found stays true to the pair. *)
LEMMA HandlerStep ==
    ASSUME AttachInv, NEW r \in requests,
           CreateAssignment(r) \/ FindAssignment(r) \/ DeleteAssignment(r) \/ ListAssignments(r)
    PROVE  AttachInv'
<1>1. /\ r \in Requests /\ FoundOK(r) /\ world \in Worlds /\ assigned \in SUBSET Assignments
      /\ \A x \in assigned : x[2] \in Subscriptions \X Groups => x \in world.inherited
  BY DEF AttachInv
<1>2. Applying(r) \in SUBSET Assignments
  BY <1>1 DEF Applying
<1>3. ASSUME UNCHANGED <<assigned, world>>
      PROVE  /\ assigned' \in SUBSET Assignments
             /\ \A x \in assigned' : x[2] \in Subscriptions \X Groups => x \in world.inherited
             /\ \A p \in Pairs : ~(HasRole(p) /\ ~HasRole(p)')
  BY <1>1, <1>3 DEF HasRole
<1>e. {} \in SUBSET Assignments
  OBVIOUS
<1>4. ASSUME r.on \in Pairs
      PROVE  /\ r.on[1] \in Acrs /\ r.on[2] \in Clusters
             /\ ScopeOf(r.on[1]) \in Subscriptions \X Groups
             /\ Principal(r) \in Principals
  BY <1>1, <1>4, HomesAssumption, WorldsAssumption DEF Pairs, ScopeOf, Principal
<1>5. CASE CreateAssignment(r)
  <2>1. /\ r.op \in RoleOps /\ r.on \in Pairs /\ UNCHANGED <<form, world>>
        /\ Advance(r, "list", {})
        /\ assigned' \in {assigned, assigned \cup {<<Principal(r), r.on[1]>>}}
    BY <1>1, <1>5 DEF CreateAssignment, Requests, RoleOps
  <2>2. assigned' \in SUBSET Assignments
    BY <1>1, <1>4, <2>1 DEF Assignments
  <2>3. \A x \in assigned' : x[2] \in Subscriptions \X Groups => x \in world.inherited
    BY <1>1, <1>4, <2>1, ScopesAssumption
  <2>4. FoundOK([r EXCEPT !.step = "list", !.found = {}])'
    BY <1>1 DEF FoundOK, Requests
  <2>5. \A p \in Pairs : HasRole(p) /\ ~HasRole(p)' => p = r.on \/ ~Alone(p[2])
    BY <2>1 DEF HasRole
  <2> QED BY <1>e, <2>1, <2>2, <2>3, <2>4, <2>5, Advances
<1>6. CASE FindAssignment(r)
  <2>1. r.op \in RoleOps /\ r.on \in Pairs /\ UNCHANGED <<form, assigned, world>>
    BY <1>1, <1>6 DEF FindAssignment, Requests, RoleOps
  <2>2. CASE Advance(r, "list", {})
    <3>1. FoundOK([r EXCEPT !.step = "list", !.found = {}])'
      BY <1>1 DEF FoundOK, Requests
    <3> QED BY <1>3, <1>e, <2>1, <2>2, <3>1, Advances
  <2>3. ASSUME NEW x \in Applying(r), Advance(r, "delete", {x}) PROVE AttachInv'
    <3> DEFINE s == [r EXCEPT !.step = "delete", !.found = {x}]
    <3>1. s.on = r.on /\ s.step = "delete" /\ s.found = {x}
      BY <1>1 DEF Requests
    <3>2. x[1] = Principal(r) /\ x[2] \in {r.on[1], ScopeOf(r.on[1])}
      BY DEF Applying
    <3>3. FoundOK(s)'
      <4> HIDE DEF s
      <4> QED BY <2>1, <3>1, <3>2 DEF FoundOK, Principal
    <3>4. {x} \in SUBSET Assignments
      BY <1>2
    <3> QED BY <1>3, <2>1, <2>3, <3>3, <3>4, Advances
  <2> QED BY <1>6, <2>2, <2>3 DEF FindAssignment
<1>7. CASE DeleteAssignment(r)
  <2>1. /\ r.op \in RoleOps /\ r.on \in Pairs /\ UNCHANGED <<form, world>>
        /\ Advance(r, "list", {}) /\ assigned' \in {assigned, assigned \ r.found}
        /\ \A x \in r.found : x[1] = Principal(r) /\ x[2] \in {r.on[1], ScopeOf(r.on[1])}
    BY <1>1, <1>7 DEF DeleteAssignment, Requests, RoleOps, FoundOK
  <2>2. /\ assigned' \in SUBSET Assignments
        /\ \A x \in assigned' : x[2] \in Subscriptions \X Groups => x \in world.inherited
    BY <1>1, <2>1
  <2>3. FoundOK([r EXCEPT !.step = "list", !.found = {}])'
    BY <1>1 DEF FoundOK, Requests
  <2>4. ASSUME NEW p \in Pairs, HasRole(p), ~HasRole(p)', Alone(p[2]) PROVE p = r.on
    <3>1. <<world.principalOf[p[2]], p[1]>> \in r.found
      BY <2>1, <2>4 DEF HasRole
    <3>2. world.principalOf[p[2]] = Principal(r) /\ p[1] \in {r.on[1], ScopeOf(r.on[1])}
      BY <2>1, <3>1
    <3>3. p[1] = r.on[1]
      BY <1>4, <2>1, <3>2, ScopesAssumption DEF Pairs
    <3>4. p[2] = r.on[2]
      BY <1>4, <2>1, <2>4, <3>2 DEF Alone, Principal
    <3> QED BY <2>1, <3>3, <3>4 DEF Pairs
  <2> QED BY <1>e, <2>1, <2>2, <2>3, <2>4, Advances
<1>8. CASE ListAssignments(r)
  <2>1. PICK found \in {Applying(r), {}} : Advance(r, "answer", found)
    BY <1>8 DEF ListAssignments
  <2>2. r.op \in RoleOps /\ r.on \in Pairs /\ UNCHANGED <<form, assigned, world>>
    BY <1>1, <1>8 DEF ListAssignments, Requests, RoleOps
  <2> DEFINE s == [r EXCEPT !.step = "answer", !.found = found]
  <2>3. s.on = r.on /\ s.step = "answer" /\ s.found = found
    BY <1>1 DEF Requests
  <2>4. ASSUME found # {}, Alone(r.on[2]) PROVE HasRole(r.on)
    <3>1. PICK x \in assigned : x[1] = Principal(r) /\ x[2] \in {r.on[1], ScopeOf(r.on[1])}
      BY <2>4 DEF Applying
    <3>2. x \notin world.inherited
      BY <2>4, <3>1 DEF Alone, Principal
    <3>3. x[2] = r.on[1]
      BY <1>1, <1>4, <2>2, <3>1, <3>2
    <3>4. x = <<x[1], x[2]>>
      BY <1>1 DEF Assignments
    <3> QED BY <3>1, <3>3, <3>4 DEF HasRole, Principal
  <2>5. FoundOK(s)'
    <3> HIDE DEF s
    <3> QED BY <2>2, <2>3, <2>4 DEF FoundOK, HasRole, Alone
  <2> QED BY <1>2, <1>3, <2>1, <2>2, <2>5, Advances
<1> QED BY <1>5, <1>6, <1>7, <1>8

(* Every step keeps the invariant.                                         *)
LEMMA AttachStep == AttachInv /\ [AttachNext]_attachVars => AttachInv'
<1> SUFFICES ASSUME AttachInv, [AttachNext]_attachVars PROVE AttachInv'
  OBVIOUS
<1>1. ASSUME NEW r \in requests, NoPrincipal(r) PROVE AttachInv'
  <2>1. requests' = requests \ {r} /\ UNCHANGED <<form, assigned, world>>
    BY <1>1 DEF NoPrincipal
  <2>2. \A q \in requests' : FoundOK(q)'
    BY <2>1 DEF AttachInv, FoundOK, HasRole, Alone, Principal
  <2>3. AttachedMayPull'
    BY <2>1 DEF AttachInv, AttachedMayPull, Alone
  <2>4. \A q \in requests' : RoleMarked(form', q) /\ (form'.threw \/ ListMarked(form', q))
    BY <2>1 DEF AttachInv
  <2>5. OneEach(requests')
    BY <2>1 DEF AttachInv, OneEach
  <2> QED BY <2>1, <2>2, <2>3, <2>4, <2>5 DEF AttachInv
<1>2. CASE UNCHANGED attachVars
  BY <1>2 DEF attachVars, AttachInv, OneEach, RoleMarked, ListMarked, FoundOK, HasRole, Alone,
     Principal, AttachedMayPull
<1>3. ASSUME NEW r \in requests, Handle(r) PROVE AttachInv'
  BY <1>1, <1>3, ListStep, HandlerStep, RoleAnswerStep DEF Handle
<1>4. CASE Select
  BY <1>4, SelectStep
<1>5. CASE Attach \/ Detach
  BY <1>5, ChangeStep
<1> QED BY <1>2, <1>3, <1>4, <1>5 DEF AttachNext

(* The first page: its request is posted.                                  *)
LEMMA AttachStart == AttachInit => AttachInv
<1> SUFFICES ASSUME AttachInit PROVE AttachInv
  OBVIOUS
<1> DEFINE f == FirstForm
<1>1. f \in Forms /\ f.subs = NotLoaded /\ f.sel = NothingSelected /\ ~f.threw
      /\ f.role = [p \in Pairs |-> "notLoaded"]
  BY WorldsAssumption DEF AttachInit, FirstForm, Forms, Lazy, NotLoaded, Selections, NothingSelected
<1>2. form = Marked(f) /\ requests = Asked(f) /\ assigned = world.inherited /\ world \in Worlds
  BY DEF AttachInit
<1> HIDE DEF f
<1>3. /\ NeedSubs(f) /\ ~NeedAcrs(f) /\ ~NeedClusters(f) /\ ~NeedRole(f) /\ ~FormThrows(f)
  BY <1>1 DEF NeedSubs, NeedAcrs, NeedClusters, NeedRole, AcrKnown, SubKnown, FormThrows, NotLoaded
<1>4. requests = {Request("subs", Unset)}
  BY <1>2, <1>3 DEF Asked
<1>5. /\ form \in Forms /\ form.subs = Loading /\ form.role = [p \in Pairs |-> "notLoaded"]
  BY <1>1, <1>2, <1>3, Marks
<1>6. assigned \in SUBSET Assignments
      /\ \A x \in assigned : x[2] \in Subscriptions \X Groups => x \in world.inherited
  BY <1>2, WorldsAssumption DEF Assignments
<1>7. Request("subs", Unset) \in Requests
  BY DEF Request, Requests, Ops, RoleOps, FirstStep
<1>8. \A r \in requests : RoleMarked(form, r) /\ ListMarked(form, r) /\ FoundOK(r)
  BY <1>4, <1>5 DEF RoleMarked, ListMarked, FoundOK, RoleOps, Request, Loading
<1>9. AttachedMayPull
  BY <1>5 DEF AttachedMayPull
<1> QED BY <1>2, <1>4, <1>5, <1>6, <1>7, <1>8, <1>9 DEF AttachInv, OneEach

\* The inductive invariant: what is asked for is marked on the page, as long as it is there.
THEOREM AttachInvariance == AttachSpec => []AttachInv
BY AttachStart, AttachStep, PTL DEF AttachSpec

\* The variables keep their types.
THEOREM AttachTyped == AttachSpec => []AttachTypeOK
<1>1. AttachInv => AttachTypeOK
  BY DEF AttachInv, AttachTypeOK, Forms, Lazy, Requests, Assignments
<1> QED BY <1>1, AttachInvariance, PTL

\* The panel handles at most one request about each list and each pair, so that no two answers
\* about one thing overtake each other, whatever the user selects meanwhile.
THEOREM NothingAskedTwice == AttachSpec => []OneRequestEach
<1>1. AttachInv => OneRequestEach
  BY DEF AttachInv, OneEach, OneRequestEach
<1> QED BY <1>1, AttachInvariance, PTL

\* A cluster shown as attached may pull from the registry, however many registries and clusters
\* the user attaches and detaches meanwhile, if it shares its identity with none.
THEOREM ShownAttached == AttachSpec => []AttachedMayPull
<1>1. AttachInv => AttachedMayPull
  BY DEF AttachInv
<1> QED BY <1>1, AttachInvariance, PTL

-----------------------------------------------------------------------------
(* Draft                                                                   *)

PageKinds == {"none", "blank", "dockerfile", "deployment", "workflow"}
Languages == DOMAIN VersionsOf
AnyVersion == UNION {VersionsOf[l] : l \in Languages}
VersionPairs == (Languages \cup {None}) \X AnyVersion
AnyBranch == UNION {BranchesOf[g] : g \in GitRepos}
Sels == [sub : Subs \cup {None}, acr : AcrNames \cup {None}, repo : Choice(RepoNames),
         cluster : ClusterNames \cup {None}, ns : Choice(NsNames)]
Handed == [sub : Subs \cup {None}, acr : AcrNames \cup {None}, repo : RepoNames \cup {None},
           cluster : ClusterNames \cup {None}, ns : NsNames \cup {None}]
Pages == [kind : PageKinds, status : {"Editing", "Creating", "Created"},
          place : Directories \cup WorkflowNames \cup {None}, free : BOOLEAN,
          existing : SUBSET (Specs \cup {"dockerfile"} \cup WorkflowNames), picking : BOOLEAN,
          filled : BOOLEAN, lang : Languages \cup {None}, version : AnyVersion \cup {None},
          tags : VersionPairs \cup {None}, versionAsks : Seq(VersionPairs),
          sel : Sels, tag : BOOLEAN, pending : Handed,
          asked : SUBSET Keys, known : SUBSET Keys,
          git : GitRepos \cup {None}, branch : AnyBranch \cup {None}, spec : Specs]

(* What a page has asked for.                                              *)
AskedOK(p) ==
    /\ p.known \subseteq p.asked
    /\ p.asked # {} => p.kind \in {"deployment", "workflow"}
    /\ p.kind = "workflow" => \A key \in p.asked : key[1] # "tags"

(* A place that is free is not one of the user's.                          *)
PlaceOK(p) ==
    /\ p.kind \in {"dockerfile", "deployment"} => p.place \in Directories
    /\ p.kind = "workflow" => p.place \in WorkflowNames \cup {None}
    /\ p.picking => p.kind \in {"dockerfile", "deployment", "workflow"}
    /\ p.kind \in {"dockerfile", "deployment", "workflow"} /\ p.free =>
         KeyOf(p) \in FileKeys \ UsersFiles
    /\ p.status = "Editing" =>
         /\ p.kind \in {"dockerfile", "deployment"} =>
              \A w \in Writes(p) : <<p.place, w>> \in UsersFiles => w \in p.existing
         /\ p.kind = "workflow" =>
              \A n \in WorkflowNames : <<n, "workflow">> \in UsersFiles => n \in p.existing

BranchOK(p) == p.branch # None => p.git # None /\ p.branch \in BranchesOf[p.git]

RegistryOK(p) ==
    p.kind = "deployment" =>
        /\ p.sel.sub # None => HasLoaded(p, <<"subs">>)
        /\ p.sel.acr # None =>
            /\ p.sel.sub # None /\ p.sel.acr \in AcrsOf[p.sel.sub]
            /\ ExistingRepo(p) => <<p.sel.sub, p.sel.acr, p.sel.repo.value>> \in Repos

(* The last of the versions asked for is the one that is selected.         *)
VersionOK(p) ==
    /\ p.versionAsks # <<>> => p.kind = "dockerfile"
    /\ p.version # None =>
         IF p.versionAsks = <<>> THEN p.tags = <<p.lang, p.version>>
         ELSE p.versionAsks[Len(p.versionAsks)] = <<p.lang, p.version>>

(* What has arrived so far of what was handed over.                        *)
AcrOf(h) == Existing(h.sub, AcrsOf, h.acr)
ClusterOf(h) == Existing(h.sub, ClustersOf, h.cluster)
ArrivesOK(p, h) ==
    /\ p.pending = h
    /\ p.sel.sub = IF HasLoaded(p, <<"subs">>) THEN h.sub ELSE None
    /\ \A s : <<"acrs", s>> \in p.asked \/ <<"clusters", s>> \in p.asked => s = h.sub /\ s # None
    /\ p.sel.acr = IF HasLoaded(p, <<"acrs", h.sub>>) THEN AcrOf(h) ELSE None
    /\ p.sel.cluster = IF HasLoaded(p, <<"clusters", h.sub>>) THEN ClusterOf(h) ELSE None
    /\ \A s, a : <<"repos", s, a>> \in p.asked => s = h.sub /\ a = AcrOf(h) /\ a # None
    /\ p.sel.repo = IF HasLoaded(p, <<"repos", h.sub, AcrOf(h)>>)
                    THEN getSelectedExisting(h.repo, NamesOf(<<"repos", h.sub, AcrOf(h)>>),
                                             Supposed(h.repo))
                    ELSE Supposed(h.repo)
    /\ \A s, c : <<"namespaces", s, c>> \in p.asked => s = h.sub /\ c = ClusterOf(h) /\ c # None
    /\ p.sel.ns = IF HasLoaded(p, <<"namespaces", h.sub, ClusterOf(h)>>)
                  THEN getSelectedExisting(h.ns, NamesOf(<<"namespaces", h.sub, ClusterOf(h)>>),
                                           Supposed(h.ns))
                  ELSE Supposed(h.ns)

(* All but that a render asked for what it needs.                          *)
BodyOK(p, h) ==
    /\ p \in Pages /\ AskedOK(p) /\ PlaceOK(p) /\ BranchOK(p) /\ RegistryOK(p) /\ VersionOK(p)
    /\ h # None => h \in Handed /\ (p.kind = "workflow" => ArrivesOK(p, h))
    /\ p.kind = "none" => h = None
PageOK(p, h) ==
    BodyOK(p, h) /\ (p.kind = "workflow" => EnsureAzureLoaded(p) \subseteq p.asked)

UsersFilesThere == \A k \in UsersFiles : files[k] # "absent"

Makings == [kind : {"dockerfile", "deployment", "workflow"}, key : FileKeys \ UsersFiles,
            live : BOOLEAN]

DraftInv ==
    /\ PageOK(page, handed)
    /\ files \in [FileKeys -> {"absent", "user", "draft"}]
    /\ UsersFilesThere
    /\ making # None => /\ making \in Makings
                        /\ making.kind = "workflow" <=> making.key[2] = "workflow"
                        /\ making.kind = "workflow" => making.key[1] \in WorkflowNames

-----------------------------------------------------------------------------
(* A page that is not there, or that broke.                                *)
LEMMA ClosedTyped == Closed \in Pages /\ NoSelection \in Sels /\ NoSelection \in Handed
<1>1. NoSelection \in Sels
  BY DEF NoSelection, Sels, Choice
<1>2. NoSelection \in Handed
  BY DEF NoSelection, Handed
<1>3. <<>> \in Seq(VersionPairs)
  OBVIOUS
<1>4. "none" \in PageKinds
  BY DEF PageKinds
<1> QED BY <1>1, <1>2, <1>3, <1>4, KindsAssumption DEF Closed, Pages

LEMMA ClosedOK == ASSUME NEW kind \in {"none", "blank"}, NEW h, h # None => h \in Handed,
                         kind = "none" => h = None
                  PROVE  PageOK([Closed EXCEPT !.kind = kind], h)
<1> DEFINE p == [Closed EXCEPT !.kind = kind]
<1> SUFFICES PageOK(p, h)
  OBVIOUS
<1>1. Closed \in Pages
  BY ClosedTyped
<1>2. p \in Pages
  BY <1>1 DEF Pages, PageKinds
<1>3. /\ p.kind = kind /\ p.asked = {} /\ p.known = {} /\ p.branch = None /\ p.version = None
      /\ p.versionAsks = <<>> /\ p.picking = FALSE
  BY DEF Closed
<1> HIDE DEF p
<1>4. AskedOK(p) /\ BranchOK(p) /\ VersionOK(p)
  BY <1>3 DEF AskedOK, BranchOK, VersionOK
<1>5. PlaceOK(p) /\ RegistryOK(p)
  BY <1>3 DEF PlaceOK, RegistryOK
<1> QED BY <1>2, <1>3, <1>4, <1>5 DEF PageOK, BodyOK

(* What a render asks for, and for which selections.                       *)
LEMMA AzureKeys == ASSUME NEW p \in Pages
                   PROVE  /\ EnsureAzureLoaded(p) \subseteq Keys
                          /\ \A key \in EnsureAzureLoaded(p) : key[1] \notin {"tags", "branches"}
                          /\ \A s : <<"acrs", s>> \in EnsureAzureLoaded(p)
                                    \/ <<"clusters", s>> \in EnsureAzureLoaded(p)
                                => HasLoaded(p, <<"subs">>) /\ s = p.sel.sub /\ s # None
                          /\ \A s, a : <<"repos", s, a>> \in EnsureAzureLoaded(p)
                                => AcrListed(p) /\ s = p.sel.sub /\ a = p.sel.acr
                          /\ \A s, c : <<"namespaces", s, c>> \in EnsureAzureLoaded(p)
                                => ClusterListed(p) /\ s = p.sel.sub /\ c = p.sel.cluster
<1>1. /\ p.sel.sub \in Subs \cup {None} /\ p.sel.acr \in AcrNames \cup {None}
      /\ p.sel.cluster \in ClusterNames \cup {None}
  BY DEF Pages, Sels
<1>2. HasLoaded(p, <<"subs">>) /\ p.sel.sub # None
      => <<"acrs", p.sel.sub>> \in Keys /\ <<"clusters", p.sel.sub>> \in Keys
  BY <1>1 DEF Keys
<1>3. AcrListed(p) => RepositoriesKey(p) \in Keys /\ p.sel.sub # None
  BY <1>1 DEF AcrListed, Keys, RepositoriesKey
<1>4. ClusterListed(p) => NamespacesKey(p) \in Keys /\ p.sel.sub # None
  BY <1>1 DEF ClusterListed, Keys, NamespacesKey
<1>5. <<"subs">> \in Keys
  BY DEF Keys
<1>6. EnsureAzureLoaded(p) \subseteq Keys
  BY <1>2, <1>3, <1>4, <1>5 DEF EnsureAzureLoaded
<1>7. \A key \in EnsureAzureLoaded(p) : key[1] \notin {"tags", "branches"}
  BY DEF EnsureAzureLoaded, RepositoriesKey, NamespacesKey
<1>8. \A s : <<"acrs", s>> \in EnsureAzureLoaded(p) \/ <<"clusters", s>> \in EnsureAzureLoaded(p)
             => HasLoaded(p, <<"subs">>) /\ s = p.sel.sub /\ s # None
  BY DEF EnsureAzureLoaded, RepositoriesKey, NamespacesKey
<1>9. \A s, a : <<"repos", s, a>> \in EnsureAzureLoaded(p)
                => AcrListed(p) /\ s = p.sel.sub /\ a = p.sel.acr
  BY DEF EnsureAzureLoaded, RepositoriesKey, NamespacesKey
<1>10. \A s, c : <<"namespaces", s, c>> \in EnsureAzureLoaded(p)
                => ClusterListed(p) /\ s = p.sel.sub /\ c = p.sel.cluster
  BY DEF EnsureAzureLoaded, RepositoriesKey, NamespacesKey
<1> QED BY <1>6, <1>7, <1>8, <1>9, <1>10

(* The loaders of the two pages.                                           *)
LEMMA PageKeys == ASSUME NEW p \in Pages
                  PROVE  /\ prepareData(p) \subseteq Keys
                         /\ prepareData(p) # {} => p.kind \in {"deployment", "workflow"}
                         /\ p.kind = "workflow" =>
                              /\ \A key \in prepareData(p) : key[1] # "tags"
                              /\ EnsureAzureLoaded(p) \subseteq prepareData(p)
                              /\ \A key \in prepareData(p) : key[1] # "branches"
                                   => key \in EnsureAzureLoaded(p)
<1>1. /\ p.sel.sub \in Subs \cup {None} /\ p.sel.acr \in AcrNames \cup {None}
      /\ p.sel.repo \in Choice(RepoNames) /\ p.git \in GitRepos \cup {None}
  BY DEF Pages, Sels
<1>2. AcrListed(p) /\ ExistingRepo(p)
      => <<"tags", p.sel.sub, p.sel.acr, p.sel.repo.value>> \in Keys
  <2>1. ExistingRepo(p) => p.sel.repo.value \in RepoNames
    BY <1>1 DEF ExistingRepo, Choice
  <2> QED BY <1>1, <2>1 DEF AcrListed, Keys
<1>3. p.git # None => <<"branches", p.git>> \in Keys
  BY <1>1 DEF Keys
<1>4. EnsureDeploymentLoaded(p) \subseteq Keys
  BY <1>2, AzureKeys DEF EnsureDeploymentLoaded
<1>5. EnsureWorkflowLoaded(p) \subseteq Keys
  BY <1>3, AzureKeys DEF EnsureWorkflowLoaded
<1>6. CASE p.kind = "workflow"
  <2>1. prepareData(p) = EnsureWorkflowLoaded(p)
    BY <1>6 DEF prepareData
  <2>2. \A key \in prepareData(p) : key \in EnsureAzureLoaded(p) \/ key = <<"branches", p.git>>
    BY <2>1 DEF EnsureWorkflowLoaded
  <2>3. EnsureAzureLoaded(p) \subseteq prepareData(p)
    BY <2>1 DEF EnsureWorkflowLoaded
  <2> QED BY <1>5, <1>6, <2>1, <2>2, <2>3, AzureKeys
<1>7. CASE p.kind = "deployment"
  BY <1>4, <1>7 DEF prepareData
<1>8. CASE p.kind \notin {"deployment", "workflow"}
  BY <1>8 DEF prepareData
<1> QED BY <1>6, <1>7, <1>8

(* A render keeps what holds of a page, and then it has asked for all it   *)
(* needs.                                                                  *)
LEMMA RenderOK == ASSUME NEW p, NEW h, BodyOK(p, h)
                  PROVE  PageOK(Render(p), h)
<1>1. CASE Throws(p)
  <2>1. Render(p) = [Closed EXCEPT !.kind = "blank"]
    BY <1>1 DEF Render
  <2> QED BY <2>1, ClosedOK DEF BodyOK
<1>2. CASE ~Throws(p)
  <2> DEFINE q == Render(p)
  <2> SUFFICES PageOK(q, h) BY DEF q
  <2>1. p \in Pages /\ AskedOK(p) /\ PlaceOK(p) /\ BranchOK(p) /\ RegistryOK(p) /\ VersionOK(p)
    BY DEF BodyOK
  <2>2. q = [p EXCEPT !.asked = p.asked \cup prepareData(p)]
    BY <1>2 DEF Render
  <2>3. p.asked \cup prepareData(p) \in SUBSET Keys
    BY <2>1, PageKeys DEF Pages
  <2>4. q \in Pages
    BY <2>1, <2>2, <2>3 DEF Pages
  <2>5. q.asked = p.asked \cup prepareData(p)
    BY <2>1, <2>2 DEF Pages
  <2>6. /\ q.kind = p.kind /\ q.status = p.status /\ q.place = p.place /\ q.free = p.free
        /\ q.existing = p.existing /\ q.spec = p.spec /\ q.sel = p.sel /\ q.pending = p.pending
        /\ q.known = p.known /\ q.git = p.git /\ q.branch = p.branch
        /\ q.lang = p.lang /\ q.version = p.version /\ q.tags = p.tags
        /\ q.versionAsks = p.versionAsks /\ q.picking = p.picking
    BY <2>1, <2>2 DEF Pages
  <2> HIDE DEF q
  <2>7. AskedOK(q)
    BY <2>1, <2>5, <2>6, PageKeys DEF AskedOK
  <2>8. PlaceOK(q)
    BY <2>1, <2>6 DEF PlaceOK, KeyOf, What, Writes
  <2>9. BranchOK(q) /\ VersionOK(q)
    BY <2>1, <2>6 DEF BranchOK, VersionOK
  <2>10. RegistryOK(q)
    BY <2>1, <2>6 DEF RegistryOK, HasLoaded, ExistingRepo
  <2>11. EnsureAzureLoaded(q) = EnsureAzureLoaded(p)
    BY <2>6 DEF EnsureAzureLoaded, HasLoaded, AcrListed, ClusterListed, RepositoriesKey,
                NamespacesKey
  <2>12. q.kind = "workflow" => EnsureAzureLoaded(q) \subseteq q.asked
    BY <2>1, <2>5, <2>6, <2>11, PageKeys
  <2>13. ASSUME h # None, p.kind = "workflow" PROVE ArrivesOK(q, h)
    <3>1. ArrivesOK(p, h)
      BY <2>13 DEF BodyOK
    <3>2. \A key \in q.asked :
             key \in p.asked \/ key \in EnsureAzureLoaded(p) \/ key[1] = "branches"
      BY <2>1, <2>5, <2>13, PageKeys
    <3>3. \A s : <<"acrs", s>> \in q.asked \/ <<"clusters", s>> \in q.asked
                 => s = h.sub /\ s # None
      BY <2>1, <3>1, <3>2, AzureKeys DEF ArrivesOK
    <3>4. \A s, a : <<"repos", s, a>> \in q.asked => s = h.sub /\ a = AcrOf(h) /\ a # None
      BY ZenonT(30), <2>1, <3>1, <3>2, AzureKeys DEF ArrivesOK, AcrListed
    <3>5. \A s, c : <<"namespaces", s, c>> \in q.asked
                    => s = h.sub /\ c = ClusterOf(h) /\ c # None
      BY ZenonT(30), <2>1, <3>1, <3>2, AzureKeys DEF ArrivesOK, ClusterListed
    <3> QED BY <2>6, <3>1, <3>3, <3>4, <3>5 DEF ArrivesOK, HasLoaded
  <2> QED BY <2>4, <2>6, <2>7, <2>8, <2>9, <2>10, <2>12, <2>13 DEF PageOK, BodyOK
<1> QED BY <1>1, <1>2

SamePlace(p, q) == /\ q.status = p.status /\ q.place = p.place /\ q.free = p.free
                   /\ q.existing = p.existing /\ q.spec = p.spec /\ q.picking = p.picking
SameBranch(p, q) == q.git = p.git /\ q.branch = p.branch
SameVersion(p, q) == /\ q.lang = p.lang /\ q.version = p.version /\ q.tags = p.tags
                     /\ q.versionAsks = p.versionAsks
SameLists(p, q) == q.asked = p.asked /\ q.known = p.known
SameAzure(p, q) == q.sel = p.sel /\ q.pending = p.pending

(* What does not depend on the changed fields still holds.                 *)
LEMMA Untouched == ASSUME NEW p, NEW q, NEW h, BodyOK(p, h), q.kind = p.kind
                   PROVE  /\ SameLists(p, q) => AskedOK(q)
                          /\ SamePlace(p, q) => PlaceOK(q)
                          /\ SameBranch(p, q) => BranchOK(q)
                          /\ SameLists(p, q) /\ SameAzure(p, q) => RegistryOK(q)
                          /\ SameVersion(p, q) => VersionOK(q)
                          /\ h # None => h \in Handed
                          /\ q.kind = "none" => h = None
                          /\ h # None /\ q.kind = "workflow" /\ SameLists(p, q) /\ SameAzure(p, q)
                             => ArrivesOK(q, h)
<1>1. AskedOK(p) /\ PlaceOK(p) /\ BranchOK(p) /\ RegistryOK(p) /\ VersionOK(p)
  BY DEF BodyOK
<1>2. SameLists(p, q) => AskedOK(q)
  BY <1>1 DEF AskedOK, SameLists
<1>3. SamePlace(p, q) => PlaceOK(q)
  BY <1>1 DEF PlaceOK, KeyOf, What, Writes, SamePlace
<1>4. SameBranch(p, q) => BranchOK(q)
  BY <1>1 DEF BranchOK, SameBranch
<1>5. SameLists(p, q) /\ SameAzure(p, q) => RegistryOK(q)
  BY <1>1 DEF RegistryOK, HasLoaded, ExistingRepo, SameLists, SameAzure
<1>6. SameVersion(p, q) => VersionOK(q)
  BY <1>1 DEF VersionOK, SameVersion
<1>7. (h # None => h \in Handed) /\ (q.kind = "none" => h = None)
  BY DEF BodyOK
<1>8. ASSUME h # None, q.kind = "workflow", SameLists(p, q), SameAzure(p, q)
      PROVE  ArrivesOK(q, h)
  <2>1. ArrivesOK(p, h)
    BY <1>8 DEF BodyOK
  <2> QED BY <1>8, <2>1 DEF ArrivesOK, HasLoaded, SameLists, SameAzure
<1> QED BY <1>2, <1>3, <1>4, <1>5, <1>6, <1>7, <1>8

FitFor(p, S) ==
    p.kind = "deployment" =>
        /\ S.sub # None => HasLoaded(p, <<"subs">>)
        /\ S.acr # None =>
            /\ S.sub # None /\ S.acr \in AcrsOf[S.sub]
            /\ S.repo # None /\ ~S.repo.isNew => <<S.sub, S.acr, S.repo.value>> \in Repos

(* Another selection: what was handed over no longer counts.               *)
LEMMA Selecting == ASSUME NEW p, NEW h, BodyOK(p, h),
                          NEW S \in Sels, NEW P \in Handed, NEW t \in BOOLEAN,
                          FitFor(p, S)
                   PROVE  PageOK(Render([p EXCEPT !.pending = P, !.sel = S, !.tag = t]), None)
<1> DEFINE q == [p EXCEPT !.pending = P, !.sel = S, !.tag = t]
<1> SUFFICES BodyOK(q, None)
  BY RenderOK
<1>1. p \in Pages
  BY DEF BodyOK
<1>2. q \in Pages
  BY <1>1 DEF Pages
<1>3. /\ q.kind = p.kind /\ q.sel = S /\ SamePlace(p, q) /\ SameBranch(p, q)
      /\ SameVersion(p, q) /\ SameLists(p, q)
  BY <1>1 DEF Pages, SamePlace, SameBranch, SameVersion, SameLists
<1> HIDE DEF q
<1>4. RegistryOK(q)
  BY <1>3 DEF RegistryOK, FitFor, ExistingRepo, HasLoaded, SameLists
<1> QED BY <1>2, <1>3, <1>4, Untouched DEF BodyOK

(* Fields of the user's own: what was handed over stays.                   *)
LEMMA Filling == ASSUME NEW p, NEW q, NEW h, BodyOK(p, h), q \in Pages, q.kind = p.kind,
                        SameLists(p, q), SameAzure(p, q),
                        PlaceOK(q), BranchOK(q), VersionOK(q)
                 PROVE  BodyOK(q, h)
BY Untouched DEF BodyOK

(* The rest of the invariant, where no file and no creation changes.       *)
LEMMA PageStep == ASSUME DraftInv, PageOK(page', handed'), UNCHANGED <<files, making>>
                  PROVE  DraftInv'
BY DEF DraftInv, UsersFilesThere, PageOK, BodyOK, EnsureAzureLoaded

(* A selection that fits the page's lists.                                 *)
LEMMA Choosing == ASSUME DraftInv, NEW S \in Sels, NEW P \in Handed, NEW t \in BOOLEAN,
                         FitFor(page, S),
                         Selects([page EXCEPT !.pending = P, !.sel = S, !.tag = t])
                  PROVE  DraftInv'
<1>1. BodyOK(page, handed)
  BY DEF DraftInv, PageOK
<1>2. PageOK(Render([page EXCEPT !.pending = P, !.sel = S, !.tag = t]), None)
  BY <1>1, Selecting
<1>3. PageOK(page', handed')
  BY <1>2 DEF Selects
<1> QED BY <1>3, PageStep DEF Selects

(* The selections of Azure.                                                *)
LEMMA ChooseStep == ASSUME DraftInv, Chooses PROVE DraftInv'
<1> DEFINE S0 == page.sel
           P0 == page.pending
<1>1. page \in Pages /\ RegistryOK(page)
  BY DEF DraftInv, PageOK, BodyOK
<1>2. S0 \in Sels /\ P0 \in Handed /\ page.tag \in BOOLEAN /\ FitFor(page, S0)
  BY <1>1 DEF Pages, RegistryOK, ExistingRepo, FitFor
<1>3. /\ S0.sub \in Subs \cup {None} /\ S0.acr \in AcrNames \cup {None}
      /\ S0.repo \in Choice(RepoNames) /\ None \in Choice(RepoNames) /\ None \in Choice(NsNames)
  BY <1>2 DEF Sels, Choice
<1> HIDE DEF S0, P0
<1>a. S0 = page.sel /\ P0 = page.pending
  BY DEF S0, P0
<1>4. ASSUME NEW s, setSelectedSubscription(s) PROVE DraftInv'
  <2> DEFINE S == [NoSelection EXCEPT !.sub = s]
             P == [P0 EXCEPT !.sub = None]
  <2>1. s \in Subs \cup {None} /\ (s # None => HasLoaded(page, <<"subs">>))
    BY <1>4 DEF setSelectedSubscription, Offered
  <2>2. NoSelection \in Sels
    BY DEF NoSelection, Sels, Choice
  <2>3. S \in Sels
    BY <2>1, <2>2 DEF Sels
  <2>4. P \in Handed
    BY <1>2 DEF Handed
  <2>5. S.sub = s /\ S.acr = None
    BY DEF NoSelection
  <2>6. Selects([page EXCEPT !.pending = P, !.sel = S, !.tag = FALSE])
    BY <1>4, <1>a DEF setSelectedSubscription
  <2> HIDE DEF S, P
  <2>7. FitFor(page, S)
    BY <2>1, <2>5 DEF FitFor
  <2> QED BY <2>3, <2>4, <2>6, <2>7, Choosing
<1>5. ASSUME NEW a \in AcrNames \cup {None}, setSelectedAcr(a) PROVE DraftInv'
  <2> DEFINE S == [S0 EXCEPT !.acr = a, !.repo = None]
             P == [P0 EXCEPT !.acr = None]
  <2>1. a \in AcrsOf[S0.sub] \cup {None}
    BY <1>5, <1>a DEF setSelectedAcr, Offered
  <2>2. a # None /\ page.kind = "deployment" => S0.sub # None
    BY <1>5, <1>a DEF setSelectedAcr, Shows, DeploymentFields, DeploymentDetails
  <2>4. S \in Sels
    BY <1>2, <1>3 DEF Sels
  <2>5. P \in Handed
    BY <1>2 DEF Handed
  <2>6. S.sub = S0.sub /\ S.acr = a /\ S.repo = None
    BY <1>2 DEF Sels
  <2>7. Selects([page EXCEPT !.pending = P, !.sel = S, !.tag = FALSE])
    BY <1>1, <1>5, <1>a DEF setSelectedAcr, Pages, Sels, Handed
  <2> HIDE DEF S, P
  <2>8. FitFor(page, S)
    BY <1>2, <2>1, <2>2, <2>6 DEF FitFor
  <2> QED BY <2>4, <2>5, <2>7, <2>8, Choosing
<1>6. ASSUME NEW r, setSelectedRepositoryName(r) PROVE DraftInv'
  <2> DEFINE S == [S0 EXCEPT !.repo = r]
             P == [P0 EXCEPT !.repo = None]
  <2>1. r = None \/ \E n \in RepoNames, b \in BOOLEAN : r = [value |-> n, isNew |-> b]
    BY <1>6 DEF setSelectedRepositoryName, Typed
  <2>2. r \in Choice(RepoNames)
    BY <2>1 DEF Choice
  <2>3. r # None /\ ~r.isNew => <<S0.sub, S0.acr, r.value>> \in Repos
    <3>1. ASSUME NEW n \in RepoNames, NEW b \in BOOLEAN, r = [value |-> n, isNew |-> b]
          PROVE  r.value = n /\ r.isNew = b
      BY <3>1
    <3>2. \A n \in RepoNames :
             r = [value |-> n, isNew |-> ~(/\ HasLoaded(page, RepositoriesKey(page))
                                           /\ <<S0.sub, S0.acr, n>> \in Repos)]
             => r.value = n /\ (~r.isNew => <<S0.sub, S0.acr, n>> \in Repos)
      BY <3>1, Zenon
    <3> QED BY <1>6, <1>a, <3>2 DEF setSelectedRepositoryName, Typed
  <2>4. S \in Sels
    BY <1>2, <2>2 DEF Sels
  <2>5. P \in Handed
    BY <1>2 DEF Handed
  <2>6. S.sub = S0.sub /\ S.acr = S0.acr /\ S.repo = r
    BY <1>2 DEF Sels
  <2>7. Selects([page EXCEPT !.pending = P, !.sel = S, !.tag = FALSE])
    BY <1>1, <1>6, <1>a DEF setSelectedRepositoryName, Pages, Sels, Handed
  <2> HIDE DEF S, P
  <2>8. FitFor(page, S)
    BY <1>2, <2>3, <2>6 DEF FitFor
  <2> QED BY <2>4, <2>5, <2>7, <2>8, Choosing
<1>7. ASSUME NEW chosen \in BOOLEAN, setSelectedAcrRepoTag(chosen) PROVE DraftInv'
  <2>1. Selects([page EXCEPT !.pending = P0, !.sel = S0, !.tag = chosen])
    BY <1>1, <1>7, <1>a DEF setSelectedAcrRepoTag, Pages
  <2> QED BY <1>2, <2>1, Choosing
<1>8. ASSUME NEW c \in ClusterNames \cup {None}, setSelectedCluster(c) PROVE DraftInv'
  <2> DEFINE S == [S0 EXCEPT !.cluster = c, !.ns = None]
             P == [P0 EXCEPT !.cluster = None]
  <2>4. S \in Sels
    BY <1>2, <1>3 DEF Sels
  <2>5. P \in Handed
    BY <1>2 DEF Handed
  <2>6. S.sub = S0.sub /\ S.acr = S0.acr /\ S.repo = S0.repo
    BY <1>2 DEF Sels
  <2>7. Selects([page EXCEPT !.pending = P, !.sel = S, !.tag = page.tag])
    BY <1>1, <1>8, <1>a DEF setSelectedCluster, Pages, Sels, Handed
  <2> HIDE DEF S, P
  <2>8. FitFor(page, S)
    BY <1>2, <2>6 DEF FitFor
  <2> QED BY <1>2, <2>4, <2>5, <2>7, <2>8, Choosing
<1>9. ASSUME NEW n, setSelectedClusterNamespace(n) PROVE DraftInv'
  <2> DEFINE S == [S0 EXCEPT !.ns = n]
             P == [P0 EXCEPT !.ns = None]
  <2>1. n = None \/ \E x \in NsNames, b \in BOOLEAN : n = [value |-> x, isNew |-> b]
    BY <1>9 DEF setSelectedClusterNamespace, Typed
  <2>2. n \in Choice(NsNames)
    BY <2>1 DEF Choice
  <2>4. S \in Sels
    BY <1>2, <2>2 DEF Sels
  <2>5. P \in Handed
    BY <1>2 DEF Handed
  <2>6. S.sub = S0.sub /\ S.acr = S0.acr /\ S.repo = S0.repo
    BY <1>2 DEF Sels
  <2>7. Selects([page EXCEPT !.pending = P, !.sel = S, !.tag = page.tag])
    BY <1>1, <1>9, <1>a DEF setSelectedClusterNamespace, Pages, Sels, Handed
  <2> HIDE DEF S, P
  <2>8. FitFor(page, S)
    BY <1>2, <2>6 DEF FitFor
  <2> QED BY <1>2, <2>4, <2>5, <2>7, <2>8, Choosing
<1> QED BY <1>4, <1>5, <1>6, <1>7, <1>8, <1>9 DEF Chooses

(* Where only the user's own fields change.                                *)
LEMMA FillsOK == ASSUME DraftInv, NEW q, BodyOK(q, handed), Fills(q)
                 PROVE  DraftInv'
<1>1. PageOK(page', handed')
  BY RenderOK DEF Fills
<1> QED BY <1>1, PageStep DEF Fills

(* The other fields of the forms.                                          *)
LEMMA FillStep == ASSUME DraftInv,
                         \/ \E valid \in BOOLEAN : fillIn(valid)
                         \/ \E spec \in Specs : setSelectedDeploymentSpecType(spec)
                         \/ \E n \in WorkflowNames \cup {None} : setSelectedWorkflowName(n)
                         \/ \E g \in GitRepos \cup {None} : setSelectedGitHubRepo(g)
                         \/ \E b \in AnyBranch \cup {None} : setSelectedBranchName(b)
                  PROVE  DraftInv'
<1>1. BodyOK(page, handed) /\ page \in Pages /\ PlaceOK(page) /\ BranchOK(page) /\ VersionOK(page)
  BY DEF DraftInv, PageOK, BodyOK
<1>2. ASSUME NEW valid \in BOOLEAN, fillIn(valid) PROVE DraftInv'
  <2> DEFINE q == [page EXCEPT !.filled = valid]
  <2>1. q \in Pages
    BY <1>1 DEF Pages
  <2>2. /\ q.kind = page.kind /\ SameLists(page, q) /\ SameAzure(page, q)
        /\ SamePlace(page, q) /\ SameBranch(page, q) /\ SameVersion(page, q)
    BY <1>1 DEF Pages, SameLists, SameAzure, SamePlace, SameBranch, SameVersion
  <2>3. Fills(q)
    BY <1>2 DEF fillIn
  <2> HIDE DEF q
  <2>4. BodyOK(q, handed)
    BY <1>1, <2>1, <2>2, Untouched, Filling
  <2> QED BY <2>3, <2>4, FillsOK
<1>3. ASSUME NEW spec \in Specs, setSelectedDeploymentSpecType(spec) PROVE DraftInv'
  <2> DEFINE free == spec \notin page.existing
             q == [page EXCEPT !.spec = spec, !.free = free]
  <2>a. Fills(q)
    BY <1>3 DEF setSelectedDeploymentSpecType
  <2>b. free \in BOOLEAN /\ (free => spec \notin page.existing)
    OBVIOUS
  <2> HIDE DEF free
  <2>1. q \in Pages
    BY <1>1, <2>b DEF Pages
  <2>2. /\ q.kind = page.kind /\ SameLists(page, q) /\ SameAzure(page, q)
        /\ SameBranch(page, q) /\ SameVersion(page, q)
    BY <1>1 DEF Pages, SameLists, SameAzure, SameBranch, SameVersion
  <2>3. /\ q.status = page.status /\ q.place = page.place /\ q.existing = page.existing
        /\ q.spec = spec /\ q.free = free
    BY <1>1 DEF Pages
  <2>4. page.kind = "deployment" /\ page.status = "Editing"
    BY <1>3 DEF setSelectedDeploymentSpecType, OtherFields, Editing, Shows, DockerfileFields,
               WorkflowProperties, WorkflowFields
  <2> HIDE DEF q
  <2>5. PlaceOK(q)
    BY <1>1, <2>b, <2>2, <2>3, <2>4 DEF PlaceOK, KeyOf, What, Writes, FileKeys
  <2>6. BodyOK(q, handed)
    BY <1>1, <2>1, <2>2, <2>5, Untouched, Filling
  <2> QED BY <2>a, <2>6, FillsOK
<1>4. ASSUME NEW n \in WorkflowNames \cup {None}, setSelectedWorkflowName(n) PROVE DraftInv'
  <2> DEFINE free == n # None /\ n \notin page.existing
             q == [page EXCEPT !.place = n, !.free = free]
  <2>a. Fills(q)
    BY <1>4 DEF setSelectedWorkflowName
  <2>b. free \in BOOLEAN /\ (free => n # None /\ n \notin page.existing)
    OBVIOUS
  <2> HIDE DEF free
  <2>1. q \in Pages
    BY <1>1, <2>b DEF Pages
  <2>2. /\ q.kind = page.kind /\ SameLists(page, q) /\ SameAzure(page, q)
        /\ SameBranch(page, q) /\ SameVersion(page, q)
    BY <1>1 DEF Pages, SameLists, SameAzure, SameBranch, SameVersion
  <2>3. /\ q.status = page.status /\ q.place = n /\ q.existing = page.existing
        /\ q.free = free
    BY <1>1 DEF Pages
  <2>4. page.kind = "workflow" /\ page.status = "Editing"
    BY <1>4 DEF setSelectedWorkflowName, OtherFields, Editing
  <2> HIDE DEF q
  <2>5. PlaceOK(q)
    BY <1>1, <2>b, <2>2, <2>3, <2>4 DEF PlaceOK, KeyOf, What, Writes, FileKeys
  <2>6. BodyOK(q, handed)
    BY <1>1, <2>1, <2>2, <2>5, Untouched, Filling
  <2> QED BY <2>a, <2>6, FillsOK
<1>5. ASSUME NEW g \in GitRepos \cup {None}, setSelectedGitHubRepo(g) PROVE DraftInv'
  <2> DEFINE b == IF g = None THEN None
                  ELSE getSelectedBranch(g, g, getKnownBranches(page, g))
             q == [page EXCEPT !.git = g, !.branch = b]
  <2>1. b # None => g # None /\ b \in BranchesOf[g]
    BY DEF getSelectedBranch, getKnownBranches
  <2>2. b \in AnyBranch \cup {None}
    BY <2>1 DEF AnyBranch
  <2>3. Fills(q)
    BY <1>5 DEF setSelectedGitHubRepo
  <2> HIDE DEF b
  <2>4. q \in Pages
    BY <1>1, <2>2 DEF Pages
  <2>5. /\ q.kind = page.kind /\ SameLists(page, q) /\ SameAzure(page, q)
        /\ SamePlace(page, q) /\ SameVersion(page, q) /\ q.git = g /\ q.branch = b
    BY <1>1 DEF Pages, SameLists, SameAzure, SamePlace, SameVersion
  <2> HIDE DEF q
  <2>6. BranchOK(q)
    BY <2>1, <2>5 DEF BranchOK
  <2>7. BodyOK(q, handed)
    BY <1>1, <2>4, <2>5, <2>6, Untouched, Filling
  <2> QED BY <2>3, <2>7, FillsOK
<1>6. ASSUME NEW b \in AnyBranch \cup {None}, setSelectedBranchName(b) PROVE DraftInv'
  <2> DEFINE q == [page EXCEPT !.branch = b]
  <2>1. q \in Pages
    BY <1>1 DEF Pages
  <2>2. /\ q.kind = page.kind /\ SameLists(page, q) /\ SameAzure(page, q)
        /\ SamePlace(page, q) /\ SameVersion(page, q) /\ q.git = page.git /\ q.branch = b
    BY <1>1 DEF Pages, SameLists, SameAzure, SamePlace, SameVersion
  <2>3. Fills(q)
    BY <1>6 DEF setSelectedBranchName
  <2>4. page.git # None
    BY <1>6 DEF setSelectedBranchName, OtherFields, Shows, DockerfileFields, DeploymentFields,
               DeploymentDetails, WorkflowProperties, WorkflowFields
  <2>5. b # None => b \in BranchesOf[page.git]
    BY <1>6 DEF setSelectedBranchName, Offered
  <2> HIDE DEF q
  <2>6. BranchOK(q)
    BY <2>2, <2>4, <2>5 DEF BranchOK
  <2>7. BodyOK(q, handed)
    BY <1>1, <2>1, <2>2, <2>6, Untouched, Filling
  <2> QED BY <2>3, <2>7, FillsOK
<1> QED BY <1>2, <1>3, <1>4, <1>5, <1>6

(* Taking the first element of a sequence leaves the last where it is.     *)
LEMMA TailKeepsLast == ASSUME NEW S, NEW s \in Seq(S), s # <<>>
                       PROVE  /\ Tail(s) = <<>> => Head(s) = s[Len(s)]
                              /\ Tail(s) # <<>> => Tail(s)[Len(Tail(s))] = s[Len(s)]
<1>1. Len(s) \in Nat \ {0} /\ Len(Tail(s)) = Len(s) - 1 /\ Tail(s) \in Seq(S)
  BY EmptySeq, HeadTailProperties
<1>2. \A i \in 1..Len(Tail(s)) : Tail(s)[i] = s[i + 1]
  BY HeadTailProperties
<1>3. Head(s) = s[1]
  OBVIOUS
<1>a. Len(Tail(s)) = 0 => Len(s) = 1
  <2> DEFINE n == Len(s)
             m == Len(Tail(s))
  <2>1. n \in Nat /\ m = n - 1
    BY <1>1
  <2> HIDE DEF n, m
  <2>2. m = 0 => n = 1
    BY <2>1
  <2> QED BY <2>2 DEF n, m
<1>b. Tail(s) = <<>> => Len(Tail(s)) = 0
  BY Zenon, EmptySeq
<1>4. Tail(s) = <<>> => Len(s) = 1
  BY <1>a, <1>b
<1>5. ASSUME Tail(s) # <<>> PROVE Tail(s)[Len(Tail(s))] = s[Len(s)]
  <2>1. Len(Tail(s)) \in Nat \ {0}
    BY <1>1, <1>5, EmptySeq
  <2> QED BY <1>1, <1>2, <2>1
<1> QED BY <1>3, <1>4, <1>5

(* The Dockerfile page asks nothing of Azure: it is not rendered again.    *)
LEMMA VersionsOK == ASSUME DraftInv, NEW q, q \in Pages, page.kind = "dockerfile",
                           q.kind = page.kind, SameLists(page, q), SameAzure(page, q),
                           SamePlace(page, q), SameBranch(page, q), VersionOK(q),
                           page' = q, UNCHANGED <<files, making, handed>>
                    PROVE  DraftInv'
<1>1. BodyOK(page, handed)
  BY DEF DraftInv, PageOK
<1>2. BodyOK(q, handed)
  BY <1>1, Untouched, Filling
<1>3. PageOK(page', handed')
  BY <1>2 DEF PageOK
<1> QED BY <1>3, PageStep

(* Languages and versions: the last answer that is awaited is the one      *)
(* that counts.                                                            *)
LEMMA VersionStep == ASSUME DraftInv,
                            \/ \E l \in Languages \cup {None} : setSelectedLanguage(l)
                            \/ \E v \in AnyVersion \cup {None} : setSelectedLanguageVersion(v)
                            \/ getLanguageVersionInfoResponse
                     PROVE  DraftInv'
<1>1. /\ page \in Pages /\ VersionOK(page) /\ page.lang \in Languages \cup {None}
      /\ page.version \in AnyVersion \cup {None} /\ page.tags \in VersionPairs \cup {None}
      /\ page.versionAsks \in Seq(VersionPairs)
  BY DEF DraftInv, PageOK, BodyOK, Pages
<1>2. ASSUME NEW l \in Languages \cup {None}, setSelectedLanguage(l) PROVE DraftInv'
  <2> DEFINE q == [page EXCEPT !.lang = l, !.version = None, !.filled = TRUE]
  <2>1. q \in Pages
    BY <1>1 DEF Pages
  <2>2. /\ q.kind = page.kind /\ SameLists(page, q) /\ SameAzure(page, q)
        /\ SamePlace(page, q) /\ SameBranch(page, q) /\ q.version = None
    BY <1>1 DEF Pages, SameLists, SameAzure, SamePlace, SameBranch
  <2>3. page.kind = "dockerfile" /\ page' = q /\ UNCHANGED <<files, making, handed>>
    BY <1>2 DEF setSelectedLanguage, Shows, DeploymentFields, DeploymentDetails,
               WorkflowProperties, WorkflowFields
  <2> HIDE DEF q
  <2>4. VersionOK(q)
    BY <2>2, <2>3 DEF VersionOK
  <2> QED BY <2>1, <2>2, <2>3, <2>4, VersionsOK
<1>3. ASSUME NEW v \in AnyVersion \cup {None}, setSelectedLanguageVersion(v) PROVE DraftInv'
  <2> DEFINE asks == IF v = None THEN page.versionAsks
                     ELSE Append(page.versionAsks, <<page.lang, v>>)
             q == [page EXCEPT !.version = v, !.versionAsks = asks]
  <2>1. v # None => <<page.lang, v>> \in VersionPairs
    BY <1>1 DEF VersionPairs
  <2>2. asks \in Seq(VersionPairs)
    BY <1>1, <2>1
  <2>3. v # None => asks # <<>> /\ asks[Len(asks)] = <<page.lang, v>>
    BY <1>1, <2>1
  <2>4. page.kind = "dockerfile" /\ page' = q /\ UNCHANGED <<files, making, handed>>
    BY <1>1, <1>3 DEF setSelectedLanguageVersion, Shows, DeploymentFields, DeploymentDetails,
               WorkflowProperties, WorkflowFields
  <2> HIDE DEF asks
  <2>5. q \in Pages
    BY <1>1, <2>2 DEF Pages
  <2>6. /\ q.kind = page.kind /\ SameLists(page, q) /\ SameAzure(page, q)
        /\ SamePlace(page, q) /\ SameBranch(page, q)
        /\ q.version = v /\ q.versionAsks = asks /\ q.lang = page.lang
    BY <1>1 DEF Pages, SameLists, SameAzure, SamePlace, SameBranch
  <2> HIDE DEF q
  <2>7. VersionOK(q)
    BY <2>3, <2>4, <2>6 DEF VersionOK
  <2> QED BY <2>4, <2>5, <2>6, <2>7, VersionsOK
<1>4. CASE getLanguageVersionInfoResponse
  <2> DEFINE asks == page.versionAsks
             answer == Head(asks)
             tags == IF page.lang = answer[1] THEN answer ELSE page.tags
             q == [page EXCEPT !.versionAsks = Tail(asks), !.tags = tags]
  <2>1. asks # <<>> /\ page' = q /\ UNCHANGED <<files, making, handed>>
    BY <1>1, <1>4 DEF getLanguageVersionInfoResponse
  <2>2. answer \in VersionPairs /\ Tail(asks) \in Seq(VersionPairs)
    BY <1>1, <2>1
  <2>3. tags \in VersionPairs \cup {None}
    BY <1>1, <2>2
  <2>4. page.version # None => asks[Len(asks)] = <<page.lang, page.version>>
    BY <1>1, <2>1 DEF VersionOK
  <2>5. page.version # None => IF Tail(asks) = <<>> THEN tags = <<page.lang, page.version>>
                               ELSE Tail(asks)[Len(Tail(asks))] = <<page.lang, page.version>>
    <3>1. /\ Tail(asks) = <<>> => answer = asks[Len(asks)]
          /\ Tail(asks) # <<>> => Tail(asks)[Len(Tail(asks))] = asks[Len(asks)]
      BY <1>1, <2>1, TailKeepsLast
    <3> QED BY <2>4, <3>1
  <2> HIDE DEF answer, tags
  <2>6. q \in Pages
    BY <1>1, <2>2, <2>3 DEF Pages
  <2>7. /\ q.kind = page.kind /\ SameLists(page, q) /\ SameAzure(page, q)
        /\ SamePlace(page, q) /\ SameBranch(page, q) /\ q.version = page.version
        /\ q.versionAsks = Tail(asks) /\ q.tags = tags /\ q.lang = page.lang
    BY <1>1 DEF Pages, SameLists, SameAzure, SamePlace, SameBranch
  <2> HIDE DEF q
  <2>9. page.kind = "dockerfile"
    BY <1>1, <2>1 DEF VersionOK
  <2>8. VersionOK(q)
    BY <2>5, <2>7, <2>9 DEF VersionOK
  <2> QED BY <2>1, <2>6, <2>7, <2>8, <2>9, VersionsOK
<1> QED BY <1>2, <1>3, <1>4

(* A request is for one of the lists.                                      *)
LEMMA KeyShapes == ASSUME NEW key \in Keys
                   PROVE  \/ key = <<"subs">> /\ key[1] = "subs"
                          \/ \E s \in Subs : key = <<"acrs", s>> /\ key[1] = "acrs" /\ key[2] = s
                          \/ \E s \in Subs :
                                key = <<"clusters", s>> /\ key[1] = "clusters" /\ key[2] = s
                          \/ \E s \in Subs, a \in AcrNames :
                                /\ key = <<"repos", s, a>>
                                /\ key[1] = "repos" /\ key[2] = s /\ key[3] = a
                          \/ \E s \in Subs, c \in ClusterNames :
                                /\ key = <<"namespaces", s, c>>
                                /\ key[1] = "namespaces" /\ key[2] = s /\ key[3] = c
                          \/ \E g \in GitRepos :
                                key = <<"branches", g>> /\ key[1] = "branches" /\ key[2] = g
                          \/ key[1] = "tags"
<1>1. CASE key \in {<<"subs">>} \cup ({"acrs", "clusters"} \X Subs)
  BY <1>1
<1>2. CASE key \in {"repos"} \X Subs \X AcrNames
  BY <1>2
<1>3. CASE key \in {"tags"} \X Subs \X AcrNames \X RepoNames
  BY <1>3
<1>4. CASE key \in {"namespaces"} \X Subs \X ClusterNames
  BY <1>4
<1>5. CASE key \in {"branches"} \X GitRepos
  BY <1>5
<1> QED BY <1>1, <1>2, <1>3, <1>4, <1>5 DEF Keys

(* The answer makes a list known, and may select of it.                    *)
Took(p, key, S, b) == [Knowing(p, key) EXCEPT !.sel = S, !.branch = b]

LEMMA Taking == ASSUME NEW p, NEW h, BodyOK(p, h), NEW key, Wanted(p, key),
                       NEW S \in Sels, NEW b \in AnyBranch \cup {None}, NEW q,
                       q = Took(p, key, S, b)
                PROVE  /\ q \in Pages /\ q.sel = S /\ q.pending = p.pending /\ q.branch = b
                       /\ q.git = p.git /\ q.asked = p.asked /\ q.known = p.known \cup {key}
                       /\ q.kind = p.kind
                       /\ (/\ BranchOK(q) /\ RegistryOK(q)
                           /\ h # None /\ p.kind = "workflow" => ArrivesOK(q, h))
                          => PageOK(Render(q), h)
<1>1. p \in Pages /\ AskedOK(p) /\ p.asked \in SUBSET Keys /\ p.known \in SUBSET Keys
  BY DEF BodyOK, Pages
<1>2. key \in p.asked
  BY DEF Wanted
<1>3. p.known \cup {key} \in SUBSET Keys
  BY <1>1, <1>2
<1>4. q = [p EXCEPT !.known = p.known \cup {key}, !.sel = S, !.branch = b]
  BY <1>1 DEF Took, Knowing, Pages
<1>5. q \in Pages
  BY ZenonT(30), <1>1, <1>3, <1>4 DEF Pages
<1>6. /\ q.sel = S /\ q.pending = p.pending /\ q.branch = b /\ q.kind = p.kind
      /\ q.git = p.git /\ q.asked = p.asked /\ q.known = p.known \cup {key}
      /\ SamePlace(p, q) /\ SameVersion(p, q)
  BY <1>1, <1>4 DEF Pages, SamePlace, SameVersion
<1>7. AskedOK(q)
  BY <1>1, <1>2, <1>6 DEF AskedOK
<1>8. ASSUME BranchOK(q), RegistryOK(q), h # None /\ p.kind = "workflow" => ArrivesOK(q, h)
      PROVE  BodyOK(q, h)
  BY <1>5, <1>6, <1>7, <1>8, Untouched DEF BodyOK
<1> QED BY <1>5, <1>6, <1>8, RenderOK

(* An answer on the page of a deployment, whatever it selects.             *)
LEMMA DeploymentTaken ==
    ASSUME NEW p, NEW h, BodyOK(p, h), p.kind = "deployment", NEW key, Wanted(p, key),
           NEW S \in Sels, NEW q, q = Took(p, key, S, p.branch),
           S.acr = None \/ (S.sub = p.sel.sub /\ S.acr = p.sel.acr /\ S.repo = p.sel.repo),
           S.sub # None => <<"subs">> \in p.known \cup {key}
    PROVE  PageOK(Render(q), h)
<1>1. p \in Pages /\ BranchOK(p) /\ RegistryOK(p)
  BY DEF BodyOK
<1>2. p.branch \in AnyBranch \cup {None}
  BY <1>1 DEF Pages
<1>3. /\ q.sel = S /\ q.branch = p.branch /\ q.git = p.git /\ q.kind = p.kind
      /\ q.known = p.known \cup {key}
      /\ (/\ BranchOK(q) /\ RegistryOK(q)
          /\ h # None /\ p.kind = "workflow" => ArrivesOK(q, h))
         => PageOK(Render(q), h)
  BY <1>2, Taking
<1>4. BranchOK(q)
  BY <1>1, <1>3 DEF BranchOK
<1>5. RegistryOK(q)
  BY <1>1, <1>3 DEF RegistryOK, HasLoaded, ExistingRepo
<1> QED BY <1>3, <1>4, <1>5

LEMMA DeploymentAnswer ==
    ASSUME NEW p, NEW h, BodyOK(p, h), p.kind = "deployment", NEW key \in Keys, Wanted(p, key)
    PROVE  PageOK(Render(DeploymentTakes(Knowing(p, key), key, NamesOf(key))), h)
<1> DEFINE q == DeploymentTakes(Knowing(p, key), key, NamesOf(key))
<1>1. p \in Pages /\ RegistryOK(p) /\ key \notin p.known
  BY DEF BodyOK, Wanted
<1>2. /\ p.sel \in Sels
      /\ p.pending.sub \in Subs \cup {None} /\ p.pending.cluster \in ClusterNames \cup {None}
  BY <1>1 DEF Pages, Handed
<1>3. CASE key = <<"subs">> /\ key[1] = "subs"
  <2> DEFINE v == getSelectedValue(p.pending.sub, Subs, None)
             S == [p.sel EXCEPT !.sub = v]
  <2>1. v \in Subs \cup {None}
    BY DEF getSelectedValue
  <2>2. q = Took(p, key, S, p.branch)
    BY <1>1, <1>3 DEF Took, DeploymentTakes, NamesOf, Knowing, Pages
  <2> HIDE DEF v
  <2>3. S \in Sels /\ S.acr = p.sel.acr
    BY <1>2, <2>1 DEF Sels
  <2>4. p.sel.acr = None
    BY <1>1, <1>3 DEF RegistryOK, HasLoaded
  <2>5. <<"subs">> \in p.known \cup {key}
    BY <1>3
  <2> HIDE DEF S, q
  <2>6. PageOK(Render(q), h)
    BY <2>2, <2>3, <2>4, <2>5, DeploymentTaken
  <2> QED BY <2>6 DEF q
<1>4. CASE key[1] = "clusters"
  <2> DEFINE v == getSelectedValue(p.pending.cluster, NamesOf(key), None)
             S == [p.sel EXCEPT !.cluster = v]
  <2>1. v \in ClusterNames \cup {None}
    BY <1>2 DEF getSelectedValue
  <2>2. q = Took(p, key, S, p.branch)
    BY <1>1, <1>4 DEF Took, DeploymentTakes, Knowing, Pages
  <2> HIDE DEF v
  <2>3. /\ S \in Sels /\ S.sub = p.sel.sub /\ S.acr = p.sel.acr /\ S.repo = p.sel.repo
    BY <1>2, <2>1 DEF Sels
  <2>4. S.sub # None => <<"subs">> \in p.known
    BY <1>1, <2>3 DEF RegistryOK, HasLoaded
  <2> HIDE DEF S, q
  <2>5. PageOK(Render(q), h)
    BY <2>2, <2>3, <2>4, DeploymentTaken
  <2> QED BY <2>5 DEF q
<1>5. CASE key[1] \notin {"subs", "clusters"}
  <2>1. q = Knowing(p, key)
    BY <1>5 DEF DeploymentTakes
  <2>2. q = Took(p, key, p.sel, p.branch)
    BY <1>1, <2>1 DEF Took, Knowing, Pages
  <2>3. p.sel.sub # None => <<"subs">> \in p.known
    BY <1>1 DEF RegistryOK, HasLoaded
  <2> HIDE DEF q
  <2>4. PageOK(Render(q), h)
    BY <1>2, <2>2, <2>3, DeploymentTaken
  <2> QED BY <2>4 DEF q
<1> QED BY <1>3, <1>4, <1>5, KeyShapes

(* An answer on the page of a workflow: what was handed over arrives.      *)
LEMMA WorkflowTaken ==
    ASSUME NEW p, NEW h, BodyOK(p, h), p.kind = "workflow", NEW key, Wanted(p, key),
           NEW S \in Sels, NEW b \in AnyBranch \cup {None},
           b # None => p.git # None /\ b \in BranchesOf[p.git],
           NEW q, q = Took(p, key, S, b),
           ASSUME h # None, ArrivesOK(p, h), q.sel = S, q.pending = p.pending,
                  q.asked = p.asked, q.known = p.known \cup {key}
           PROVE  ArrivesOK(q, h)
    PROVE  PageOK(Render(q), h)
<1>1. /\ q.sel = S /\ q.branch = b /\ q.git = p.git /\ q.kind = p.kind
      /\ q.pending = p.pending /\ q.asked = p.asked /\ q.known = p.known \cup {key}
      /\ (/\ BranchOK(q) /\ RegistryOK(q)
          /\ h # None /\ p.kind = "workflow" => ArrivesOK(q, h))
         => PageOK(Render(q), h)
  BY Taking
<1>2. BranchOK(q) /\ RegistryOK(q)
  BY <1>1 DEF BranchOK, RegistryOK
<1>3. ASSUME h # None PROVE ArrivesOK(q, h)
  <2>1. ArrivesOK(p, h)
    BY <1>3 DEF BodyOK
  <2> QED BY <1>1, <1>3, <2>1
<1> QED BY <1>1, <1>2, <1>3

LEMMA WorkflowAnswer ==
    ASSUME NEW p, NEW h, BodyOK(p, h), p.kind = "workflow", NEW key \in Keys, Wanted(p, key)
    PROVE  PageOK(Render(WorkflowTakes(Knowing(p, key), key, WorkflowPanelAnswer(key))), h)
<1> DEFINE names == WorkflowPanelAnswer(key)
           q == WorkflowTakes(Knowing(p, key), key, names)
<1>1. p \in Pages /\ AskedOK(p) /\ BranchOK(p) /\ key \notin p.known /\ key \in p.asked
  BY DEF BodyOK, Wanted
<1>2. /\ p.sel \in Sels /\ p.pending \in Handed /\ p.branch \in AnyBranch \cup {None}
      /\ p.branch # None => p.git # None /\ p.branch \in BranchesOf[p.git]
  BY <1>1 DEF Pages, BranchOK
<1>3. /\ p.sel.repo \in Choice(RepoNames) /\ p.sel.ns \in Choice(NsNames)
      /\ p.pending.sub \in Subs \cup {None} /\ p.pending.acr \in AcrNames \cup {None}
      /\ p.pending.cluster \in ClusterNames \cup {None}
      /\ p.pending.repo \in RepoNames \cup {None} /\ p.pending.ns \in NsNames \cup {None}
  BY <1>2 DEF Sels, Handed
<1>4. key[1] # "tags"
  BY <1>1 DEF AskedOK
<1>5. CASE key = <<"subs">> /\ key[1] = "subs"
  <2> DEFINE v == getSelectedValue(p.pending.sub, names, None)
             S == [p.sel EXCEPT !.sub = v]
  <2>1. names = Subs
    BY <1>5 DEF WorkflowPanelAnswer, NamesOf
  <2>2. v \in Subs \cup {None}
    BY <1>3 DEF getSelectedValue
  <2>3. q = Took(p, key, S, p.branch)
    BY <1>1, <1>5 DEF Took, WorkflowTakes, Knowing, Pages
  <2>4. S \in Sels
    BY <1>2, <2>2 DEF Sels
  <2>5. /\ S.sub = v
        /\ S.acr = p.sel.acr /\ S.cluster = p.sel.cluster /\ S.repo = p.sel.repo /\ S.ns = p.sel.ns
    BY <1>2 DEF Sels
  <2> HIDE DEF S, q
  <2>6. ASSUME h # None, ArrivesOK(p, h), q.sel = S, q.pending = p.pending,
               q.asked = p.asked, q.known = p.known \cup {key}
        PROVE  ArrivesOK(q, h)
    <3>1. h \in Handed /\ p.pending = h
      BY <2>6 DEF ArrivesOK, BodyOK
    <3>2. v = h.sub
      BY <2>1, <3>1 DEF getSelectedValue, Handed
    <3> HIDE DEF v
    <3> QED BY <1>5, <2>5, <2>6, <3>2 DEF ArrivesOK, HasLoaded
  <2>7. PageOK(Render(q), h)
    BY <1>2, <2>3, <2>4, <2>6, WorkflowTaken
  <2> QED BY <2>7 DEF q
<1>6. CASE \E s \in Subs : key = <<"acrs", s>> /\ key[1] = "acrs" /\ key[2] = s
  <2> DEFINE v == getSelectedValue(p.pending.acr, names, None)
             S == [p.sel EXCEPT !.acr = v]
  <2>1. names = AcrsOf[key[2]]
    BY <1>6 DEF WorkflowPanelAnswer, NamesOf
  <2>2. v \in AcrNames \cup {None}
    BY <1>3 DEF getSelectedValue
  <2>3. q = Took(p, key, S, p.branch)
    BY <1>1, <1>6 DEF Took, WorkflowTakes, Knowing, Pages
  <2>4. S \in Sels
    BY <1>2, <2>2 DEF Sels
  <2>5. /\ S.acr = v
        /\ S.sub = p.sel.sub /\ S.cluster = p.sel.cluster /\ S.repo = p.sel.repo /\ S.ns = p.sel.ns
    BY <1>2 DEF Sels
  <2> HIDE DEF S, q
  <2>6. ASSUME h # None, ArrivesOK(p, h), q.sel = S, q.pending = p.pending,
               q.asked = p.asked, q.known = p.known \cup {key}
        PROVE  ArrivesOK(q, h)
    <3>1. h \in Handed /\ p.pending = h
      BY <2>6 DEF ArrivesOK, BodyOK
    <3>2. key = <<"acrs", h.sub>> /\ key[2] = h.sub /\ h.sub # None
      BY ZenonT(30), <1>1, <1>6, <2>6 DEF ArrivesOK
    <3>3. v = AcrOf(h)
      BY <2>1, <3>1, <3>2 DEF getSelectedValue, AcrOf, Existing
    <3> HIDE DEF v
    <3> QED BY <2>5, <2>6, <3>2, <3>3 DEF ArrivesOK, HasLoaded
  <2>7. PageOK(Render(q), h)
    BY <1>2, <2>3, <2>4, <2>6, WorkflowTaken
  <2> QED BY <2>7 DEF q
<1>7. CASE \E s \in Subs : key = <<"clusters", s>> /\ key[1] = "clusters" /\ key[2] = s
  <2> DEFINE v == getSelectedValue(p.pending.cluster, names, None)
             S == [p.sel EXCEPT !.cluster = v]
  <2>1. names = ClustersOf[key[2]]
    BY <1>7 DEF WorkflowPanelAnswer, NamesOf
  <2>2. v \in ClusterNames \cup {None}
    BY <1>3 DEF getSelectedValue
  <2>3. q = Took(p, key, S, p.branch)
    BY <1>1, <1>7 DEF Took, WorkflowTakes, Knowing, Pages
  <2>4. S \in Sels
    BY <1>2, <2>2 DEF Sels
  <2>5. /\ S.cluster = v
        /\ S.sub = p.sel.sub /\ S.acr = p.sel.acr /\ S.repo = p.sel.repo /\ S.ns = p.sel.ns
    BY <1>2 DEF Sels
  <2> HIDE DEF S, q
  <2>6. ASSUME h # None, ArrivesOK(p, h), q.sel = S, q.pending = p.pending,
               q.asked = p.asked, q.known = p.known \cup {key}
        PROVE  ArrivesOK(q, h)
    <3>1. h \in Handed /\ p.pending = h
      BY <2>6 DEF ArrivesOK, BodyOK
    <3>2. key = <<"clusters", h.sub>> /\ key[2] = h.sub /\ h.sub # None
      BY <1>1, <1>7, <2>6 DEF ArrivesOK
    <3>3. v = ClusterOf(h)
      BY <2>1, <3>1, <3>2 DEF getSelectedValue, ClusterOf, Existing
    <3> HIDE DEF v
    <3> QED BY <2>5, <2>6, <3>2, <3>3 DEF ArrivesOK, HasLoaded
  <2>7. PageOK(Render(q), h)
    BY <1>2, <2>3, <2>4, <2>6, WorkflowTaken
  <2> QED BY <2>7 DEF q
<1>8. CASE \E s \in Subs, a \in AcrNames :
               /\ key = <<"repos", s, a>>
               /\ key[1] = "repos" /\ key[2] = s /\ key[3] = a
  <2> DEFINE v == getSelectedExisting(p.pending.repo, names, p.sel.repo)
             S == [p.sel EXCEPT !.repo = v]
  <2>1. names = NamesOf(key)
    BY <1>8 DEF WorkflowPanelAnswer, NamesOf
  <2>2. v \in Choice(RepoNames)
    BY <1>3 DEF getSelectedExisting, Choice
  <2>3. q = Took(p, key, S, p.branch)
    BY <1>1, <1>8 DEF Took, WorkflowTakes, Knowing, Pages
  <2>4. S \in Sels
    BY <1>2, <2>2 DEF Sels
  <2>5. /\ S.repo = v
        /\ S.sub = p.sel.sub /\ S.acr = p.sel.acr /\ S.cluster = p.sel.cluster /\ S.ns = p.sel.ns
    BY <1>2 DEF Sels
  <2> HIDE DEF S, q
  <2>6. ASSUME h # None, ArrivesOK(p, h), q.sel = S, q.pending = p.pending,
               q.asked = p.asked, q.known = p.known \cup {key}
        PROVE  ArrivesOK(q, h)
    <3>1. h \in Handed /\ p.pending = h
      BY <2>6 DEF ArrivesOK, BodyOK
    <3>2. key = <<"repos", h.sub, AcrOf(h)>>
      BY <1>1, <1>8, <2>6 DEF ArrivesOK
    <3>3. p.sel.repo = Supposed(h.repo)
      BY <1>1, <2>6, <3>2 DEF ArrivesOK, HasLoaded
    <3>4. v = getSelectedExisting(h.repo, NamesOf(<<"repos", h.sub, AcrOf(h)>>), Supposed(h.repo))
      BY <2>1, <3>1, <3>2, <3>3
    <3> HIDE DEF v
    <3> QED BY <2>5, <2>6, <3>2, <3>4 DEF ArrivesOK, HasLoaded
  <2>7. PageOK(Render(q), h)
    BY <1>2, <2>3, <2>4, <2>6, WorkflowTaken
  <2> QED BY <2>7 DEF q
<1>9. CASE \E s \in Subs, c \in ClusterNames :
               /\ key = <<"namespaces", s, c>>
               /\ key[1] = "namespaces" /\ key[2] = s /\ key[3] = c
  <2> DEFINE v == getSelectedExisting(p.pending.ns, names, p.sel.ns)
             S == [p.sel EXCEPT !.ns = v]
  <2>1. names = NamesOf(key)
    BY <1>9 DEF WorkflowPanelAnswer, NamesOf
  <2>2. v \in Choice(NsNames)
    BY <1>3 DEF getSelectedExisting, Choice
  <2>3. q = Took(p, key, S, p.branch)
    BY <1>1, <1>9 DEF Took, WorkflowTakes, Knowing, Pages
  <2>4. S \in Sels
    BY <1>2, <2>2 DEF Sels
  <2>5. /\ S.ns = v
        /\ S.sub = p.sel.sub /\ S.acr = p.sel.acr /\ S.cluster = p.sel.cluster
        /\ S.repo = p.sel.repo
    BY <1>2 DEF Sels
  <2> HIDE DEF S, q
  <2>6. ASSUME h # None, ArrivesOK(p, h), q.sel = S, q.pending = p.pending,
               q.asked = p.asked, q.known = p.known \cup {key}
        PROVE  ArrivesOK(q, h)
    <3>1. h \in Handed /\ p.pending = h
      BY <2>6 DEF ArrivesOK, BodyOK
    <3>2. key = <<"namespaces", h.sub, ClusterOf(h)>>
      BY <1>1, <1>9, <2>6 DEF ArrivesOK
    <3>3. p.sel.ns = Supposed(h.ns)
      BY <1>1, <2>6, <3>2 DEF ArrivesOK, HasLoaded
    <3>4. v = getSelectedExisting(h.ns, NamesOf(<<"namespaces", h.sub, ClusterOf(h)>>),
                                  Supposed(h.ns))
      BY <2>1, <3>1, <3>2, <3>3
    <3> HIDE DEF v
    <3> QED BY <2>5, <2>6, <3>2, <3>4 DEF ArrivesOK, HasLoaded
  <2>7. PageOK(Render(q), h)
    BY <1>2, <2>3, <2>4, <2>6, WorkflowTaken
  <2> QED BY <2>7 DEF q
<1>10. CASE \E g \in GitRepos : key = <<"branches", g>> /\ key[1] = "branches" /\ key[2] = g
  <2> DEFINE b == getSelectedBranch(p.git, key[2], names)
  <2>1. names = BranchesOf[key[2]]
    BY <1>10 DEF WorkflowPanelAnswer
  <2>2. b # None => p.git # None /\ b \in BranchesOf[p.git]
    BY <2>1 DEF getSelectedBranch
  <2>3. p.git \in GitRepos \cup {None}
    BY <1>1 DEF Pages
  <2>4. b \in AnyBranch \cup {None}
    BY <2>2, <2>3 DEF AnyBranch
  <2>5. q = Took(p, key, p.sel, b)
    BY <1>1, <1>10 DEF Took, WorkflowTakes, Knowing, Pages
  <2> HIDE DEF b, q
  <2>6. ASSUME h # None, ArrivesOK(p, h), q.sel = p.sel, q.pending = p.pending,
               q.asked = p.asked, q.known = p.known \cup {key}
        PROVE  ArrivesOK(q, h)
    BY <1>10, <2>6 DEF ArrivesOK, HasLoaded
  <2>7. PageOK(Render(q), h)
    BY <1>2, <2>2, <2>4, <2>5, <2>6, WorkflowTaken
  <2> QED BY <2>7 DEF q
<1> QED BY <1>4, <1>5, <1>6, <1>7, <1>8, <1>9, <1>10, KeyShapes

LEMMA AnswerStep == ASSUME DraftInv, NEW key \in Keys, Response(key) PROVE DraftInv'
<1>1. BodyOK(page, handed) /\ AskedOK(page) /\ page \in Pages
  BY DEF DraftInv, PageOK, BodyOK
<1>2. Wanted(page, key) /\ key \in page.asked
  BY DEF Response, Wanted
<1>3. Knowing(page, key).kind = page.kind
  BY <1>1 DEF Knowing, Pages
<1>4. page.kind \in {"deployment", "workflow"}
  BY <1>1, <1>2 DEF AskedOK
<1>5. CASE page.kind = "deployment"
  <2>1. page' = Render(DeploymentTakes(Knowing(page, key), key, NamesOf(key)))
    BY <1>3, <1>5 DEF Response
  <2>2. PageOK(page', handed)
    BY <1>1, <1>2, <1>5, <2>1, DeploymentAnswer
  <2> QED BY <2>2, PageStep DEF Response
<1>6. CASE page.kind = "workflow"
  <2>1. page' = Render(WorkflowTakes(Knowing(page, key), key, WorkflowPanelAnswer(key)))
    BY <1>3, <1>6 DEF Response
  <2>2. PageOK(page', handed)
    BY <1>1, <1>2, <1>6, <2>1, WorkflowAnswer
  <2> QED BY <2>2, PageStep DEF Response
<1> QED BY <1>4, <1>5, <1>6

(* A place that was looked at: what is free there is not the user's.       *)
LEMMA PlaceFound == ASSUME DraftInv, NEW p \in Pages, p.kind \in {"dockerfile", "deployment"},
                           NEW place \in Directories, NEW q, q = At(p, place)
                    PROVE  /\ q \in Pages /\ PlaceOK(q) /\ q.kind = p.kind
                           /\ SameBranch(p, q) /\ SameVersion(p, q) /\ SameLists(p, q)
                           /\ SameAzure(p, q)
<1> DEFINE existing == ExistingAt(place, Writes(p))
           free == What(p) \notin existing
<1>1. q = [p EXCEPT !.place = place, !.existing = existing, !.free = free]
  BY DEF At, getValidatedLocation
<1>2. What(p) \in Writes(p) /\ Writes(p) \subseteq Specs \cup {"dockerfile"}
  BY DEF What, Writes, Pages
<1>3. existing \subseteq Writes(p)
  BY DEF ExistingAt
<1>4. \A w \in Writes(p) : <<place, w>> \in UsersFiles => w \in existing
  BY DEF ExistingAt, DraftInv, UsersFilesThere
<1>5. free \in BOOLEAN /\ (free => What(p) \notin existing)
  OBVIOUS
<1> HIDE DEF existing, free
<1>a. existing \in SUBSET (Specs \cup {"dockerfile"} \cup WorkflowNames)
  BY <1>2, <1>3
<1>6. q \in Pages
  BY ZenonT(30), <1>1, <1>5, <1>a DEF Pages
<1>7. /\ q.kind = p.kind /\ q.place = place /\ q.existing = existing /\ q.free = free
      /\ q.spec = p.spec
      /\ SameBranch(p, q) /\ SameVersion(p, q) /\ SameLists(p, q) /\ SameAzure(p, q)
  BY <1>1 DEF Pages, SameBranch, SameVersion, SameLists, SameAzure
<1>8. What(q) = What(p) /\ Writes(q) = Writes(p)
  BY <1>7 DEF What, Writes
<1>9. <<place, What(p)>> \in FileKeys
  BY <1>2 DEF FileKeys
<1>10. PlaceOK(q)
  BY <1>2, <1>4, <1>5, <1>7, <1>8, <1>9 DEF PlaceOK, KeyOf
<1> QED BY <1>6, <1>7, <1>10

(* The pages that are opened and launched.                                 *)
LEMMA DockerfileOpens == ASSUME DraftInv, NEW place \in Directories
                         PROVE  PageOK(DockerfilePage(place), None)
<1> DEFINE p == [Closed EXCEPT !.kind = "dockerfile"]
           q == At(p, place)
<1>1. Closed \in Pages
  BY ClosedTyped
<1>2. p \in Pages
  BY <1>1 DEF Pages, PageKinds
<1>3. /\ p.kind = "dockerfile" /\ p.asked = {} /\ p.known = {} /\ p.branch = None
      /\ p.version = None /\ p.versionAsks = <<>>
  BY DEF Closed
<1> HIDE DEF p
<1>4. /\ q \in Pages /\ PlaceOK(q) /\ q.kind = "dockerfile"
      /\ SameBranch(p, q) /\ SameVersion(p, q) /\ SameLists(p, q)
  BY <1>2, <1>3, PlaceFound
<1> HIDE DEF q
<1>5. AskedOK(q) /\ BranchOK(q) /\ VersionOK(q) /\ RegistryOK(q)
  BY <1>3, <1>4 DEF AskedOK, BranchOK, VersionOK, RegistryOK, SameBranch, SameVersion, SameLists
<1>6. PageOK(q, None)
  BY <1>4, <1>5 DEF PageOK, BodyOK
<1> QED BY <1>6 DEF DockerfilePage, p, q

LEMMA DeploymentOpens == ASSUME DraftInv, NEW place \in Directories, NEW initial \in Handed
                         PROVE  PageOK(DeploymentPage(place, initial), None)
<1> DEFINE p == [Closed EXCEPT !.kind = "deployment", !.filled = FALSE, !.pending = initial]
           q == At(p, place)
<1>1. Closed \in Pages
  BY ClosedTyped
<1>2. p \in Pages
  BY <1>1 DEF Pages, PageKinds
<1>3. /\ p.kind = "deployment" /\ p.asked = {} /\ p.known = {} /\ p.branch = None
      /\ p.version = None /\ p.versionAsks = <<>> /\ p.sel.sub = None /\ p.sel.acr = None
  BY DEF Closed, NoSelection
<1>a. DeploymentPage(place, initial) = Render(q)
  BY DEF DeploymentPage
<1> HIDE DEF p
<1>4. /\ q \in Pages /\ PlaceOK(q) /\ q.kind = "deployment"
      /\ SameBranch(p, q) /\ SameVersion(p, q) /\ SameLists(p, q) /\ SameAzure(p, q)
  BY <1>2, <1>3, PlaceFound
<1> HIDE DEF q
<1>5. AskedOK(q) /\ BranchOK(q) /\ VersionOK(q)
  BY <1>3, <1>4 DEF AskedOK, BranchOK, VersionOK, SameBranch, SameVersion, SameLists
<1>6. RegistryOK(q)
  BY <1>3, <1>4 DEF RegistryOK, SameAzure
<1>7. BodyOK(q, None)
  BY <1>4, <1>5, <1>6 DEF BodyOK
<1> QED BY <1>7, <1>a, RenderOK

LEMMA WorkflowOpens == ASSUME DraftInv, NEW initial \in Handed, NEW filled \in BOOLEAN,
                              NEW h \in {None, initial}
                       PROVE  PageOK(WorkflowPage(initial, filled), h)
<1> DEFINE existing == {n \in WorkflowNames : files[<<n, "workflow">>] # "absent"}
           S == [NoSelection EXCEPT !.repo = Supposed(initial.repo), !.ns = Supposed(initial.ns)]
           q == [Closed EXCEPT !.kind = "workflow", !.filled = filled, !.existing = existing,
                               !.pending = initial, !.sel = S]
<1>1. Closed \in Pages /\ NoSelection \in Sels
  BY ClosedTyped
<1>2. Supposed(initial.repo) \in Choice(RepoNames) /\ Supposed(initial.ns) \in Choice(NsNames)
  BY DEF Supposed, Choice, Handed
<1>3. S \in Sels
  BY <1>1, <1>2 DEF Sels
<1>4. /\ S.sub = None /\ S.acr = None /\ S.cluster = None
      /\ S.repo = Supposed(initial.repo) /\ S.ns = Supposed(initial.ns)
  BY DEF NoSelection
<1>a. Closed.sel = NoSelection
  BY DEF Closed
<1>5. WorkflowPage(initial, filled) = Render(q)
  <2>1. q = [Closed EXCEPT !.kind = "workflow", !.filled = filled, !.existing = existing,
                           !.pending = initial, !.sel.repo = Supposed(initial.repo),
                           !.sel.ns = Supposed(initial.ns)]
    BY <1>1, <1>a DEF Pages, Sels
  <2> QED BY <2>1 DEF WorkflowPage
<1>6. \A n \in WorkflowNames : <<n, "workflow">> \in UsersFiles => n \in existing
  BY DEF DraftInv, UsersFilesThere
<1>7. existing \in SUBSET (Specs \cup {"dockerfile"} \cup WorkflowNames)
  OBVIOUS
<1> HIDE DEF existing, S
<1>8. q \in Pages
  BY ZenonT(30), <1>1, <1>3, <1>7 DEF Pages, PageKinds
<1>9. /\ q.kind = "workflow" /\ q.existing = existing /\ q.pending = initial /\ q.sel = S
      /\ q.asked = {} /\ q.known = {} /\ q.branch = None /\ q.version = None
      /\ q.versionAsks = <<>> /\ q.place = None /\ q.free = FALSE
  BY DEF Closed
<1> HIDE DEF q
<1>10. AskedOK(q) /\ BranchOK(q) /\ VersionOK(q) /\ RegistryOK(q)
  BY <1>9 DEF AskedOK, BranchOK, VersionOK, RegistryOK
<1>11. PlaceOK(q)
  BY <1>6, <1>9 DEF PlaceOK
<1>12. ArrivesOK(q, initial)
  BY <1>4, <1>9 DEF ArrivesOK, HasLoaded
<1>13. BodyOK(q, h)
  BY <1>8, <1>9, <1>10, <1>11, <1>12 DEF BodyOK
<1> QED BY <1>5, <1>13, RenderOK

(* Opening and closing.                                                    *)
LEMMA OpenStep == ASSUME DraftInv, Opens PROVE DraftInv'
<1>1. \A o \in Openings : NamedOnly(o) \in Handed
  <2>1. Openings \subseteq Handed
    BY OpeningsAssumption DEF Handed
  <2> QED BY <2>1 DEF NamedOnly, Handed
<1>2. page.kind = "none" => handed = None
  BY DEF DraftInv, PageOK, BodyOK
<1>3. ASSUME NEW d \in Directories, draftDockerfile(d) PROVE DraftInv'
  <2>1. PageOK(page', handed')
    BY <1>2, <1>3, DockerfileOpens DEF draftDockerfile
  <2> QED BY <1>3, <2>1, PageStep DEF draftDockerfile
<1>4. ASSUME NEW d \in Directories, NEW o \in Openings, draftDeployment(d, o) PROVE DraftInv'
  <2>1. PageOK(page', handed')
    BY <1>1, <1>2, <1>4, DeploymentOpens DEF draftDeployment
  <2> QED BY <1>4, <2>1, PageStep DEF draftDeployment
<1>5. ASSUME NEW o \in Openings, draftWorkflow(o) PROVE DraftInv'
  <2>1. PageOK(page', handed')
    BY <1>1, <1>2, <1>5, WorkflowOpens DEF draftWorkflow
  <2> QED BY <1>5, <2>1, PageStep DEF draftWorkflow
<1>6. CASE ClosePage
  <2>a. Closed.kind = "none"
    BY DEF Closed
  <2>1. Closed = [Closed EXCEPT !.kind = "none"]
    BY <2>a, ClosedTyped DEF Pages
  <2>2. page' = Closed /\ handed' = None /\ UNCHANGED files
    BY <1>6 DEF ClosePage
  <2>3. PageOK(Closed, None)
    BY <2>1, ClosedOK
  <2>4. PageOK(page, handed)'
    BY <2>2, <2>3 DEF PageOK, BodyOK, EnsureAzureLoaded
  <2>5. making' # None => /\ making # None /\ making' \in Makings
                          /\ making'.kind = making.kind /\ making'.key = making.key
    BY <1>6 DEF ClosePage, DraftInv, Makings
  <2> QED BY <2>2, <2>4, <2>5 DEF DraftInv, UsersFilesThere
<1> QED BY <1>3, <1>4, <1>5, <1>6 DEF Opens

(* From one page to the next.                                              *)
LEMMA MoveStep == ASSUME DraftInv, Moves PROVE DraftInv'
<1>1. page \in Pages /\ PlaceOK(page)
  BY DEF DraftInv, PageOK, BodyOK
<1>2. page.kind \in {"dockerfile", "deployment"} => page.place \in Directories
  BY <1>1 DEF PlaceOK
<1>3. NoSelection \in Handed
  BY ClosedTyped
<1>4. ASSUME NEW q, NEW h, PageOK(q, h), Launches(q, h) PROVE DraftInv'
  <2>1. PageOK(page', handed')
    BY <1>4 DEF Launches
  <2> QED BY <1>4, <2>1, PageStep DEF Launches
<1>5. CASE launchDraftDeploymentFromDockerfile
  BY <1>2, <1>3, <1>4, <1>5, DeploymentOpens DEF launchDraftDeploymentFromDockerfile
<1>6. CASE launchDraftWorkflowFromDockerfile
  BY <1>3, <1>4, <1>6, WorkflowOpens DEF launchDraftWorkflowFromDockerfile
<1>7. CASE handleLaunchDraftWorkflow
  <2> DEFINE initial == [page.sel EXCEPT !.repo = ValueOf(page.sel.repo),
                                         !.ns = ValueOf(page.sel.ns)]
             has == ExistingAt(page.place, Specs \cup {"dockerfile"})
             paths == page.spec = "helm" => "helm" \in has
             filled == "dockerfile" \in has /\ paths
  <2>1. page.sel \in Sels
    BY <1>1 DEF Pages
  <2>2. /\ ValueOf(page.sel.repo) \in RepoNames \cup {None}
        /\ ValueOf(page.sel.ns) \in NsNames \cup {None}
    BY <2>1 DEF ValueOf, Sels, Choice
  <2>3. initial \in Handed
    BY <2>1, <2>2 DEF Sels, Handed
  <2>4. filled \in BOOLEAN
    OBVIOUS
  <2>5. Launches(WorkflowPage(initial, filled), initial)
    BY <1>7, <2>1 DEF handleLaunchDraftWorkflow, Sels
  <2> HIDE DEF initial, filled
  <2> QED BY <1>4, <2>3, <2>4, <2>5, WorkflowOpens
<1>8. ASSUME NEW d \in Directories, launchFromWorkflow(d) PROVE DraftInv'
  BY <1>3, <1>4, <1>8, DockerfileOpens, DeploymentOpens DEF launchFromWorkflow
<1> QED BY <1>5, <1>6, <1>7, <1>8 DEF Moves

(* A page whose lists and selections stay needs no render.                 *)
LEMMA Staying == ASSUME DraftInv, NEW q, q \in Pages, q.kind = page.kind,
                        SameLists(page, q), SameAzure(page, q), SameBranch(page, q),
                        SameVersion(page, q), PlaceOK(q)
                 PROVE  PageOK(q, handed)
<1>1. /\ BodyOK(page, handed)
      /\ page.kind = "workflow" => EnsureAzureLoaded(page) \subseteq page.asked
  BY DEF DraftInv, PageOK
<1>2. BodyOK(q, handed)
  BY <1>1, Untouched, Filling
<1>3. EnsureAzureLoaded(q) = EnsureAzureLoaded(page)
  BY DEF EnsureAzureLoaded, HasLoaded, AcrListed, ClusterListed, RepositoriesKey, NamespacesKey,
         SameLists, SameAzure
<1> QED BY <1>1, <1>2, <1>3 DEF PageOK, SameLists

LEMMA FormTyped == ASSUME NEW p \in Pages, NEW picking \in BOOLEAN, NEW filled \in BOOLEAN
                   PROVE  [p EXCEPT !.picking = picking, !.filled = filled] \in Pages
BY DEF Pages

LEMMA StatusTyped == ASSUME NEW p \in Pages, NEW status \in {"Creating", "Created"}
                     PROVE  [p EXCEPT !.status = status] \in Pages
BY DEF Pages

(* A form that is submitted creates at a place that is not the user's.     *)
LEMMA SubmitStep == ASSUME DraftInv, NEW picking \in BOOLEAN, NEW filled \in BOOLEAN, NEW q,
                           q = [page EXCEPT !.picking = picking, !.filled = filled],
                           picking => page.kind \in {"dockerfile", "deployment", "workflow"},
                           handleFormSubmit(q), UNCHANGED <<files, handed>>
                    PROVE  DraftInv'
<1>1. page \in Pages /\ PlaceOK(page)
  BY DEF DraftInv, PageOK, BodyOK
<1>2. q \in Pages
  BY <1>1, FormTyped
<1>3. /\ q.kind = page.kind /\ q.status = page.status /\ q.place = page.place
      /\ q.free = page.free /\ q.existing = page.existing /\ q.spec = page.spec
      /\ q.picking = picking /\ SameLists(page, q) /\ SameAzure(page, q)
      /\ SameBranch(page, q) /\ SameVersion(page, q)
  BY <1>1 DEF Pages, SameLists, SameAzure, SameBranch, SameVersion
<1>4. PlaceOK(q)
  BY <1>1, <1>3 DEF PlaceOK, KeyOf, What, Writes
<1>5. CASE ~validate(q)
  <2>1. PageOK(q, handed)
    BY <1>2, <1>3, <1>4, Staying
  <2>2. page' = q /\ UNCHANGED making
    BY <1>5 DEF handleFormSubmit
  <2>3. PageOK(page', handed')
    BY <2>1, <2>2
  <2> QED BY <2>2, <2>3, PageStep
<1>6. CASE validate(q)
  <2> DEFINE r == [q EXCEPT !.status = "Creating"]
  <2>1. page' = r /\ making' = [kind |-> q.kind, key |-> KeyOf(q), live |-> TRUE]
    BY <1>6 DEF handleFormSubmit
  <2>2. r \in Pages
    BY <1>2, StatusTyped
  <2>3. /\ r.kind = q.kind /\ r.status = "Creating" /\ r.place = q.place /\ r.free = q.free
        /\ r.existing = q.existing /\ r.spec = q.spec /\ r.picking = q.picking
        /\ r.asked = q.asked /\ r.known = q.known /\ r.sel = q.sel /\ r.pending = q.pending
        /\ r.git = q.git /\ r.branch = q.branch /\ r.lang = q.lang /\ r.version = q.version
        /\ r.tags = q.tags /\ r.versionAsks = q.versionAsks
    BY <1>2 DEF Pages
  <2> HIDE DEF r
  <2>4. PlaceOK(r)
    BY <1>4, <2>3 DEF PlaceOK, KeyOf, What
  <2>5. /\ r.kind = page.kind /\ SameLists(page, r) /\ SameAzure(page, r)
        /\ SameBranch(page, r) /\ SameVersion(page, r)
    BY <1>3, <2>3 DEF SameLists, SameAzure, SameBranch, SameVersion
  <2>6. PageOK(r, handed)
    BY <2>2, <2>4, <2>5, Staying
  <2>7. q.kind \in {"dockerfile", "deployment", "workflow"} /\ q.free
    BY <1>6 DEF validate, validateDockerfile, validateDeployment, validateWorkflow
  <2>8. KeyOf(q) \in FileKeys \ UsersFiles
    BY <1>4, <2>7 DEF PlaceOK
  <2>9. q.kind = "workflow" => KeyOf(q)[1] \in WorkflowNames
    <3>1. ASSUME q.kind = "workflow" PROVE KeyOf(q) = <<q.place, "workflow">>
      BY <3>1 DEF KeyOf, What
    <3> QED BY <2>8, <3>1, KindsAssumption DEF FileKeys
  <2>12. q.kind = "workflow" <=> KeyOf(q)[2] = "workflow"
    <3>1. KeyOf(q)[2] = What(q) /\ q.spec \in Specs
        BY <1>2 DEF KeyOf, Pages
    <3> QED BY <2>7, <3>1, KindsAssumption DEF What
  <2>10. making' \in Makings /\ making'.kind = q.kind /\ making'.key = KeyOf(q)
    BY <2>1, <2>7, <2>8 DEF Makings
  <2>11. PageOK(page, handed)'
    BY <2>1, <2>6 DEF PageOK, BodyOK, EnsureAzureLoaded
  <2> QED BY <2>9, <2>10, <2>11, <2>12 DEF DraftInv, UsersFilesThere
<1> QED BY <1>5, <1>6

(* What a creation is of is not the user's, nor what it writes unless it is  *)
(* a workflow.                                                             *)
LEMMA WritesOwn == ASSUME DraftInv, making # None
                   PROVE  /\ Written \in [FileKeys -> {"absent", "user", "draft"}]
                          /\ \A k \in UsersFiles :
                                 /\ Written[k] # "absent" /\ making.key # k
                                 /\ making.kind # "workflow" => Written[k] = files[k]
<1>1. making.key \in FileKeys \ UsersFiles /\ files \in [FileKeys -> {"absent", "user", "draft"}]
  BY DEF DraftInv, Makings
<1>2. UsersFiles \subseteq FileKeys
  BY KindsAssumption DEF FileKeys
<1>3. CASE making.key[2] = "workflow"
  <2>1. making.key[1] \in WorkflowNames /\ making.kind = "workflow"
    BY <1>3 DEF DraftInv
  <2>2. FileOf[making.key[1]] \in FileKeys
    BY <2>1, NamesAssumption DEF FileKeys
  <2>3. Written = [files EXCEPT ![FileOf[making.key[1]]] = "draft"]
    BY <1>3 DEF Written, TargetOf
  <2> QED BY <1>1, <1>2, <2>1, <2>2, <2>3 DEF DraftInv, UsersFilesThere
<1>4. CASE making.key[2] # "workflow"
  <2>1. Written = [files EXCEPT ![making.key] = "draft"]
    BY <1>4 DEF Written, TargetOf
  <2> QED BY <1>1, <1>2, <2>1 DEF DraftInv, UsersFilesThere
<1> QED BY <1>3, <1>4

(* A creation ends.                                                        *)
LEMMA CreatedStep == ASSUME DraftInv, NEW kind,
                            NEW existing \in SUBSET (Specs \cup {"dockerfile"} \cup WorkflowNames),
                            Created(kind, existing)
                     PROVE  DraftInv'
<1>1. page \in Pages /\ PlaceOK(page)
  BY DEF DraftInv, PageOK, BodyOK
<1>2. making # None /\ files' = Written /\ making' = None /\ UNCHANGED handed
  BY DEF Created
<1>3. PageOK(page', handed)
  <2> DEFINE q == [page EXCEPT !.status = "Created", !.existing = existing]
  <2>1. q \in Pages
    BY <1>1 DEF Pages
  <2>2. /\ q.kind = page.kind /\ q.status = "Created" /\ q.place = page.place
        /\ q.free = page.free /\ q.spec = page.spec /\ q.picking = page.picking
        /\ SameLists(page, q) /\ SameAzure(page, q) /\ SameBranch(page, q) /\ SameVersion(page, q)
    BY <1>1 DEF Pages, SameLists, SameAzure, SameBranch, SameVersion
  <2>3. page' = page \/ page' = q
    BY DEF Created
  <2> HIDE DEF q
  <2>4. PlaceOK(q)
    BY <1>1, <2>2 DEF PlaceOK, KeyOf, What
  <2>5. PageOK(q, handed)
    BY <2>1, <2>2, <2>4, Staying
  <2> QED BY <2>3, <2>5 DEF DraftInv
<1>4. PageOK(page, handed)'
  BY <1>2, <1>3 DEF PageOK, BodyOK, EnsureAzureLoaded
<1> QED BY <1>2, <1>4, WritesOwn DEF DraftInv, UsersFilesThere

(* The steps around a creation.                                            *)
LEMMA CreateStep == ASSUME DraftInv, Creates PROVE DraftInv'
<1>1. page \in Pages /\ BodyOK(page, handed) /\ PlaceOK(page)
  BY DEF DraftInv, PageOK, BodyOK
<1>2. page.picking \in BOOLEAN /\ page.filled \in BOOLEAN
  BY <1>1 DEF Pages
<1>a. page.picking => page.kind \in {"dockerfile", "deployment", "workflow"}
  BY <1>1 DEF PlaceOK
<1>3. page = [page EXCEPT !.picking = page.picking, !.filled = page.filled]
  BY <1>1 DEF Pages
<1>4. CASE Create
  BY <1>2, <1>3, <1>4, <1>a, SubmitStep DEF Create
<1>5. CASE Choose
  <2>1. [page EXCEPT !.picking = TRUE] = [page EXCEPT !.picking = TRUE, !.filled = page.filled]
    BY <1>1 DEF Pages
  <2>2. page.kind \in {"dockerfile", "deployment", "workflow"}
    BY <1>5 DEF Choose, OtherFields, Shows
  <2> QED BY <1>2, <1>5, <2>1, <2>2, SubmitStep DEF Choose
<1>6. ASSUME NEW d \in Directories, pickLocationResponse(d) PROVE DraftInv'
  <2> DEFINE p == [page EXCEPT !.picking = FALSE]
             q == At(p, d)
  <2>1. p \in Pages
    BY <1>1 DEF Pages
  <2>2. /\ p.kind = page.kind /\ SameBranch(page, p) /\ SameVersion(page, p)
        /\ SameLists(page, p) /\ SameAzure(page, p)
    BY <1>1 DEF Pages, SameLists, SameAzure, SameBranch, SameVersion
  <2>3. page' = q /\ UNCHANGED <<files, making, handed>>
    BY <1>6 DEF pickLocationResponse
  <2>4. page.kind \in {"dockerfile", "deployment"}
    BY <1>6, <1>a DEF pickLocationResponse
  <2> HIDE DEF p
  <2>5. /\ q \in Pages /\ PlaceOK(q) /\ q.kind = p.kind
        /\ SameBranch(p, q) /\ SameVersion(p, q) /\ SameLists(p, q) /\ SameAzure(p, q)
    BY <2>1, <2>2, <2>4, PlaceFound
  <2> HIDE DEF q
  <2>6. /\ SameBranch(page, q) /\ SameVersion(page, q) /\ SameLists(page, q)
        /\ SameAzure(page, q) /\ q.kind = page.kind
    BY <2>2, <2>5 DEF SameLists, SameAzure, SameBranch, SameVersion
  <2>7. PageOK(q, handed)
    BY <2>5, <2>6, Staying
  <2>8. PageOK(page', handed')
    BY <2>3, <2>7
  <2> QED BY <2>3, <2>8, PageStep
<1>b. ASSUME NEW filled \in BOOLEAN, page' = [page EXCEPT !.picking = FALSE, !.filled = filled],
             UNCHANGED <<files, making, handed>>
      PROVE  DraftInv'
  <2> DEFINE q == [page EXCEPT !.picking = FALSE, !.filled = filled]
  <2>1. q \in Pages
    BY <1>1, FormTyped
  <2>2. /\ q.kind = page.kind /\ q.status = page.status /\ q.place = page.place
        /\ q.free = page.free /\ q.existing = page.existing /\ q.spec = page.spec
        /\ q.picking = FALSE
        /\ SameLists(page, q) /\ SameAzure(page, q) /\ SameBranch(page, q) /\ SameVersion(page, q)
    BY <1>1 DEF Pages, SameLists, SameAzure, SameBranch, SameVersion
  <2> HIDE DEF q
  <2>3. PlaceOK(q)
    BY <1>1, <2>2 DEF PlaceOK, KeyOf, What, Writes
  <2>4. PageOK(q, handed)
    BY <2>1, <2>2, <2>3, Staying
  <2>5. PageOK(page', handed')
    BY <1>b, <2>4 DEF q
  <2> QED BY <1>b, <2>5, PageStep
<1>7. CASE pickFilesResponse
  <2>1. PICK valid \in {page.filled, TRUE} :
             page' = [page EXCEPT !.picking = FALSE, !.filled = valid]
    BY <1>7 DEF pickFilesResponse
  <2>2. valid \in BOOLEAN
    BY <1>2
  <2> QED BY <1>7, <1>b, <2>1, <2>2 DEF pickFilesResponse
<1>8. CASE CancelPick
  <2>1. [page EXCEPT !.picking = FALSE] = [page EXCEPT !.picking = FALSE, !.filled = page.filled]
    BY <1>1 DEF Pages
  <2> QED BY <1>2, <1>8, <1>b, <2>1 DEF CancelPick
<1>9. ASSUME NEW last \in BOOLEAN, handleDeleteManifestPathClick(last) PROVE DraftInv'
  <2> DEFINE filled == page.filled /\ ~last
  <2>1. filled \in BOOLEAN
    OBVIOUS
  <2>2. /\ handleFormSubmit([page EXCEPT !.filled = filled]) /\ UNCHANGED <<files, handed>>
    BY <1>9 DEF handleDeleteManifestPathClick
  <2> HIDE DEF filled
  <2>3. [page EXCEPT !.filled = filled] = [page EXCEPT !.picking = page.picking, !.filled = filled]
    BY <1>1 DEF Pages
  <2> QED BY <1>2, <1>a, <2>1, <2>2, <2>3, SubmitStep
<1>10. CASE handleOpenFile
  BY <1>2, <1>3, <1>10, <1>a, SubmitStep DEF handleOpenFile
<1>11. CASE createDockerfileResponse
  <2>1. ThereAfter(making.key[1], {"dockerfile"})
            \in SUBSET (Specs \cup {"dockerfile"} \cup WorkflowNames)
    BY DEF ThereAfter
  <2> QED BY <1>11, <2>1, CreatedStep DEF createDockerfileResponse
<1>12. CASE createDeploymentResponse
  <2>1. ThereAfter(making.key[1], Specs) \in SUBSET (Specs \cup {"dockerfile"} \cup WorkflowNames)
    BY DEF ThereAfter
  <2> QED BY <1>12, <2>1, CreatedStep DEF createDeploymentResponse
<1>13. CASE createWorkflowResponse
  <2>1. making.kind = "workflow" /\ making.key[1] \in WorkflowNames
    BY <1>13 DEF createWorkflowResponse, Created, DraftInv
  <2>2. page.existing \in SUBSET (Specs \cup {"dockerfile"} \cup WorkflowNames)
    BY <1>1 DEF Pages
  <2>3. page.existing \cup {making.key[1]} \in SUBSET (Specs \cup {"dockerfile"} \cup WorkflowNames)
    BY <2>1, <2>2
  <2> QED BY <1>13, <2>3, CreatedStep DEF createWorkflowResponse
<1>14. CASE CreateFails
  <2>1. making # None /\ files' \in {files, Written} /\ making' = None /\ UNCHANGED <<page, handed>>
    BY <1>14 DEF CreateFails
  <2>2. PageOK(page, handed)'
    BY <2>1 DEF DraftInv, PageOK, BodyOK, EnsureAzureLoaded
  <2>3. /\ files' \in [FileKeys -> {"absent", "user", "draft"}]
        /\ \A k \in UsersFiles : files'[k] # "absent"
    BY <2>1, WritesOwn DEF DraftInv, UsersFilesThere
  <2> QED BY <2>1, <2>2, <2>3 DEF DraftInv, UsersFilesThere
<1> QED BY <1>4, <1>5, <1>6, <1>7, <1>8, <1>9, <1>10, <1>11, <1>12, <1>13, <1>14 DEF Creates

(* Every step keeps the invariant.                                         *)
LEMMA DraftStep == ASSUME DraftInv, [Next]_vars PROVE DraftInv'
<1>1. CASE Opens
  BY <1>1, OpenStep
<1>2. CASE Chooses
  BY <1>2, ChooseStep
<1>3. CASE FillsIn
  <2>1. \/ \E valid \in BOOLEAN : fillIn(valid)
        \/ \E spec \in Specs : setSelectedDeploymentSpecType(spec)
        \/ \E n \in WorkflowNames \cup {None} : setSelectedWorkflowName(n)
        \/ \E g \in GitRepos \cup {None} : setSelectedGitHubRepo(g)
        \/ \E b \in AnyBranch \cup {None} : setSelectedBranchName(b)
        \/ \E l \in Languages \cup {None} : setSelectedLanguage(l)
        \/ \E v \in AnyVersion \cup {None} : setSelectedLanguageVersion(v)
    BY <1>3, Zenon DEF FillsIn, AnyBranch, AnyVersion, Languages
  <2> QED BY <2>1, FillStep, VersionStep
<1>4. CASE Answers
  BY <1>4, AnswerStep, VersionStep DEF Answers
<1>5. CASE Creates
  BY <1>5, CreateStep
<1>6. CASE Moves
  BY <1>6, MoveStep
<1>7. CASE UNCHANGED vars
  BY <1>7, PageStep DEF vars, DraftInv, PageOK, BodyOK, EnsureAzureLoaded
<1> QED BY <1>1, <1>2, <1>3, <1>4, <1>5, <1>6, <1>7 DEF Next

LEMMA DraftStart == Init => DraftInv
<1> SUFFICES ASSUME Init PROVE DraftInv
  OBVIOUS
<1>1. Closed = [Closed EXCEPT !.kind = "none"]
  <2>1. Closed.kind = "none"
    BY DEF Closed
  <2> QED BY <2>1, ClosedTyped DEF Pages
<1>2. PageOK(page, handed)
  BY <1>1, ClosedOK DEF Init
<1>3. UsersFiles \subseteq FileKeys
  BY KindsAssumption DEF FileKeys
<1>4. /\ files \in [FileKeys -> {"absent", "user", "draft"}]
      /\ UsersFilesThere
  BY <1>3 DEF Init, UsersFilesThere
<1> QED BY <1>2, <1>4 DEF DraftInv, Init

(* The inductive invariant.                                               *)
THEOREM DraftInvariance == Spec => []DraftInv
<1>1. DraftInv /\ [Next]_vars => DraftInv'
  BY DraftStep
<1> QED BY DraftStart, <1>1, PTL DEF Spec

(* The pages' state keeps the shapes that createState and the reducers give *)
(* it.                                                                     *)
THEOREM DraftTyped == Spec => []DraftTypeOK
<1>1. DraftInv => DraftTypeOK
  <2> SUFFICES ASSUME DraftInv PROVE DraftTypeOK
    OBVIOUS
  <2>1. page \in Pages /\ page.known \subseteq page.asked
    BY DEF DraftInv, PageOK, BodyOK, AskedOK
  <2>2. /\ page.sel \in Sels /\ page.kind \in PageKinds
        /\ page.status \in {"Editing", "Creating", "Created"}
    BY <2>1 DEF Pages
  <2>3. making = None \/ making.key \in FileKeys
    BY DEF DraftInv, Makings
  <2> QED BY <2>1, <2>2, <2>3 DEF DraftTypeOK, DraftInv, Sels, PageKinds
<1> QED BY <1>1, DraftInvariance, PTL

(* No page overwrites a file that the user had written, except by a workflow *)
(* whose name is not the file's and which is written to it all the same.   *)
THEOREM UsersFilesSafe == Spec => UsersFilesKept
<1>1. ASSUME DraftInv, [Next]_vars, NEW k \in UsersFiles, files'[k] # files[k]
      PROVE  making.kind = "workflow" /\ making.key # k
  <2>1. making # None /\ files' \in {files, Written}
    <3>1. CASE Creates
      BY <1>1, <3>1
      DEF Creates, Create, Choose, pickLocationResponse, pickFilesResponse, CancelPick,
          handleDeleteManifestPathClick, handleOpenFile, createDockerfileResponse,
          createDeploymentResponse, createWorkflowResponse, Created, CreateFails
    <3>2. CASE Opens
      BY <1>1, <3>2 DEF Opens, draftDockerfile, draftDeployment, draftWorkflow, ClosePage
    <3>3. CASE Chooses
      BY <1>1, <3>3
      DEF Chooses, setSelectedSubscription, setSelectedAcr, setSelectedRepositoryName,
          setSelectedAcrRepoTag, setSelectedCluster, setSelectedClusterNamespace, Selects
    <3>4. CASE FillsIn
      BY <1>1, <3>4
      DEF FillsIn, fillIn, setSelectedDeploymentSpecType, setSelectedWorkflowName,
          setSelectedGitHubRepo, setSelectedBranchName, setSelectedLanguage,
          setSelectedLanguageVersion, Fills
    <3>5. CASE Answers \/ Moves \/ UNCHANGED vars
      BY <1>1, <3>5
      DEF Answers, Response, getLanguageVersionInfoResponse, Moves,
          launchDraftDeploymentFromDockerfile, launchDraftWorkflowFromDockerfile,
          handleLaunchDraftWorkflow, launchFromWorkflow, Launches, vars
    <3> QED BY <1>1, <3>1, <3>2, <3>3, <3>4, <3>5 DEF Next
  <2> QED BY <1>1, <2>1, WritesOwn
<1>2. DraftInv /\ [Next]_vars =>
          [\A k \in UsersFiles :
               files'[k] = files[k] \/ (making.kind = "workflow" /\ making.key # k)]_vars
  BY <1>1
<1> QED BY <1>2, DraftInvariance, PTL DEF Spec, UsersFilesKept

(* A workflow's page has what the deployment's page handed to it, when its *)
(* lists have come.                                                        *)
THEOREM HandoffComplete == Spec => []HandoffArrives
<1>1. ASSUME DraftInv, handed # None, page.kind = "workflow", page.asked \subseteq page.known
      PROVE  /\ page.sel.sub = handed.sub
             /\ page.sel.acr = AcrOf(handed)
             /\ page.sel.cluster = ClusterOf(handed)
             /\ page.sel.repo = IF handed.repo = None THEN None
                                ELSE [value |-> handed.repo,
                                      isNew |-> <<handed.sub, AcrOf(handed), handed.repo>>
                                                \notin Repos]
             /\ page.sel.ns = IF handed.ns = None THEN None
                              ELSE [value |-> handed.ns,
                                    isNew |-> <<handed.sub, ClusterOf(handed), handed.ns>>
                                              \notin Namespaces]
  <2> DEFINE h == handed
  <2>1. /\ ArrivesOK(page, h) /\ EnsureAzureLoaded(page) \subseteq page.asked /\ h \in Handed
        /\ page.known \subseteq page.asked
    BY <1>1 DEF DraftInv, PageOK, BodyOK, AskedOK
  <2>2. HasLoaded(page, <<"subs">>)
    BY <1>1, <2>1 DEF EnsureAzureLoaded, HasLoaded
  <2>3. page.sel.sub = h.sub
    BY <2>1, <2>2 DEF ArrivesOK
  <2>4. h.sub # None => HasLoaded(page, <<"acrs", h.sub>>) /\ HasLoaded(page, <<"clusters", h.sub>>)
    <3>1. h.sub # None => /\ <<"acrs", h.sub>> \in EnsureAzureLoaded(page)
                          /\ <<"clusters", h.sub>> \in EnsureAzureLoaded(page)
      BY <2>2, <2>3 DEF EnsureAzureLoaded
    <3> QED BY <1>1, <2>1, <3>1 DEF HasLoaded
  <2>5. page.sel.acr = AcrOf(h) /\ page.sel.cluster = ClusterOf(h)
    BY <2>1, <2>4 DEF ArrivesOK, AcrOf, ClusterOf, Existing
  <2>6. AcrOf(h) # None => HasLoaded(page, <<"repos", h.sub, AcrOf(h)>>)
    <3>1. AcrOf(h) # None => h.sub # None
      BY DEF AcrOf, Existing
    <3>2. AcrOf(h) # None => AcrListed(page)
      BY <2>2, <2>3, <2>4, <2>5, <3>1 DEF AcrListed
    <3>3. AcrOf(h) # None => <<"repos", h.sub, AcrOf(h)>> \in EnsureAzureLoaded(page)
      BY <2>3, <2>5, <3>2 DEF EnsureAzureLoaded, RepositoriesKey
    <3> QED BY <1>1, <2>1, <3>3 DEF HasLoaded
  <2>7. ClusterOf(h) # None => HasLoaded(page, <<"namespaces", h.sub, ClusterOf(h)>>)
    <3>1. ClusterOf(h) # None => h.sub # None
      BY DEF ClusterOf, Existing
    <3>2. ClusterOf(h) # None => ClusterListed(page)
      BY <2>2, <2>3, <2>4, <2>5, <3>1 DEF ClusterListed
    <3>3. ClusterOf(h) # None => <<"namespaces", h.sub, ClusterOf(h)>> \in EnsureAzureLoaded(page)
      BY <2>3, <2>5, <3>2 DEF EnsureAzureLoaded, NamespacesKey
    <3> QED BY <1>1, <2>1, <3>3 DEF HasLoaded
  <2>8. page.sel.repo = IF h.repo = None THEN None
                        ELSE [value |-> h.repo, isNew |-> <<h.sub, AcrOf(h), h.repo>> \notin Repos]
    <3>1. h.repo \in RepoNames \cup {None}
      BY <2>1 DEF Handed
    <3> DEFINE names == NamesOf(<<"repos", h.sub, AcrOf(h)>>)
    <3>2. h.repo # None => (h.repo \in names <=> <<h.sub, AcrOf(h), h.repo>> \in Repos)
      BY <3>1 DEF NamesOf
    <3> HIDE DEF names
    <3>3. CASE AcrOf(h) = None
      <4>1. ~HasLoaded(page, <<"repos", h.sub, AcrOf(h)>>)
        BY <2>1, <3>3 DEF ArrivesOK, HasLoaded
      <4>2. page.sel.repo = Supposed(h.repo)
        BY <2>1, <4>1 DEF ArrivesOK
      <4>3. <<h.sub, AcrOf(h), h.repo>> \notin Repos
        BY <3>3, ListsAssumption
      <4> QED BY <4>2, <4>3 DEF Supposed
    <3>4. CASE AcrOf(h) # None
      <4>1. page.sel.repo = getSelectedExisting(h.repo, names, Supposed(h.repo))
        BY <2>1, <2>6, <3>4 DEF ArrivesOK, names
      <4> QED BY <3>2, <4>1 DEF getSelectedExisting, Supposed
    <3> QED BY <3>3, <3>4
  <2>9. page.sel.ns = IF h.ns = None THEN None
                      ELSE [value |-> h.ns,
                            isNew |-> <<h.sub, ClusterOf(h), h.ns>> \notin Namespaces]
    <3>1. h.ns \in NsNames \cup {None}
      BY <2>1 DEF Handed
    <3> DEFINE names == NamesOf(<<"namespaces", h.sub, ClusterOf(h)>>)
    <3>2. h.ns # None => (h.ns \in names <=> <<h.sub, ClusterOf(h), h.ns>> \in Namespaces)
      BY <3>1 DEF NamesOf
    <3> HIDE DEF names
    <3>3. CASE ClusterOf(h) = None
      <4>1. ~HasLoaded(page, <<"namespaces", h.sub, ClusterOf(h)>>)
        BY <2>1, <3>3 DEF ArrivesOK, HasLoaded
      <4>2. page.sel.ns = Supposed(h.ns)
        BY <2>1, <4>1 DEF ArrivesOK
      <4>3. <<h.sub, ClusterOf(h), h.ns>> \notin Namespaces
        BY <3>3, ListsAssumption
      <4> QED BY <4>2, <4>3 DEF Supposed
    <3>4. CASE ClusterOf(h) # None
      <4>1. page.sel.ns = getSelectedExisting(h.ns, names, Supposed(h.ns))
        BY <2>1, <2>7, <3>4 DEF ArrivesOK, names
      <4> QED BY <3>2, <4>1 DEF getSelectedExisting, Supposed
    <3> QED BY <3>3, <3>4
  <2> QED BY <2>3, <2>5, <2>8, <2>9
<1>2. DraftInv => HandoffArrives
  BY <1>1 DEF HandoffArrives, AcrOf, ClusterOf
<1> QED BY <1>2, DraftInvariance, PTL

(* The branch is one of the repository's, and the registry and repository  *)
(* of a deployment are the subscription's.                                 *)
THEOREM SelectionsAreListed == Spec => []SelectionsFit
<1>1. DraftInv => BranchOfRepo
  BY DEF DraftInv, PageOK, BodyOK, BranchOK, BranchOfRepo
<1>2. DraftInv => RegistryOfSubscription
  BY DEF DraftInv, PageOK, BodyOK, RegistryOK, RegistryOfSubscription
<1>3. DraftInv => SelectionsFit
  BY <1>1, <1>2 DEF SelectionsFit
<1> QED BY <1>3, DraftInvariance, PTL

(* The image tags are those of the version that is selected, once nothing  *)
(* is awaited.                                                             *)
THEOREM TagsOfVersion == Spec => []TagsSettle
<1>1. DraftInv => TagsSettle
  BY DEF DraftInv, PageOK, BodyOK, VersionOK, TagsSettle
<1> QED BY <1>1, DraftInvariance, PTL
=============================================================================
