--------------------------- MODULE ShardingProofs ---------------------------
(***************************************************************************)
(* Theorems about deployments that share a parent, for every number of     *)
(* deployments, every claim mode and any number of edits and faults.       *)
(***************************************************************************)
EXTENDS Sharding, TLAPS

-----------------------------------------------------------------------------
(* The invariant *)

(* A release whose precondition still holds has fetched what is there now. *)
Fetched ==
    \A d \in Deployments :
        (at[d] = "release" /\ d \in current) =>
            (parent # None /\ live[d] = parent.finalizers)

(* Stages that follow the teardown of the proxy: it is gone, or what is left of
   it has leaked. *)
TornDown(d) ==
    \/ at[d] \in {"clear", "reread", "release", "unfinalize"}
    \/ at[d] \in {"list", "rewrite"} /\ obj[d].deleting

Torn == \A d \in Deployments : TornDown(d) => d \notin Kept

-----------------------------------------------------------------------------
(* Building blocks *)

(* What the API server stores is a parent or none. *)
LEMMA WriteType ==
    ASSUME NEW p \in Parents, ShardingTypeOK, Write(p)
    PROVE  /\ parent' \in Parents \cup {None}
           /\ news' \subseteq Deployments
           /\ current' \subseteq Deployments
  BY DEF Write, Stored, ShardingTypeOK

(* Copies of a parent are views. *)
LEMMA ViewType ==
    ASSUME NEW p \in Parents \cup {None}
    PROVE  View(p) \in Views \cup {None}
  BY DEF View, Views, Parents

(* A reconcile that ends leaves a coherent state. *)
LEMMA DoneType ==
    ASSUME NEW d \in Deployments, ShardingTypeOK, Done(d)
    PROVE  /\ at' \in [Deployments -> Stages]
           /\ obj' \in [Deployments -> Views \cup {None}]
           /\ live' \in [Deployments -> SUBSET Deployments]
           /\ found' \in [Deployments -> BOOLEAN]
           /\ \A e \in Deployments : Coherent(e)'
  <1>1. /\ at' \in [Deployments -> Stages]
        /\ obj' \in [Deployments -> Views \cup {None}]
        /\ live' \in [Deployments -> SUBSET Deployments]
        /\ found' \in [Deployments -> BOOLEAN]
    BY DEF Done, Goto, Forget, ShardingTypeOK, Stages
  <1>2. at'[d] = "idle" /\ obj'[d] = None
    BY DEF Done, Goto, Forget, ShardingTypeOK
  <1>3. Coherent(d)'
    BY <1>2 DEF Coherent
  <1>4. ASSUME NEW e \in Deployments, e # d
        PROVE  Coherent(e)'
    <2>1. at'[e] = at[e] /\ obj'[e] = obj[e]
      BY <1>4 DEF Done, Goto, Forget, ShardingTypeOK
    <2> QED
      BY <2>1 DEF Coherent, ShardingTypeOK
  <1> QED
    BY <1>1, <1>3, <1>4

(* A reconcile that goes on to a stage which its copy allows stays coherent. *)
LEMMA GotoType ==
    ASSUME NEW d \in Deployments, NEW s \in Stages, ShardingTypeOK, Goto(d, s),
           at[d] # "idle", s # "idle", UNCHANGED obj,
           s # "adopt" => d \in obj[d].finalizers,
           s \in {"cleanup", "unfinalize"} => obj[d].deleting,
           s \in {"provision", "publish", "claim", "drop", "clear", "reread", "release", "adopt"}
               => ~obj[d].deleting
    PROVE  /\ at' \in [Deployments -> Stages]
           /\ \A e \in Deployments : Coherent(e)'
  <1>1. at' \in [Deployments -> Stages] /\ at'[d] = s
    BY DEF Goto, ShardingTypeOK
  <1>2. Coherent(d)'
    BY <1>1 DEF Coherent, ShardingTypeOK
  <1>3. ASSUME NEW e \in Deployments, e # d
        PROVE  Coherent(e)'
    <2>1. at'[e] = at[e] /\ obj'[e] = obj[e]
      BY <1>3 DEF Goto, ShardingTypeOK
    <2> QED
      BY <2>1 DEF Coherent, ShardingTypeOK
  <1> QED
    BY <1>1, <1>2, <1>3

-----------------------------------------------------------------------------
(* Types *)

(* The steps that write the parent and no reconcile. *)
LEMMA EditType ==
    ASSUME ShardingTypeOK, Create \/ Retarget \/ Delete
    PROVE  ShardingTypeOK'
  <1>1. PICK p \in Parents : Edit(p)
    <2>1. CASE Create
      BY <2>1 DEF Create, Created, Parents, Targets
    <2>2. CASE Retarget
      BY <2>2, parent \in Parents DEF Retarget, Parents, ShardingTypeOK
    <2>3. CASE Delete
      BY <2>3, parent \in Parents DEF Delete, Parents, ShardingTypeOK
    <2> QED
      BY <2>1, <2>2, <2>3
  <1>2. Write(p)
    BY <1>1 DEF Edit
  <1>3. \A e \in Deployments : Coherent(e)'
    BY <1>1 DEF Edit, Coherent, ShardingTypeOK, locals
  <1>4. edits' \in 0 .. MaxEdits
    BY <1>1, ShardingConstants DEF Edit, ShardingTypeOK
  <1> QED
    BY <1>1, <1>2, <1>3, <1>4, WriteType DEF Edit, ShardingTypeOK, locals, proxies

(* The steps of the cluster and of a deployment as a whole. *)
LEMMA ClusterType ==
    ASSUME NEW d \in Deployments, ShardingTypeOK,
           ChangeSpec(d) \/ Deliver(d) \/ StartUp(d)
    PROVE  ShardingTypeOK'
  <1>1. \A e \in Deployments : Coherent(e)'
    BY DEF ChangeSpec, Deliver, StartUp, Coherent, ShardingTypeOK, locals
  <1>2. View(parent) \in Views \cup {None}
    BY ViewType DEF ShardingTypeOK
  <1>3. CASE ChangeSpec(d)
    BY <1>1, <1>3, ShardingConstants DEF ChangeSpec, ShardingTypeOK, locals, api, proxies
  <1>4. CASE Deliver(d)
    BY <1>1, <1>2, <1>4 DEF Deliver, ShardingTypeOK, locals, cluster, bounds, proxies
  <1>5. CASE StartUp(d)
    BY <1>1, <1>2, <1>5 DEF StartUp, ShardingTypeOK, locals, api, bounds, proxies
  <1> QED
    BY <1>3, <1>4, <1>5

LEMMA FaultType ==
    ASSUME NEW d \in Deployments, ShardingTypeOK, Crash(d) \/ Fail(d)
    PROVE  ShardingTypeOK'
  <1>1. Done(d)
    BY DEF Crash, Fail, Retry
  <1>2. faults' \in 0 .. MaxFaults
    BY ShardingConstants DEF Crash, Fail, Fault, ShardingTypeOK
  <1>3. CASE Crash(d)
    BY <1>1, <1>2, <1>3, DoneType DEF Crash, ShardingTypeOK, proxies
  <1>4. CASE Fail(d)
    BY <1>1, <1>2, <1>4, DoneType DEF Fail, Retry, ShardingTypeOK, api, proxies
  <1> QED
    BY <1>3, <1>4

(* A teardown leaves nothing of the proxy or leaks what it leaves. *)
LEMMA TearDownType ==
    ASSUME NEW d \in Deployments, ShardingTypeOK, TearDown(d)
    PROVE  /\ proxy' \subseteq Deployments
           /\ leaked' \subseteq proxy'
           /\ queued' \subseteq Deployments
           /\ faults' \in 0 .. MaxFaults
           /\ d \notin Kept'
           /\ \A e \in Deployments : e \in Kept' => e \in Kept
  BY ShardingConstants DEF TearDown, ChangeProxy, Fault, Kept, ShardingTypeOK

(* The steps of a reconcile. *)
LEMMA WorkType ==
    ASSUME NEW d \in Deployments, ShardingTypeOK, Fetched, Work(d)
    PROVE  ShardingTypeOK'
  <1> USE DEF cluster, bounds, api, locals, proxies
  <1>1. CASE Reconcile(d)
    <2>1. \/ /\ Goto(d, "idle")
             /\ obj' = [obj EXCEPT ![d] = None]
          \/ /\ cache[d] \in Views
             /\ cache[d] # None
             /\ Goto(d, Dispatch(d, cache[d]))
             /\ Dispatch(d, cache[d]) # "idle"
             /\ obj' = [obj EXCEPT ![d] = cache[d]]
      BY <1>1 DEF Reconcile, ShardingTypeOK
    <2>2. \A e \in Deployments : e # d => Coherent(e)'
      BY <1>1 DEF Reconcile, Goto, Coherent, ShardingTypeOK
    <2>3. CASE Goto(d, "idle") /\ obj' = [obj EXCEPT ![d] = None]
      <3>1. Coherent(d)'
        BY <2>3 DEF Goto, Coherent, ShardingTypeOK
      <3> QED
        BY <1>1, <2>2, <2>3, <3>1 DEF Reconcile, Goto, Stages, ShardingTypeOK
    <2>4. CASE /\ cache[d] \in Views
               /\ cache[d] # None
               /\ Goto(d, Dispatch(d, cache[d]))
               /\ Dispatch(d, cache[d]) # "idle"
               /\ obj' = [obj EXCEPT ![d] = cache[d]]
      <3>1. at'[d] = Dispatch(d, cache[d]) /\ obj'[d] = cache[d]
        BY <2>4 DEF Goto, ShardingTypeOK
      <3>2. /\ Dispatch(d, cache[d]) \in {"cleanup", "drop", "provision", "adopt"}
            /\ Dispatch(d, cache[d]) = "cleanup" =>
                  d \in cache[d].finalizers /\ cache[d].deleting
            /\ Dispatch(d, cache[d]) \in {"drop", "provision"} =>
                  d \in cache[d].finalizers /\ ~cache[d].deleting
            /\ Dispatch(d, cache[d]) = "adopt" => ~cache[d].deleting
        BY <2>4 DEF Dispatch, HasFinalizer, MayAdopt
      <3>3. Coherent(d)'
        BY <2>4, <3>1, <3>2 DEF Coherent
      <3>4. at' \in [Deployments -> Stages]
        BY <2>4, <3>2 DEF Goto, Stages, ShardingTypeOK
      <3> QED
        BY <1>1, <2>2, <2>4, <3>3, <3>4 DEF Reconcile, ShardingTypeOK
    <2> QED
      BY <2>1, <2>3, <2>4
  <1>2. CASE Adopt(d)
    <2>1. Done(d)
      BY <1>2 DEF Adopt, Retry
    <2>2. /\ parent' \in Parents \cup {None}
          /\ news' \subseteq Deployments
          /\ current' \subseteq Deployments
      <3>1. CASE parent # None /\ Write([parent EXCEPT !.finalizers = @ \cup {d}])
        BY <3>1, WriteType DEF Parents, ShardingTypeOK
      <3>2. CASE UNCHANGED api
        BY <3>2 DEF ShardingTypeOK
      <3> QED
        BY <1>2, <3>1, <3>2 DEF Adopt
    <2>3. queued' \subseteq Deployments /\ UNCHANGED <<cluster, cache, proxies, dns>>
      BY <1>2 DEF Adopt, Retry, ShardingTypeOK
    <2> QED
      BY <2>1, <2>2, <2>3, DoneType DEF ShardingTypeOK
  <1>3. CASE ApplyIngress(d) \/ ApplyEgress(d) \/ ApplyExpose(d)
    <2>1. PICK s \in {"publish", "claim"} : Provision(d, s)
      BY <1>3 DEF ApplyIngress, ApplyEgress, ApplyExpose
    <2>2. at' \in [Deployments -> Stages] /\ \A e \in Deployments : Coherent(e)'
      BY <2>1, GotoType DEF Provision, Stages, Coherent, ShardingTypeOK
    <2> QED
      BY <2>1, <2>2 DEF Provision, ChangeProxy, ShardingTypeOK
  <1>4. CASE Publish(d)
    <2>1. CASE Goto(d, "claim") /\ UNCHANGED <<queued, locals>>
      <3>1. at' \in [Deployments -> Stages] /\ \A e \in Deployments : Coherent(e)'
        BY <1>4, <2>1, GotoType DEF Publish, Stages, Coherent, ShardingTypeOK
      <3>2. /\ parent' \in Parents \cup {None}
            /\ news' \subseteq Deployments
            /\ current' \subseteq Deployments
        <4>1. CASE parent # None /\ Write([parent EXCEPT !.address = d])
          BY <4>1, WriteType DEF Parents, ShardingTypeOK
        <4> QED
          BY <1>4, <2>1, <4>1 DEF Publish, ShardingTypeOK
      <3> QED
        BY <1>4, <2>1, <3>1, <3>2 DEF Publish, ShardingTypeOK
    <2>2. CASE Retry(d) /\ UNCHANGED api
      BY <1>4, <2>2, DoneType DEF Publish, Retry, ShardingTypeOK
    <2> QED
      BY <1>4, <2>1, <2>2 DEF Publish
  <1>5. CASE Claim(d)
    <2>1. CASE parent = None
      BY <1>5, <2>1, DoneType DEF Claim, Retry, ShardingTypeOK
    <2>2. CASE parent # None
      <3>1. /\ parent' \in Parents \cup {None}
            /\ news' \subseteq Deployments
            /\ current' \subseteq Deployments
        <4> DEFINE p == [parent EXCEPT !.claimedBy = d,
                                       !.address = IF kind = "egress" THEN d ELSE @]
        <4>1. p \in Parents
          BY <2>2 DEF Parents, ShardingTypeOK
        <4> QED
          BY <1>5, <2>2, <4>1, WriteType DEF Claim
      <3>2. CASE HasDns(d)
        <4>1. at' \in [Deployments -> Stages] /\ \A e \in Deployments : Coherent(e)'
          BY <1>5, <2>2, <3>2, GotoType DEF Claim, Stages, Coherent, ShardingTypeOK
        <4> QED
          BY <1>5, <2>2, <3>1, <3>2, <4>1 DEF Claim, ShardingTypeOK
      <3>3. CASE ~HasDns(d)
        BY <1>5, <2>2, <3>1, <3>3, DoneType DEF Claim, ShardingTypeOK
      <3> QED
        BY <3>2, <3>3
    <2> QED
      BY <2>1, <2>2
  <1>6. CASE Drop(d)
    <2>1. PICK s \in {"clear", "reread"} : Goto(d, s)
      BY <1>6 DEF Drop
    <2>2. at' \in [Deployments -> Stages] /\ \A e \in Deployments : Coherent(e)'
      BY <1>6, <2>1, GotoType DEF Drop, Stages, Coherent, ShardingTypeOK
    <2> QED
      BY <1>6, <2>2, TearDownType DEF Drop, ShardingTypeOK
  <1>7. CASE Clear(d)
    <2>1. CASE parent = None
      BY <1>7, <2>1, DoneType DEF Clear, Retry, ShardingTypeOK
    <2>2. CASE parent # None
      <3>1. /\ parent' \in Parents \cup {None}
            /\ news' \subseteq Deployments
            /\ current' \subseteq Deployments
        <4> DEFINE p == [parent EXCEPT !.address = IF @ = d THEN None ELSE @]
        <4>1. p \in Parents
          BY <2>2 DEF Parents, ShardingTypeOK
        <4> QED
          BY <1>7, <2>2, <4>1, WriteType DEF Clear
      <3>2. at' \in [Deployments -> Stages] /\ \A e \in Deployments : Coherent(e)'
        BY <1>7, <2>2, GotoType DEF Clear, Stages, Coherent, ShardingTypeOK
      <3> QED
        BY <1>7, <2>2, <3>1, <3>2 DEF Clear, ShardingTypeOK
    <2> QED
      BY <2>1, <2>2
  <1>8. CASE Reread(d)
    <2>1. CASE parent = None
      BY <1>8, <2>1, DoneType DEF Reread, Retry, ShardingTypeOK
    <2>2. CASE parent # None
      <3>1. at' \in [Deployments -> Stages] /\ \A e \in Deployments : Coherent(e)'
        BY <1>8, <2>2, GotoType DEF Reread, Stages, Coherent, ShardingTypeOK
      <3>2. live' \in [Deployments -> SUBSET Deployments]
        BY <1>8, <2>2 DEF Reread, Parents, ShardingTypeOK
      <3> QED
        BY <1>8, <2>2, <3>1, <3>2 DEF Reread, ShardingTypeOK
    <2> QED
      BY <2>1, <2>2
  <1>9. CASE Cleanup(d)
    <2>1. PICK s \in {"list", "unfinalize"} : Goto(d, s)
      BY <1>9 DEF Cleanup
    <2>2. at' \in [Deployments -> Stages] /\ \A e \in Deployments : Coherent(e)'
      BY <1>9, <2>1, GotoType DEF Cleanup, Stages, Coherent, ShardingTypeOK
    <2> QED
      BY <1>9, <2>2, TearDownType DEF Cleanup, ShardingTypeOK
  <1>10. CASE Unfinalize(d)
    <2>1. Done(d)
      BY <1>10 DEF Unfinalize, Retry
    <2>2. /\ parent' \in Parents \cup {None}
          /\ news' \subseteq Deployments
          /\ current' \subseteq Deployments
      <3>1. CASE parent # None /\ Write([parent EXCEPT !.finalizers = @ \ {d}])
        BY <3>1, WriteType DEF Parents, ShardingTypeOK
      <3> QED
        BY <1>10, <3>1 DEF Unfinalize, ShardingTypeOK
    <2> QED
      BY <1>10, <2>1, <2>2, DoneType DEF Unfinalize, Retry, ShardingTypeOK
  <1>11. CASE ListServices(d)
    <2>1. at' \in [Deployments -> Stages] /\ \A e \in Deployments : Coherent(e)'
      BY <1>11, GotoType DEF ListServices, Stages, Coherent, ShardingTypeOK
    <2>2. found' \in [Deployments -> BOOLEAN]
      BY <1>11 DEF ListServices, Rewrites, IsOurs, ShardingTypeOK
    <2> QED
      BY <1>11, <2>1, <2>2 DEF ListServices, ShardingTypeOK
  <1>12. CASE ApplyRewrites(d)
    <2>1. dns' \in Deployments \cup {None} /\ queued' \subseteq Deployments
      BY <1>12 DEF ApplyRewrites, Woken, ShardingTypeOK
    <2>2. CASE obj[d].deleting
      <3>1. at' \in [Deployments -> Stages] /\ \A e \in Deployments : Coherent(e)'
        BY <1>12, <2>2, GotoType DEF ApplyRewrites, Stages, Coherent, ShardingTypeOK
      <3> QED
        BY <1>12, <2>1, <2>2, <3>1 DEF ApplyRewrites, ShardingTypeOK
    <2>3. CASE ~obj[d].deleting
      BY <1>12, <2>1, <2>3, DoneType DEF ApplyRewrites, ShardingTypeOK
    <2> QED
      BY <2>2, <2>3
  <1>13. CASE Release(d)
    <2>1. CASE d \notin current
      BY <1>13, <2>1, DoneType DEF Release, Retry, ShardingTypeOK
    <2>2. CASE d \in current
      <3>1. /\ parent' \in Parents \cup {None}
            /\ news' \subseteq Deployments
            /\ current' \subseteq Deployments
        <4> DEFINE p == [parent EXCEPT !.finalizers = live[d] \ {d}, !.claimedBy = None]
        <4>1. parent \in Parents
          BY <1>13, <2>2 DEF Release, Fetched, ShardingTypeOK
        <4>2. p \in Parents
          BY <4>1 DEF Parents, ShardingTypeOK
        <4> QED
          BY <1>13, <2>2, <4>2, WriteType DEF Release
      <3>2. CASE Goto(d, "list")
        <4>1. /\ live' = [live EXCEPT ![d] = {}]
              /\ UNCHANGED <<obj, found>>
          BY <1>13, <2>2, <3>2 DEF Release, Done, Goto, ShardingTypeOK
        <4>2. at' \in [Deployments -> Stages] /\ \A e \in Deployments : Coherent(e)'
          BY <1>13, <3>2, <4>1, GotoType DEF Release, Stages, Coherent, ShardingTypeOK
        <4> QED
          BY <1>13, <2>2, <3>1, <4>1, <4>2 DEF Release, ShardingTypeOK
      <3>3. CASE Done(d)
        BY <1>13, <2>2, <3>1, <3>3, DoneType DEF Release, ShardingTypeOK
      <3> QED
        BY <1>13, <2>2, <3>2, <3>3 DEF Release
    <2> QED
      BY <2>1, <2>2
  <1> QED
    BY <1>1, <1>2, <1>3, <1>4, <1>5, <1>6, <1>7, <1>8, <1>9, <1>10, <1>11, <1>12, <1>13 DEF Work

-----------------------------------------------------------------------------
(* The invariant is inductive. *)

ShardingInv == ShardingTypeOK /\ Fetched /\ Torn

LEMMA InitInv ==
    Init => ShardingInv
  <1> SUFFICES ASSUME Init
               PROVE  ShardingInv
    OBVIOUS
  <1>1. \A t \in Targets : Created(t) \in Parents
    BY DEF Created, Parents
  <1>2. ShardingTypeOK
    BY <1>1, ShardingConstants DEF Init, ShardingTypeOK, Coherent, Stages
  <1> QED
    BY <1>2 DEF Init, ShardingInv, Fetched, Torn, TornDown

LEMMA TypeStep ==
    ASSUME ShardingInv, [Next]_vars
    PROVE  ShardingTypeOK'
  <1>1. CASE Create \/ Retarget \/ Delete
    BY <1>1, EditType DEF ShardingInv
  <1>2. ASSUME NEW d \in Deployments, ChangeSpec(d) \/ Deliver(d) \/ StartUp(d)
        PROVE  ShardingTypeOK'
    BY <1>2, ClusterType DEF ShardingInv
  <1>3. ASSUME NEW d \in Deployments, Crash(d) \/ Fail(d)
        PROVE  ShardingTypeOK'
    BY <1>3, FaultType DEF ShardingInv
  <1>4. ASSUME NEW d \in Deployments, Work(d)
        PROVE  ShardingTypeOK'
    BY <1>4, WorkType DEF ShardingInv
  <1>5. CASE UNCHANGED vars
    BY <1>5 DEF ShardingInv, ShardingTypeOK, Coherent, vars, cluster, bounds, api, locals, proxies
  <1> QED
    BY <1>1, <1>2, <1>3, <1>4, <1>5 DEF Next

(* A write either changes nothing or outdates what releases have fetched. *)
LEMMA WriteOutdates ==
    ASSUME NEW p, Write(p)
    PROVE  current' = {} \/ UNCHANGED api
  BY DEF Write, api

LEMMA FetchedStep ==
    ASSUME ShardingInv, [Next]_vars
    PROVE  Fetched'
  <1> USE DEF ShardingInv, cluster, bounds, api, locals, proxies
  <1> SUFFICES ASSUME NEW e \in Deployments, at'[e] = "release", e \in current'
               PROVE  parent' # None /\ live'[e] = parent'.finalizers
    BY DEF Fetched
  (* Steps after which e has fetched what it had fetched before. *)
  <1>1. CASE at'[e] = at[e] /\ live'[e] = live[e] /\ UNCHANGED <<parent, current>>
    BY <1>1 DEF Fetched
  <1>2. CASE Create \/ Retarget \/ Delete
    <2>1. PICK p : Edit(p)
      BY <1>2 DEF Create, Retarget, Delete
    <2> QED
      BY <1>1, <2>1, WriteOutdates DEF Edit
  <1>3. ASSUME NEW d \in Deployments,
               ChangeSpec(d) \/ Deliver(d) \/ StartUp(d) \/ Crash(d) \/ Fail(d)
        PROVE  at'[e] = at[e] /\ live'[e] = live[e] /\ UNCHANGED <<parent, current>>
    <2>1. UNCHANGED <<parent, current>>
      BY <1>3 DEF ChangeSpec, Deliver, StartUp, Crash, Fail
    <2>2. CASE Crash(d) \/ Fail(d)
      <3>1. Done(d)
        BY <2>2 DEF Crash, Fail, Retry
      <3> QED
        BY <2>1, <3>1 DEF Done, Goto, Forget, ShardingTypeOK
    <2>3. CASE ChangeSpec(d) \/ Deliver(d) \/ StartUp(d)
      BY <2>1, <2>3 DEF ChangeSpec, Deliver, StartUp
    <2> QED
      BY <1>3, <2>2, <2>3
  <1>4. ASSUME NEW d \in Deployments, Reread(d)
        PROVE  parent' # None /\ live'[e] = parent'.finalizers
    <2>1. CASE parent = None
      BY <1>1, <1>4, <2>1 DEF Reread, Retry, Done, Goto, Forget, ShardingTypeOK
    <2>2. CASE parent # None /\ d = e
      BY <1>4, <2>2 DEF Reread, ShardingTypeOK
    <2>3. CASE parent # None /\ d # e
      BY <1>4, <2>3 DEF Reread, Goto, Fetched, ShardingTypeOK
    <2> QED
      BY <2>1, <2>2, <2>3
  <1>5. ASSUME NEW d \in Deployments, Work(d), ~Reread(d)
        PROVE  \/ current' = {}
               \/ at'[e] = at[e] /\ live'[e] = live[e] /\ UNCHANGED <<parent, current>>
    <2>1. current' = {} \/ UNCHANGED <<parent, current>>
      BY <1>5, WriteOutdates DEF Work, Reconcile, Adopt, ApplyIngress, ApplyEgress, ApplyExpose,
            Provision, Publish, Claim, Drop, Clear, Release, Cleanup, Unfinalize,
            ListServices, ApplyRewrites
    <2>2. d # e
      BY <1>5 DEF Work, Reconcile, Dispatch, Adopt, ApplyIngress, ApplyEgress, ApplyExpose,
            Provision, Publish, Claim, Drop, Clear, Release, Cleanup, Unfinalize,
            ListServices, ApplyRewrites, Retry, Done, Goto, ShardingTypeOK
    <2>3. at'[e] = at[e] /\ live'[e] = live[e]
      BY <1>5, <2>2 DEF Work, Reconcile, Adopt, ApplyIngress, ApplyEgress, ApplyExpose,
            Provision, Publish, Claim, Drop, Clear, Release, Cleanup, Unfinalize,
            ListServices, ApplyRewrites, Retry, Done, Goto, Forget, ShardingTypeOK
    <2> QED
      BY <2>1, <2>3
  <1>6. CASE UNCHANGED vars
    BY <1>1, <1>6 DEF vars
  <1> QED
    BY <1>1, <1>2, <1>3, <1>4, <1>5, <1>6 DEF Next

LEMMA TornStep ==
    ASSUME ShardingInv, [Next]_vars
    PROVE  Torn'
  <1> USE DEF ShardingInv, Kept, cluster, bounds, api, locals, proxies
  <1> SUFFICES ASSUME NEW e \in Deployments, TornDown(e)'
               PROVE  e \notin Kept'
    BY DEF Torn
  (* Steps that leave e's reconcile alone and provision nothing for it. *)
  <1>1. CASE at'[e] = at[e] /\ obj'[e] = obj[e] /\ (e \in Kept' => e \in Kept)
    BY <1>1 DEF Torn, TornDown
  <1>2. CASE Create \/ Retarget \/ Delete
    BY <1>1, <1>2 DEF Create, Retarget, Delete, Edit
  <1>3. ASSUME NEW d \in Deployments, ChangeSpec(d) \/ Deliver(d) \/ StartUp(d)
        PROVE  e \notin Kept'
    BY <1>1, <1>3 DEF ChangeSpec, Deliver, StartUp
  <1>4. ASSUME NEW d \in Deployments, Done(d), UNCHANGED proxies
        PROVE  e \notin Kept'
    <2>1. CASE d = e
      BY <1>4, <2>1 DEF Done, Goto, TornDown, ShardingTypeOK
    <2>2. CASE d # e
      BY <1>1, <1>4, <2>2 DEF Done, Goto, Forget, ShardingTypeOK
    <2> QED
      BY <2>1, <2>2
  <1>5. ASSUME NEW d \in Deployments, Crash(d) \/ Fail(d)
        PROVE  e \notin Kept'
    BY <1>4, <1>5 DEF Crash, Fail, Retry
  <1>6. ASSUME NEW d \in Deployments, Work(d), d # e
        PROVE  e \notin Kept'
    <2>1. at'[e] = at[e] /\ obj'[e] = obj[e]
      BY <1>6 DEF Work, Reconcile, Adopt, ApplyIngress, ApplyEgress, ApplyExpose,
            Provision, Publish, Claim, Drop, Clear, Reread, Release, Cleanup, Unfinalize,
            ListServices, ApplyRewrites, Retry, Done, Goto, Forget, ShardingTypeOK
    <2>2. CASE ApplyIngress(d) \/ ApplyEgress(d) \/ ApplyExpose(d)
      BY <1>1, <1>6, <2>1, <2>2 DEF ApplyIngress, ApplyEgress, ApplyExpose, Provision, ChangeProxy
    <2>3. CASE Drop(d) \/ Cleanup(d)
      BY <1>1, <2>1, <2>3, TearDownType DEF Drop, Cleanup
    <2>4. CASE UNCHANGED proxies
      BY <1>1, <2>1, <2>4
    <2> QED
      BY <1>6, <2>2, <2>3, <2>4 DEF Work, Reconcile, Adopt, Publish, Claim, Clear, Reread,
            Release, Unfinalize, ListServices, ApplyRewrites
  <1>7. ASSUME Work(e)
        PROVE  e \notin Kept'
    <2>1. CASE Reconcile(e)
      BY <2>1 DEF Reconcile, Dispatch, Goto, TornDown, ShardingTypeOK
    <2>2. CASE Adopt(e)
      BY <1>4, <2>2 DEF Adopt, Retry
    <2>3. CASE ApplyIngress(e) \/ ApplyEgress(e) \/ ApplyExpose(e)
      BY <2>3 DEF ApplyIngress, ApplyEgress, ApplyExpose, Provision, Goto, TornDown, ShardingTypeOK
    <2>4. CASE Publish(e) \/ Claim(e)
      <3>1. CASE Done(e)
        BY <1>4, <2>4, <3>1 DEF Publish, Claim
      <3>2. CASE Publish(e) /\ ~Done(e)
        BY <3>2 DEF Publish, Retry, Goto, TornDown, ShardingTypeOK
      <3>3. CASE Claim(e) /\ ~Done(e)
        BY <3>3 DEF Claim, Retry, Goto, TornDown, Coherent, ShardingTypeOK
      <3> QED
        BY <2>4, <3>1, <3>2, <3>3
    <2>5. CASE Drop(e) \/ Cleanup(e)
      BY <2>5, TearDownType DEF Drop, Cleanup
    <2>6. CASE Clear(e) \/ Reread(e) \/ Release(e) \/ Unfinalize(e)
      BY <2>6 DEF Clear, Reread, Release, Unfinalize, Torn, TornDown
    <2>7. CASE ListServices(e)
      BY <2>7 DEF ListServices, Goto, Torn, TornDown, ShardingTypeOK
    <2>8. CASE ApplyRewrites(e)
      <3>1. CASE obj[e].deleting
        BY <2>8, <3>1 DEF ApplyRewrites, Torn, TornDown
      <3>2. CASE ~obj[e].deleting
        BY <1>4, <2>8, <3>2 DEF ApplyRewrites
      <3> QED
        BY <3>1, <3>2
    <2> QED
      BY <1>7, <2>1, <2>2, <2>3, <2>4, <2>5, <2>6, <2>7, <2>8 DEF Work
  <1>8. CASE UNCHANGED vars
    BY <1>1, <1>8 DEF vars
  <1> QED
    BY <1>2, <1>3, <1>5, <1>6, <1>7, <1>8 DEF Next

(* The types, what a release has fetched and what has been torn down hold in    *)
(* every state.                                                                 *)
THEOREM Invariance ==
    ShardingSpec => []ShardingInv
  <1>1. ShardingInv /\ [Next]_vars => ShardingInv'
    BY TypeStep, FetchedStep, TornStep DEF ShardingInv
  <1> QED
    BY <1>1, InitInv, PTL DEF ShardingSpec

(* Type correctness of the adoption, release and cleanup of a parent            *)
(* (external_service/reconcile.rs, ingress/reconcile.rs): among it that a       *)
(* reconcile past adoption works on a copy that bears the deployment's          *)
(* finalizer.                                                                   *)
THEOREM ShardingTypes ==
    ShardingSpec => []ShardingTypeOK
  BY Invariance, PTL DEF ShardingInv

-----------------------------------------------------------------------------
(* Finalizers *)

(* The API server keeps a parent that has a finalizer. *)
LEMMA WriteKeeps ==
    ASSUME NEW p \in Parents, NEW d \in p.finalizers, Write(p)
    PROVE  parent' # None /\ HasFinalizer(d, parent') /\ parent' = p
  BY NoneIsNoParent DEF Write, Stored, HasFinalizer

(* Nobody but its deployment removes a finalizer, and a parent that is being     *)
(* deleted remains so.                                                          *)
LEMMA FinalizerStays ==
    ASSUME ShardingInv, [Next]_vars,
           NEW e \in Deployments, parent # None, HasFinalizer(e, parent),
           ~Release(e), ~Unfinalize(e)
    PROVE  /\ parent' # None
           /\ HasFinalizer(e, parent')
           /\ parent.deleting => parent'.deleting
  <1> DEFINE Stays == /\ parent' # None
                      /\ HasFinalizer(e, parent')
                      /\ parent.deleting => parent'.deleting
  <1> USE DEF ShardingInv, cluster, bounds, api, locals, proxies
  <1>0. parent \in Parents /\ e \in parent.finalizers
    BY DEF HasFinalizer, ShardingTypeOK
  <1>1. CASE UNCHANGED parent
    BY <1>1
  <1>2. ASSUME NEW p \in Parents, parent.finalizers \subseteq p.finalizers,
               parent.deleting => p.deleting, Write(p)
        PROVE  Stays
    BY <1>0, <1>2, WriteKeeps
  <1>3. CASE Create \/ Retarget \/ Delete
    <2>1. PICK t \in Targets : \/ Edit([parent EXCEPT !.target = t])
                               \/ Edit([parent EXCEPT !.deleting = TRUE])
      BY <1>3 DEF Create, Retarget, Delete, Targets
    <2>2. /\ [parent EXCEPT !.target = t] \in Parents
          /\ [parent EXCEPT !.target = t].finalizers = parent.finalizers
          /\ [parent EXCEPT !.target = t].deleting = parent.deleting
          /\ [parent EXCEPT !.deleting = TRUE] \in Parents
          /\ [parent EXCEPT !.deleting = TRUE].finalizers = parent.finalizers
          /\ [parent EXCEPT !.deleting = TRUE].deleting
      BY <1>0 DEF Parents
    <2> QED
      BY <1>2, <2>1, <2>2 DEF Edit
  <1>4. ASSUME NEW d \in Deployments,
               ChangeSpec(d) \/ Deliver(d) \/ StartUp(d) \/ Crash(d) \/ Fail(d)
        PROVE  UNCHANGED parent
    BY <1>4 DEF ChangeSpec, Deliver, StartUp, Crash, Fail
  <1>5. ASSUME NEW d \in Deployments, Work(d)
        PROVE  Stays
    <2>1. CASE \/ Reconcile(d) \/ ApplyIngress(d) \/ ApplyEgress(d) \/ ApplyExpose(d)
               \/ Drop(d) \/ Reread(d) \/ Cleanup(d) \/ ListServices(d) \/ ApplyRewrites(d)
      BY <1>1, <2>1 DEF Reconcile, ApplyIngress, ApplyEgress, ApplyExpose, Provision, Drop,
            Reread, Cleanup, ListServices, ApplyRewrites
    <2>2. CASE Adopt(d)
      <3> DEFINE p == [parent EXCEPT !.finalizers = @ \cup {d}]
      <3>1. p \in Parents /\ parent.finalizers \subseteq p.finalizers /\ p.deleting = parent.deleting
        BY <1>0 DEF Parents
      <3> QED
        BY <1>1, <1>2, <2>2, <3>1 DEF Adopt
    <2>3. CASE Publish(d)
      <3> DEFINE p == [parent EXCEPT !.address = d]
      <3>1. p \in Parents /\ parent.finalizers \subseteq p.finalizers /\ p.deleting = parent.deleting
        BY <1>0 DEF Parents
      <3> QED
        BY <1>1, <1>2, <2>3, <3>1 DEF Publish
    <2>4. CASE Claim(d)
      <3> DEFINE p == [parent EXCEPT !.claimedBy = d,
                                     !.address = IF kind = "egress" THEN d ELSE @]
      <3>1. p \in Parents /\ parent.finalizers \subseteq p.finalizers /\ p.deleting = parent.deleting
        BY <1>0 DEF Parents
      <3> QED
        BY <1>2, <2>4, <3>1 DEF Claim
    <2>5. CASE Clear(d)
      <3> DEFINE p == [parent EXCEPT !.address = IF @ = d THEN None ELSE @]
      <3>1. p \in Parents /\ parent.finalizers \subseteq p.finalizers /\ p.deleting = parent.deleting
        BY <1>0 DEF Parents
      <3> QED
        BY <1>2, <2>5, <3>1 DEF Clear
    (* Who removes its finalizer is not e. *)
    <2>6. CASE Release(d)
      <3> DEFINE p == [parent EXCEPT !.finalizers = live[d] \ {d}, !.claimedBy = None]
      <3>1. d # e
        BY <2>6
      <3>2. CASE d \in current
        <4>1. live[d] = parent.finalizers
          BY <2>6, <3>2 DEF Release, Fetched
        <4>2. p \in Parents /\ e \in p.finalizers /\ p.deleting = parent.deleting
          BY <1>0, <3>1, <4>1 DEF Parents
        <4> QED
          BY <2>6, <3>2, <4>2, WriteKeeps DEF Release
      <3> QED
        BY <1>1, <2>6, <3>2 DEF Release
    <2>7. CASE Unfinalize(d)
      <3> DEFINE p == [parent EXCEPT !.finalizers = @ \ {d}]
      <3>1. d # e
        BY <2>7
      <3>2. p \in Parents /\ e \in p.finalizers /\ p.deleting = parent.deleting
        BY <1>0, <3>1 DEF Parents
      <3> QED
        BY <1>1, <2>7, <3>2, WriteKeeps DEF Unfinalize
    <2> QED
      BY <1>5, <2>1, <2>2, <2>3, <2>4, <2>5, <2>6, <2>7 DEF Work
  <1> QED
    BY <1>1, <1>3, <1>4, <1>5 DEF Next, vars

(* Who removes its finalizer has no proxy left. *)
LEMMA FinalizerStep ==
    ASSUME ShardingInv, [Next]_vars,
           NEW e \in Kept', parent # None, HasFinalizer(e, parent)
    PROVE  parent' # None /\ HasFinalizer(e, parent')
  <1>1. e \in Deployments
    BY TypeStep DEF Kept, ShardingTypeOK
  <1>2. CASE Release(e) \/ Unfinalize(e)
    <2>1. e \notin Kept
      BY <1>1, <1>2 DEF ShardingInv, Torn, TornDown, Release, Unfinalize
    <2> QED
      BY <1>2, <2>1 DEF Release, Unfinalize, Kept, proxies
  <1> QED
    BY <1>1, <1>2, FinalizerStays

(* However many deployments adopt, release and clean up the parent at the same  *)
(* time, none loses its finalizer while it has a proxy: the JSON patches of     *)
(* kube's finalizer() and the resourceVersion that release sends see to it.     *)
THEOREM FinalizersOutliveProxies ==
    ShardingSpec => FinalizerOutlivesProxy
  <1>1. ASSUME ShardingInv, [Next]_vars
        PROVE  [\A d \in Kept' :
                  (parent # None /\ HasFinalizer(d, parent)) =>
                      (parent' # None /\ HasFinalizer(d, parent'))]_vars
    BY <1>1, FinalizerStep
  <1> QED
    BY <1>1, Invariance, PTL DEF ShardingSpec, FinalizerOutlivesProxy

-----------------------------------------------------------------------------
(* The default deployment *)

(* Who holds claim_default owns the annotation. *)
Held == \A d \in default : holder = d

HeldInv == default \subseteq Deployments /\ holder \in Deployments \cup {None} /\ Held

LEMMA HeldStep ==
    ASSUME HeldInv, [Next]_vars, \A d \in Deployments : ClaimMode[d] # "force"
    PROVE  HeldInv'
  <1> USE DEF HeldInv, Held, cluster, bounds
  <1>1. CASE UNCHANGED <<default, holder>>
    BY <1>1
  <1>2. CASE Create \/ Retarget \/ Delete
    BY <1>1, <1>2 DEF Create, Retarget, Delete, Edit
  <1>3. ASSUME NEW d \in Deployments, StartUp(d)
        PROVE  HeldInv'
    <2>1. CASE Claims(d)
      <3>1. \A f \in default : f = d
        BY <2>1, ShardingConstants DEF Claims
      <3> QED
        BY <1>3, <2>1, <3>1 DEF StartUp
    <2>2. CASE ~Claims(d)
      BY <1>3, <2>2 DEF StartUp
    <2> QED
      BY <2>1, <2>2
  <1>4. ASSUME NEW d \in Deployments, Crash(d)
        PROVE  HeldInv'
    BY <1>4 DEF Crash
  <1>5. ASSUME NEW d \in Deployments, ChangeSpec(d) \/ Deliver(d) \/ Fail(d)
        PROVE  HeldInv'
    BY <1>1, <1>5 DEF ChangeSpec, Deliver, Fail
  <1>6. ASSUME NEW d \in Deployments, Work(d)
        PROVE  HeldInv'
    BY <1>1, <1>6 DEF Work, Reconcile, Adopt, ApplyIngress, ApplyEgress, ApplyExpose,
          Provision, Publish, Claim, Drop, Clear, Reread, Release, Cleanup, Unfinalize,
          ListServices, ApplyRewrites
  <1>7. CASE UNCHANGED vars
    BY <1>1, <1>7 DEF vars
  <1> QED
    BY <1>2, <1>3, <1>4, <1>5, <1>6, <1>7 DEF Next

(* As long as no deployment forces it, at most one holds claim_default          *)
(* (ensure_ingress_class), however often deployments start and crash.           *)
THEOREM OneDefaultHolder ==
    ASSUME \A d \in Deployments : ClaimMode[d] # "force"
    PROVE  ShardingSpec => []OneDefault
  <1>1. Init => HeldInv
    BY DEF Init, HeldInv, Held
  <1>2. HeldInv /\ [Next]_vars => HeldInv'
    BY HeldStep
  <1>3. HeldInv => OneDefault
    BY DEF HeldInv, Held, OneDefault
  <1> QED
    BY <1>1, <1>2, <1>3, PTL DEF ShardingSpec
-----------------------------------------------------------------------------
(* Hand-over and release at rest *)

(* Every deployment runs, has seen all changes and has nothing left to do. *)
AtRest ==
    /\ up = Deployments
    /\ news = {}
    /\ queued = {}
    /\ \A d \in Deployments : at[d] = "idle"

(* No reconcile takes for its own a finalizer that it has removed: the copy it
   starts from may be old, but not so old that it shows a finalizer which is no
   longer there, or a parent that was deleted and created again since. *)
OwnsWhatItReads ==
    \A d \in Deployments :
        (Reconcile(d) /\ cache[d] # None /\ HasFinalizer(d, cache[d])) =>
            /\ parent # None
            /\ HasFinalizer(d, parent)
            /\ cache[d].deleting => parent.deleting

(* A reconcile between the adoption and the removal of the finalizer. *)
Holding(d) ==
    \/ at[d] \in {"provision", "publish", "claim", "drop", "clear", "reread", "release",
                  "cleanup", "unfinalize"}
    \/ at[d] \in {"list", "rewrite"} /\ (obj[d].deleting \/ obj[d].target # "unwanted")

Adopted ==
    \A d \in Deployments : Holding(d) =>
        /\ parent # None
        /\ HasFinalizer(d, parent)
        /\ obj[d].deleting => parent.deleting

(* The stage fits the copy and the kind of the parent. *)
Fits(d) ==
    /\ at[d] = "adopt" => d \notin obj[d].finalizers
    /\ at[d] \in {"provision", "publish", "claim"} => obj[d].target # "unwanted"
    /\ at[d] \in {"publish", "clear"} => kind = "ingress"

Fitting == \A d \in Deployments : Fits(d)

(* Stages that follow the provisioning of the proxy. *)
Serves(d) ==
    \/ at[d] \in {"publish", "claim"}
    \/ at[d] \in {"list", "rewrite"} /\ ~obj[d].deleting /\ obj[d].target # "unwanted"

Equipped == \A d \in Deployments : Serves(d) => d \in Kept

(* A proxy has a parent that bears its deployment's finalizer. *)
Attached == \A d \in Kept : parent # None /\ HasFinalizer(d, parent)

(* What deployments write to a parent goes with their finalizers. *)
Proper(p) ==
    /\ p.deleting => p.finalizers # {}
    /\ ~p.deleting => p.claimedBy \in p.finalizers \cup {None}
    /\ (~p.deleting /\ kind = "ingress") => p.address \in p.finalizers \cup {None}
    /\ kind = "exposed" => p.address = None

Tidy == parent # None => Proper(parent)

Cleared ==
    \A d \in Deployments :
        (kind = "ingress" /\ at[d] \in {"reread", "release"} /\ parent # None) =>
            parent.address # d

Anchored == Adopted /\ Fitting /\ Equipped /\ Attached /\ Tidy /\ Cleared

-----------------------------------------------------------------------------
(* How the state of one reconcile moves *)

(* Nothing of it changes. *)
Rests(d) ==
    /\ at'[d] = at[d]
    /\ obj'[d] = obj[d]
    /\ found'[d] = found[d]
    /\ d \in Kept' <=> d \in Kept

(* It is given up. *)
Ends(d) ==
    /\ at'[d] = "idle"
    /\ d \in Kept' <=> d \in Kept

LEMMA DoneMoves ==
    ASSUME ShardingTypeOK, NEW d \in Deployments, Done(d), UNCHANGED proxies
    PROVE  /\ Ends(d)
           /\ \A e \in Deployments : e # d => Rests(e)
  <1>1. Ends(d)
    BY DEF Ends, Done, Goto, Kept, proxies, ShardingTypeOK
  <1>2. ASSUME NEW e \in Deployments, e # d
        PROVE  Rests(e)
    BY <1>2 DEF Rests, Done, Goto, Forget, Kept, proxies, ShardingTypeOK
  <1> QED
    BY <1>1, <1>2

LEMMA OthersRest ==
    ASSUME ShardingTypeOK, NEW d \in Deployments, NEW e \in Deployments, Work(d), d # e
    PROVE  Rests(e)
  <1> USE DEF api, locals, proxies
  <1>1. at'[e] = at[e] /\ obj'[e] = obj[e] /\ found'[e] = found[e]
    BY DEF Work, Reconcile, Adopt, ApplyIngress, ApplyEgress, ApplyExpose,
          Provision, Publish, Claim, Drop, Clear, Reread, Release, Cleanup, Unfinalize,
          ListServices, ApplyRewrites, Retry, Done, Goto, Forget, ShardingTypeOK
  <1>2. e \in Kept' <=> e \in Kept
    <2>1. CASE ApplyIngress(d) \/ ApplyEgress(d) \/ ApplyExpose(d)
      BY <2>1 DEF ApplyIngress, ApplyEgress, ApplyExpose, Provision, ChangeProxy, Kept
    <2>2. CASE Drop(d) \/ Cleanup(d)
      BY <2>2 DEF Drop, Cleanup, TearDown, ChangeProxy, Kept
    <2>3. CASE UNCHANGED proxies
      BY <2>3 DEF Kept
    <2> QED
      BY <2>1, <2>2, <2>3 DEF Work, Reconcile, Adopt, Publish, Claim, Clear, Reread,
            Release, Unfinalize, ListServices, ApplyRewrites
  <1> QED
    BY <1>1, <1>2 DEF Rests

(* A step of anything leaves a reconcile alone, ends it, or is its own. *)
LEMMA Moves ==
    ASSUME ShardingTypeOK, [Next]_vars, NEW e \in Deployments
    PROVE  Rests(e) \/ (Ends(e) /\ (Crash(e) \/ Fail(e))) \/ Work(e)
  <1> USE DEF cluster, bounds, api, locals, proxies
  <1>1. CASE Create \/ Retarget \/ Delete
    BY <1>1 DEF Create, Retarget, Delete, Edit, Rests, Kept
  <1>2. ASSUME NEW d \in Deployments, ChangeSpec(d) \/ Deliver(d) \/ StartUp(d)
        PROVE  Rests(e)
    BY <1>2 DEF ChangeSpec, Deliver, StartUp, Rests, Kept
  <1>3. ASSUME NEW d \in Deployments, Crash(d) \/ Fail(d)
        PROVE  Rests(e) \/ (d = e /\ Ends(e))
    <2>1. Done(d) /\ UNCHANGED proxies
      BY <1>3 DEF Crash, Fail, Retry
    <2> QED
      BY <2>1, DoneMoves
  <1>4. ASSUME NEW d \in Deployments, Work(d)
        PROVE  Rests(e) \/ Work(e)
    BY <1>4, OthersRest
  <1>5. CASE UNCHANGED vars
    BY <1>5 DEF vars, Rests, Kept
  <1> QED
    BY <1>1, <1>2, <1>3, <1>4, <1>5 DEF Next

(* The ways through a reconcile. *)
Ways ==
    {<<"provision", "publish">>, <<"provision", "claim">>, <<"publish", "claim">>,
     <<"claim", "list">>, <<"drop", "clear">>, <<"drop", "reread">>, <<"clear", "reread">>,
     <<"reread", "release">>, <<"release", "list">>, <<"cleanup", "list">>,
     <<"cleanup", "unfinalize">>, <<"list", "rewrite">>, <<"rewrite", "unfinalize">>}

(* Past its first step a reconcile keeps its copy and follows one of the ways. *)
LEMMA Onward ==
    ASSUME ShardingTypeOK, NEW d \in Deployments, Work(d), ~Reconcile(d), at'[d] # "idle"
    PROVE  /\ obj'[d] = obj[d]
           /\ <<at[d], at'[d]>> \in Ways
           /\ at'[d] = "publish" => kind = "ingress"
           /\ at[d] = "drop" => at'[d] = IF kind = "ingress" THEN "clear" ELSE "reread"
           /\ at[d] = "release" => obj[d].target = "unwanted"
           /\ at[d] = "rewrite" => obj[d].deleting
           /\ d \in Kept /\ at[d] \notin {"drop", "cleanup"} => d \in Kept'
           /\ at[d] = "provision" => d \in Kept'
  <1> USE DEF api, locals, proxies, Goto, Retry, Done, Ways, Kept, ShardingTypeOK
  <1>1. CASE ApplyIngress(d) \/ ApplyEgress(d) \/ ApplyExpose(d)
    BY <1>1 DEF ApplyIngress, ApplyEgress, ApplyExpose, Provision, ChangeProxy
  <1>2. CASE Publish(d) \/ Claim(d)
    BY <1>2 DEF Publish, Claim
  <1>3. CASE Drop(d) \/ Cleanup(d)
    BY <1>3 DEF Drop, Cleanup
  <1>4. CASE Clear(d) \/ Reread(d)
    BY <1>4 DEF Clear, Reread
  <1>5. CASE Release(d)
    BY <1>5 DEF Release
  <1>6. CASE Adopt(d) \/ Unfinalize(d)
    BY <1>6 DEF Adopt, Unfinalize
  <1>7. CASE ListServices(d) \/ ApplyRewrites(d)
    BY <1>7 DEF ListServices, ApplyRewrites
  <1> QED
    BY <1>1, <1>2, <1>3, <1>4, <1>5, <1>6, <1>7 DEF Work

(* Where a reconcile starts. *)
LEMMA Begins ==
    ASSUME ShardingTypeOK, NEW d \in Deployments, Reconcile(d), at'[d] # "idle"
    PROVE  /\ cache[d] # None
           /\ obj'[d] = cache[d]
           /\ at'[d] = Dispatch(d, cache[d])
           /\ at'[d] \in {"cleanup", "drop", "provision", "adopt"}
           /\ at'[d] = "adopt" <=> ~HasFinalizer(d, cache[d])
           /\ at'[d] = "cleanup" <=> HasFinalizer(d, cache[d]) /\ cache[d].deleting
           /\ at'[d] = "provision" => ~MustRelease(d, cache[d])
           /\ UNCHANGED <<parent, proxies>>
  <1>1. /\ cache[d] # None
        /\ obj'[d] = cache[d]
        /\ at'[d] = Dispatch(d, cache[d])
        /\ UNCHANGED <<parent, proxies>>
    BY DEF Reconcile, Goto, ShardingTypeOK, api
  <1> QED
    BY <1>1 DEF Dispatch

LEMMA AdoptedStep ==
    ASSUME ShardingInv, Adopted, [Next]_vars, OwnsWhatItReads
    PROVE  Adopted'
  <1> USE DEF ShardingInv
  <1> SUFFICES ASSUME NEW e \in Deployments, Holding(e)'
               PROVE  /\ parent' # None
                      /\ HasFinalizer(e, parent')
                      /\ obj'[e].deleting => parent'.deleting
    BY DEF Adopted, HasFinalizer
  <1>1. CASE Holding(e) /\ obj'[e] = obj[e] /\ ~Release(e) /\ ~Unfinalize(e)
    BY <1>1, FinalizerStays DEF Adopted
  <1>2. CASE Rests(e)
    <2>1. Holding(e)
      BY <1>2 DEF Rests, Holding
    <2>2. ~Release(e) /\ ~Unfinalize(e)
      BY <1>2 DEF Rests, Release, Unfinalize, Retry, Done, Goto, ShardingTypeOK
    <2> QED
      BY <1>1, <1>2, <2>1, <2>2 DEF Rests
  <1>3. CASE Ends(e)
    BY <1>3 DEF Ends, Holding
  <1>4. CASE Reconcile(e)
    <2>1. at'[e] \notin {"idle", "adopt"}
      BY DEF Holding
    <2> QED
      BY <1>4, <2>1, Begins DEF OwnsWhatItReads
  <1>5. CASE Work(e) /\ ~Reconcile(e)
    <2>1. at'[e] # "idle"
      BY DEF Holding
    <2>2. /\ obj'[e] = obj[e]
          /\ <<at[e], at'[e]>> \in Ways
          /\ at[e] = "release" => obj[e].target = "unwanted"
          /\ at[e] = "rewrite" => obj[e].deleting
      BY <1>5, <2>1, Onward
    <2>3. at[e] # "release"
      <3>1. at[e] = "release" => ~obj[e].deleting /\ at'[e] = "list"
        BY <2>2 DEF Ways, ShardingTypeOK, Coherent
      <3> QED
        BY <2>2, <3>1 DEF Holding
    <2>4. Holding(e)
      BY <2>2, <2>3 DEF Ways, Holding
    <2>5. ~Release(e) /\ ~Unfinalize(e)
      BY <2>2, <2>3 DEF Ways, Release, Unfinalize
    <2> QED
      BY <1>1, <2>2, <2>4, <2>5
  <1> QED
    BY <1>2, <1>3, <1>4, <1>5, Moves

(* No reconcile changes the claim, or what its deployment is told to watch.      *)
LEMMA WorkLeavesCluster ==
    ASSUME NEW d \in Deployments, Work(d)
    PROVE  UNCHANGED <<kind, allowed, holder, up, default>>
  <1> USE DEF cluster
  <1>1. CASE Reconcile(d) \/ Adopt(d) \/ Publish(d) \/ Claim(d) \/ Drop(d) \/ Clear(d)
    BY <1>1 DEF Reconcile, Adopt, Publish, Claim, Drop, Clear
  <1>2. CASE ApplyIngress(d) \/ ApplyEgress(d) \/ ApplyExpose(d)
    BY <1>2 DEF ApplyIngress, ApplyEgress, ApplyExpose, Provision
  <1>3. CASE Reread(d) \/ Release(d) \/ Cleanup(d) \/ Unfinalize(d)
    BY <1>3 DEF Reread, Release, Cleanup, Unfinalize
  <1>4. CASE ListServices(d) \/ ApplyRewrites(d)
    BY <1>4 DEF ListServices, ApplyRewrites
  <1> QED
    BY <1>1, <1>2, <1>3, <1>4 DEF Work

LEMMA KindFixed == [Next]_vars => UNCHANGED kind
  <1>1. Create \/ Retarget \/ Delete \/ UNCHANGED vars => UNCHANGED kind
    BY DEF Create, Retarget, Delete, Edit, vars, cluster
  <1>2. ASSUME NEW d \in Deployments,
               ChangeSpec(d) \/ Deliver(d) \/ StartUp(d) \/ Crash(d) \/ Fail(d)
        PROVE  UNCHANGED kind
    BY <1>2 DEF ChangeSpec, Deliver, StartUp, Crash, Fail, cluster
  <1> QED
    BY <1>1, <1>2, WorkLeavesCluster DEF Next

LEMMA FittingStep ==
    ASSUME ShardingInv, Fitting, [Next]_vars
    PROVE  Fitting'
  <1> USE DEF ShardingInv
  <1> SUFFICES ASSUME NEW e \in Deployments
               PROVE  Fits(e)'
    BY DEF Fitting
  <1>0. Fits(e) /\ UNCHANGED kind
    BY KindFixed DEF Fitting
  <1>1. CASE Rests(e)
    BY <1>0, <1>1 DEF Rests, Fits
  <1>2. CASE Ends(e)
    BY <1>2 DEF Ends, Fits
  <1>3. CASE at'[e] = "idle"
    BY <1>3 DEF Fits
  <1>4. CASE Reconcile(e) /\ at'[e] # "idle"
    BY <1>4, Begins DEF Fits, MustRelease, HasFinalizer
  <1>5. CASE Work(e) /\ ~Reconcile(e) /\ at'[e] # "idle"
    BY <1>0, <1>5, Onward DEF Ways, Fits
  <1> QED
    BY <1>1, <1>2, <1>3, <1>4, <1>5, Moves

LEMMA EquippedStep ==
    ASSUME ShardingInv, Equipped, [Next]_vars
    PROVE  Equipped'
  <1> USE DEF ShardingInv
  <1> SUFFICES ASSUME NEW e \in Deployments, Serves(e)'
               PROVE  e \in Kept'
    BY DEF Equipped
  <1>1. CASE Rests(e)
    BY <1>1 DEF Rests, Serves, Equipped
  <1>2. CASE Ends(e)
    BY <1>2 DEF Ends, Serves
  <1>3. CASE Reconcile(e)
    BY <1>3, Begins DEF Serves
  <1>4. CASE Work(e) /\ ~Reconcile(e)
    <2>1. at'[e] # "idle"
      BY DEF Serves
    <2>2. at[e] = "cleanup" => obj[e].deleting
      BY DEF ShardingTypeOK, Coherent
    <2>3. at[e] \notin {"drop", "cleanup", "release"}
      BY <1>4, <2>1, <2>2, Onward DEF Ways, Serves
    <2>4. CASE at[e] = "provision"
      BY <1>4, <2>1, <2>4, Onward
    <2>5. CASE at[e] # "provision"
      <3>1. Serves(e) \/ at[e] = "claim"
        BY <1>4, <2>1, <2>3, <2>5, Onward DEF Ways, Serves
      <3>2. e \in Kept
        BY <3>1 DEF Equipped, Serves
      <3> QED
        BY <1>4, <2>1, <2>3, <3>2, Onward
    <2> QED
      BY <2>4, <2>5
  <1> QED
    BY <1>1, <1>2, <1>3, <1>4, Moves

LEMMA AttachedStep ==
    ASSUME ShardingInv, Adopted, Attached, [Next]_vars
    PROVE  Attached'
  <1> USE DEF ShardingInv
  <1>0. Kept \subseteq Deployments /\ Kept' \subseteq Deployments
    BY TypeStep DEF Kept, ShardingTypeOK
  <1> SUFFICES ASSUME NEW e \in Kept'
               PROVE  parent' # None /\ HasFinalizer(e, parent')
    BY DEF Attached, HasFinalizer
  <1>1. CASE e \in Kept
    BY <1>1, FinalizerStep DEF Attached
  <1>2. CASE e \notin Kept
    <2>1. Work(e)
      BY <1>0, <1>2, Moves DEF Rests, Ends
    <2>2. ApplyIngress(e) \/ ApplyEgress(e) \/ ApplyExpose(e)
      BY <1>0, <1>2, <2>1, TearDownType DEF Work, Reconcile, Adopt, Publish, Claim, Drop, Clear,
            Reread, Release, Cleanup, Unfinalize, ListServices, ApplyRewrites, Kept, proxies
    <2>3. at[e] = "provision" /\ UNCHANGED parent
      BY <2>2 DEF ApplyIngress, ApplyEgress, ApplyExpose, Provision, api
    <2> QED
      BY <1>0, <2>3 DEF Adopted, Holding
  <1> QED
    BY <1>1, <1>2

(* What is proper stays so when it is stored. *)
LEMMA StoredProperly ==
    ASSUME NEW p \in Parents, Write(p), UNCHANGED kind,
           p.deleting \/ Proper(p),
           kind = "exposed" => p.address = None
    PROVE  Tidy'
  BY NoneIsNoParent DEF Write, Stored, Tidy, Proper

LEMMA TidyStep ==
    ASSUME ShardingInv, Anchored, [Next]_vars
    PROVE  Tidy'
  <1> USE DEF ShardingInv, cluster, bounds, api, locals, proxies
  <1>0. /\ UNCHANGED kind
        /\ parent # None => parent \in Parents /\ Proper(parent)
        /\ kind = "ingress" => kind # "exposed"
    <2>1. parent # None => parent \in Parents /\ Proper(parent)
      BY DEF Anchored, Tidy, ShardingTypeOK
    <2> QED
      BY <2>1, KindFixed
  <1>1. CASE UNCHANGED parent
    BY <1>0, <1>1 DEF Anchored, Tidy, Proper
  <1>2. CASE Create
    <2>1. PICK t \in Targets : Write(Created(t))
      BY <1>2 DEF Create, Edit
    <2>2. Created(t) \in Parents /\ Proper(Created(t))
      BY DEF Created, Parents, Proper
    <2> QED
      BY <1>0, <2>1, <2>2, StoredProperly DEF Proper
  <1>3. CASE Retarget
    <2>1. PICK t \in Targets : parent # None /\ Write([parent EXCEPT !.target = t])
      BY <1>3 DEF Retarget, Edit
    <2> DEFINE p == [parent EXCEPT !.target = t]
    <2>2. p \in Parents /\ Proper(p)
      BY <1>0, <2>1 DEF Parents, Proper
    <2> QED
      BY <1>0, <2>1, <2>2, StoredProperly DEF Proper
  <1>4. CASE Delete
    <2> DEFINE p == [parent EXCEPT !.deleting = TRUE]
    <2>1. parent # None /\ Write(p)
      BY <1>4 DEF Delete, Edit
    <2>2. p \in Parents /\ p.deleting /\ (kind = "exposed" => p.address = None)
      BY <1>0, <2>1 DEF Parents, Proper
    <2> QED
      BY <1>0, <2>1, <2>2, StoredProperly
  <1>5. ASSUME NEW d \in Deployments,
               ChangeSpec(d) \/ Deliver(d) \/ StartUp(d) \/ Crash(d) \/ Fail(d)
        PROVE  UNCHANGED parent
    BY <1>5 DEF ChangeSpec, Deliver, StartUp, Crash, Fail
  <1>6. ASSUME NEW d \in Deployments, Work(d)
        PROVE  Tidy'
    <2>1. CASE \/ Reconcile(d) \/ ApplyIngress(d) \/ ApplyEgress(d) \/ ApplyExpose(d)
               \/ Drop(d) \/ Reread(d) \/ Cleanup(d) \/ ListServices(d) \/ ApplyRewrites(d)
      BY <1>1, <2>1 DEF Reconcile, ApplyIngress, ApplyEgress, ApplyExpose, Provision, Drop,
            Reread, Cleanup, ListServices, ApplyRewrites
    <2>2. Holding(d) => parent # None /\ d \in parent.finalizers
      BY DEF Anchored, Adopted, HasFinalizer
    <2>3. CASE Adopt(d)
      <3> DEFINE p == [parent EXCEPT !.finalizers = @ \cup {d}]
      <3>1. CASE parent # None /\ ~parent.deleting /\ Write(p)
        <4>1. p \in Parents /\ Proper(p)
          BY <1>0, <3>1 DEF Parents, Proper
        <4> QED
          BY <1>0, <3>1, <4>1, StoredProperly DEF Proper
      <3> QED
        BY <1>1, <2>3, <3>1 DEF Adopt
    <2>4. CASE Publish(d)
      <3> DEFINE p == [parent EXCEPT !.address = d]
      <3>1. kind = "ingress" /\ parent # None /\ d \in parent.finalizers
        BY <2>2, <2>4 DEF Publish, Anchored, Fitting, Fits, Holding
      <3>2. p \in Parents /\ Proper(p)
        BY <1>0, <3>1 DEF Parents, Proper
      <3>3. CASE Write(p)
        BY <1>0, <3>2, <3>3, StoredProperly DEF Proper
      <3> QED
        BY <1>1, <2>4, <3>3 DEF Publish
    <2>5. CASE Claim(d)
      <3> DEFINE p == [parent EXCEPT !.claimedBy = d,
                                     !.address = IF kind = "egress" THEN d ELSE @]
      <3>1. parent # None /\ d \in parent.finalizers
        BY <2>2, <2>5 DEF Claim, Holding
      <3>2. p \in Parents /\ Proper(p)
        BY <1>0, <3>1 DEF Parents, Proper
      <3> QED
        BY <1>0, <2>5, <3>1, <3>2, StoredProperly DEF Claim, Proper
    <2>6. CASE Clear(d)
      <3> DEFINE p == [parent EXCEPT !.address = IF @ = d THEN None ELSE @]
      <3>1. CASE parent # None
        <4>1. p \in Parents /\ Proper(p)
          BY <1>0, <3>1 DEF Parents, Proper
        <4> QED
          BY <1>0, <2>6, <3>1, <4>1, StoredProperly DEF Clear, Proper
      <3> QED
        BY <1>1, <2>6, <3>1 DEF Clear
    (* The claim and the address go before the finalizer. *)
    <2>7. CASE Release(d)
      <3> DEFINE p == [parent EXCEPT !.finalizers = live[d] \ {d}, !.claimedBy = None]
      <3>1. CASE d \in current
        <4>1. parent # None /\ live[d] = parent.finalizers
          BY <2>7, <3>1 DEF Release, Fetched
        <4>2. kind = "ingress" => parent.address # d
          BY <2>7, <4>1 DEF Release, Anchored, Cleared
        <4>3. p \in Parents /\ (p.deleting \/ Proper(p)) /\ (kind = "exposed" => p.address = None)
          BY <1>0, <4>1, <4>2 DEF Parents, Proper
        <4> QED
          BY <1>0, <2>7, <3>1, <4>3, StoredProperly DEF Release
      <3> QED
        BY <1>1, <2>7, <3>1 DEF Release
    (* Only a parent that is being deleted is left with the claim. *)
    <2>8. CASE Unfinalize(d)
      <3> DEFINE p == [parent EXCEPT !.finalizers = @ \ {d}]
      <3>1. parent # None /\ parent.deleting
        BY <2>8 DEF Unfinalize, Anchored, Adopted, Holding, ShardingTypeOK, Coherent
      <3>2. p \in Parents /\ p.deleting /\ (kind = "exposed" => p.address = None)
        BY <1>0, <3>1 DEF Parents, Proper
      <3>3. CASE Write(p)
        BY <1>0, <3>2, <3>3, StoredProperly
      <3> QED
        BY <1>1, <2>8, <3>3 DEF Unfinalize
    <2> QED
      BY <1>6, <2>1, <2>3, <2>4, <2>5, <2>6, <2>7, <2>8 DEF Work
  <1>7. CASE UNCHANGED vars
    BY <1>1, <1>7 DEF vars
  <1> QED
    BY <1>1, <1>2, <1>3, <1>4, <1>5, <1>6, <1>7 DEF Next

(* Nobody else writes a deployment's address. *)
LEMMA OwnAddress ==
    ASSUME ShardingTypeOK, Fetched, [Next]_vars, NEW e \in Deployments, parent' # None,
           kind = "ingress", ~Publish(e), parent # None => parent.address # e
    PROVE  parent'.address # e
  <1> USE NoneIsNoParent, ShardingConstants
      DEF Write, Stored, Parents, ShardingTypeOK, cluster, bounds, api, locals, proxies
  <1>1. CASE UNCHANGED parent
    BY <1>1
  <1>2. CASE Create \/ Retarget \/ Delete
    BY <1>2 DEF Create, Retarget, Delete, Edit, Created
  <1>3. ASSUME NEW d \in Deployments,
               ChangeSpec(d) \/ Deliver(d) \/ StartUp(d) \/ Crash(d) \/ Fail(d)
        PROVE  UNCHANGED parent
    BY <1>3 DEF ChangeSpec, Deliver, StartUp, Crash, Fail
  <1>4. ASSUME NEW d \in Deployments, Work(d)
        PROVE  parent'.address # e
    <2>1. CASE \/ Reconcile(d) \/ ApplyIngress(d) \/ ApplyEgress(d) \/ ApplyExpose(d)
               \/ Drop(d) \/ Reread(d) \/ Cleanup(d) \/ ListServices(d) \/ ApplyRewrites(d)
      BY <1>1, <2>1 DEF Reconcile, ApplyIngress, ApplyEgress, ApplyExpose, Provision, Drop,
            Reread, Cleanup, ListServices, ApplyRewrites
    <2>2. CASE Adopt(d) \/ Unfinalize(d)
      BY <2>2 DEF Adopt, Unfinalize
    <2>3. CASE Publish(d)
      BY <2>3 DEF Publish
    <2>4. CASE Claim(d)
      BY <2>4 DEF Claim
    <2>5. CASE Clear(d)
      BY <2>5 DEF Clear
    <2>6. CASE Release(d)
      <3>1. CASE d \notin current
        BY <1>1, <2>6, <3>1 DEF Release
      <3>2. CASE d \in current
        <4>1. parent # None
          BY <2>6, <3>2 DEF Release, Fetched
        <4>2. parent' = Stored([parent EXCEPT !.finalizers = live[d] \ {d}, !.claimedBy = None])
          BY <2>6, <3>2 DEF Release
        <4> QED
          BY <4>1, <4>2
      <3> QED
        BY <3>1, <3>2
    <2> QED
      BY <1>4, <2>1, <2>2, <2>3, <2>4, <2>5, <2>6 DEF Work
  <1>5. CASE UNCHANGED vars
    BY <1>1, <1>5 DEF vars
  <1> QED
    BY <1>1, <1>2, <1>3, <1>4, <1>5 DEF Next

LEMMA ClearedStep ==
    ASSUME ShardingInv, Cleared, [Next]_vars
    PROVE  Cleared'
  <1> USE DEF ShardingInv
  <1> SUFFICES ASSUME NEW e \in Deployments, kind' = "ingress",
                      at'[e] \in {"reread", "release"}, parent' # None
               PROVE  parent'.address # e
    BY DEF Cleared
  <1>0. kind = "ingress"
    BY KindFixed
  <1>1. CASE at[e] \in {"reread", "release"}
    <2>1. ~Publish(e)
      BY <1>1 DEF Publish
    <2> QED
      BY <1>0, <1>1, <2>1, OwnAddress DEF Cleared
  <1>2. CASE at[e] \notin {"reread", "release"}
    <2>1. Work(e) /\ ~Reconcile(e)
      BY <1>2, Moves, Begins DEF Rests, Ends
    <2>2. at[e] = "clear"
      BY <1>0, <1>2, <2>1, Onward DEF Ways
    <2>3. Clear(e)
      BY <2>1, <2>2 DEF Work, Adopt, ApplyIngress, ApplyEgress, ApplyExpose, Provision, Publish,
            Claim, Drop, Reread, Release, Cleanup, Unfinalize, ListServices, ApplyRewrites
    <2>4. parent # None /\ Write([parent EXCEPT !.address = IF @ = e THEN None ELSE @])
      BY <2>3 DEF Clear, Retry, Done, Goto, ShardingTypeOK
    <2> QED
      BY <2>4, ShardingConstants DEF Write, Stored, Parents, ShardingTypeOK
  <1> QED
    BY <1>1, <1>2

LEMMA AnchoredStep ==
    ASSUME ShardingInv, Anchored, [Next]_vars, OwnsWhatItReads
    PROVE  Anchored'
  BY AdoptedStep, FittingStep, EquippedStep, AttachedStep, TidyStep, ClearedStep DEF Anchored

-----------------------------------------------------------------------------
(* What a deployment has seen and decided *)

Awake ==
    /\ news \subseteq up
    /\ queued \subseteq up
    /\ \A d \in Deployments : at[d] # "idle" => d \in up

Informed == \A d \in up \ news : cache[d] = View(parent)

(* The parent asks for d and bears its finalizer. *)
Due(d) ==
    /\ parent # None
    /\ HasFinalizer(d, parent)
    /\ ~parent.deleting
    /\ ~MustRelease(d, parent)

(* The rewrite of a parent that is not being deleted. *)
Listing(d) == at[d] \in {"list", "rewrite"} /\ ~obj[d].deleting

(* A deployment that has seen everything and has nothing queued works on what is
   there, and has written what it shall write by the time it writes the DNS
   rewrite; when it is idle, no adoption, release or cleanup is left to do. *)
Decided(d) ==
    /\ at[d] # "idle" => obj[d] = View(parent)
    /\ (at[d] \in {"provision", "publish", "claim"} \/ Listing(d)) =>
           ~MustRelease(d, parent)
    /\ (Listing(d) \/ (at[d] = "idle" /\ Due(d))) =>
           /\ parent.claimedBy = d
           /\ kind = "egress" => parent.address = d
    /\ (at[d] = "rewrite" /\ ~obj[d].deleting) => found[d]
    /\ (at[d] = "idle" /\ parent # None) => Dispatch(d, parent) \in {"idle", "provision"}
    /\ (at[d] = "idle" /\ Due(d)) => d \in Kept /\ (HasDns(d) => dns = d)

Undisturbed == up \ (news \cup queued)

Attentive == Awake /\ Informed /\ \A d \in Undisturbed : Decided(d)

(* A write is sent to everybody unless it changes nothing. *)
LEMMA WriteSent ==
    ASSUME NEW p, Write(p)
    PROVE  news' = up \/ UNCHANGED <<parent, news>>
  BY DEF Write

(* The kinds of step, as far as watches and queues go. *)
LEMMA Signals ==
    ASSUME ShardingTypeOK, Awake, [Next]_vars, NEW e \in up'
    PROVE  \/ Reconcile(e)
           \/ StartUp(e) /\ e \in queued'
           \/ Deliver(e) /\ e \in queued'
           \/ /\ e \in up
              /\ cache'[e] = cache[e]
              /\ e \in queued => e \in queued'
              /\ e \in news => e \in news'
              /\ e \in news' \/ UNCHANGED parent
  <1> USE DEF cluster, bounds, api, locals, proxies
  <1> DEFINE Hears == /\ e \in up
                      /\ cache'[e] = cache[e]
                      /\ e \in queued => e \in queued'
                      /\ e \in news => e \in news'
                      /\ e \in news' \/ UNCHANGED parent
  <1>0. \A p : Write(p) /\ UNCHANGED up =>
            (e \in news => e \in news') /\ (e \in news' \/ UNCHANGED parent)
    BY WriteSent DEF Awake
  <1>1. CASE Create \/ Retarget \/ Delete
    BY <1>0, <1>1 DEF Create, Retarget, Delete, Edit
  <1>2. ASSUME NEW d \in Deployments, ChangeSpec(d)
        PROVE  Hears
    BY <1>2 DEF ChangeSpec
  <1>3. ASSUME NEW d \in Deployments, Deliver(d)
        PROVE  (Deliver(e) /\ e \in queued') \/ Hears
    BY <1>3 DEF Deliver, ShardingTypeOK
  <1>4. ASSUME NEW d \in Deployments, StartUp(d)
        PROVE  (StartUp(e) /\ e \in queued') \/ Hears
    BY <1>4 DEF StartUp, ShardingTypeOK
  <1>5. ASSUME NEW d \in Deployments, Crash(d)
        PROVE  Hears
    BY <1>5 DEF Crash, ShardingTypeOK
  <1>6. ASSUME NEW d \in Deployments, Fail(d)
        PROVE  Hears
    BY <1>6 DEF Fail, Retry
  <1>7. ASSUME NEW d \in Deployments, Work(d)
        PROVE  Reconcile(e) \/ Hears
    <2>1. UNCHANGED <<up, cache>>
      BY <1>7 DEF Work, Reconcile, Adopt, ApplyIngress, ApplyEgress, ApplyExpose, Provision,
            Publish, Claim, Drop, Clear, Reread, Release, Cleanup, Unfinalize,
            ListServices, ApplyRewrites
    <2>2. e \in queued => e \in queued' \/ Reconcile(e)
      BY <1>7 DEF Work, Reconcile, Adopt, ApplyIngress, ApplyEgress, ApplyExpose, Provision,
            Publish, Claim, Drop, Clear, Reread, Release, Cleanup, Unfinalize,
            ListServices, ApplyRewrites, TearDown, ChangeProxy, Retry
    <2>3. (e \in news => e \in news') /\ (e \in news' \/ UNCHANGED parent)
      BY <1>0, <1>7, <2>1 DEF Work, Reconcile, Adopt, ApplyIngress, ApplyEgress, ApplyExpose,
            Provision, Publish, Claim, Drop, Clear, Reread, Release, Cleanup, Unfinalize,
            ListServices, ApplyRewrites
    <2> QED
      BY <2>1, <2>2, <2>3
  <1>8. CASE UNCHANGED vars
    BY <1>8 DEF vars
  <1> QED
    BY <1>1, <1>2, <1>3, <1>4, <1>5, <1>6, <1>7, <1>8 DEF Next

LEMMA InformedStep ==
    ASSUME ShardingInv, Awake, Informed, [Next]_vars
    PROVE  Informed'
  <1> SUFFICES ASSUME NEW e \in up', e \notin news'
               PROVE  cache'[e] = View(parent')
    BY DEF Informed, View
  <1> USE DEF ShardingInv
  <1>0. e \in Deployments
    BY TypeStep DEF ShardingTypeOK
  <1>1. CASE Reconcile(e)
    BY <1>1 DEF Reconcile, cluster, api, Informed
  <1>2. CASE StartUp(e) \/ Deliver(e)
    BY <1>0, <1>2 DEF StartUp, Deliver, api, cluster, ShardingTypeOK
  <1> QED
    BY <1>1, <1>2, Signals DEF Informed

LEMMA AwakeStep ==
    ASSUME ShardingTypeOK, Awake, [Next]_vars
    PROVE  Awake'
  <1> USE DEF cluster, bounds, api, locals, proxies
  <1>0. \A p : Write(p) /\ UNCHANGED up => news' \subseteq up'
    BY WriteSent DEF Awake
  <1>1. CASE Create \/ Retarget \/ Delete
    BY <1>0, <1>1 DEF Create, Retarget, Delete, Edit, Awake
  <1>2. ASSUME NEW d \in Deployments, ChangeSpec(d) \/ Deliver(d) \/ StartUp(d)
        PROVE  Awake'
    BY <1>2 DEF ChangeSpec, Deliver, StartUp, Awake
  <1>3. ASSUME NEW d \in Deployments, Crash(d) \/ Fail(d)
        PROVE  Awake'
    BY <1>3 DEF Crash, Fail, Retry, Done, Goto, Awake, ShardingTypeOK
  <1>4. ASSUME NEW d \in Deployments, Work(d)
        PROVE  Awake'
    <2>1. UNCHANGED up
      BY <1>4 DEF Work, Reconcile, Adopt, ApplyIngress, ApplyEgress, ApplyExpose, Provision,
            Publish, Claim, Drop, Clear, Reread, Release, Cleanup, Unfinalize,
            ListServices, ApplyRewrites
    <2>2. d \in up
      BY <1>4 DEF Work, Reconcile, Adopt, ApplyIngress, ApplyEgress, ApplyExpose, Provision,
            Publish, Claim, Drop, Clear, Reread, Release, Cleanup, Unfinalize,
            ListServices, ApplyRewrites, Awake
    <2>3. queued' \subseteq up
      BY <1>4, <2>2 DEF Work, Reconcile, Adopt, ApplyIngress, ApplyEgress, ApplyExpose, Provision,
            Publish, Claim, Drop, Clear, Reread, Release, Cleanup, Unfinalize,
            ListServices, ApplyRewrites, TearDown, ChangeProxy, Retry, Woken, Awake
    <2>4. news' \subseteq up'
      BY <1>0, <1>4, <2>1 DEF Work, Reconcile, Adopt, ApplyIngress, ApplyEgress, ApplyExpose,
            Provision, Publish, Claim, Drop, Clear, Reread, Release, Cleanup, Unfinalize,
            ListServices, ApplyRewrites, Awake
    <2>5. \A e \in Deployments : at'[e] # "idle" => e \in up
      BY <1>4, <2>2, OthersRest DEF Rests, Awake
    <2> QED
      BY <2>1, <2>3, <2>4, <2>5 DEF Awake
  <1>5. CASE UNCHANGED vars
    BY <1>5 DEF vars, Awake
  <1> QED
    BY <1>1, <1>2, <1>3, <1>4, <1>5 DEF Next

(* Views and parents are of one mind. *)
LEMMA ViewAsParent ==
    ASSUME ShardingTypeOK, NEW d \in Deployments
    PROVE  /\ (View(parent) = None) <=> (parent = None)
           /\ parent # None =>
                /\ View(parent).target = parent.target
                /\ View(parent).deleting = parent.deleting
                /\ View(parent).finalizers = parent.finalizers
                /\ MustRelease(d, View(parent)) <=> MustRelease(d, parent)
                /\ Dispatch(d, View(parent)) = Dispatch(d, parent)
  <1>1. parent # None => View(parent) # None
    BY NoneIsNoParent DEF View, Views, Parents, ShardingTypeOK
  <1> QED
    BY <1>1 DEF View, MustRelease, IsOurs, Dispatch, HasFinalizer, MayAdopt

(* Whoever a step leaves undisturbed was so before and sees the same parent,     *)
(* with the same duties.                                                        *)
LEMMA SameDuties ==
    ASSUME ShardingInv, Awake, Informed, [Next]_vars,
           NEW e \in Deployments, e \in Undisturbed'
    PROVE  /\ UNCHANGED <<parent, kind>>
           /\ ~Reconcile(e) => e \in Undisturbed
           /\ Reconcile(e) => cache[e] = View(parent)
           /\ parent # None =>
                /\ MustRelease(e, parent)' <=> MustRelease(e, parent)
                /\ Dispatch(e, parent)' = Dispatch(e, parent)
  <1> USE DEF ShardingInv
  <1>1. \/ Reconcile(e)
        \/ /\ e \in up
           /\ e \notin news
           /\ e \notin queued
           /\ UNCHANGED parent
    BY Signals DEF Undisturbed
  <1>2. UNCHANGED parent
    BY <1>1 DEF Reconcile, api
  <1>3. UNCHANGED kind
    BY KindFixed
  <1>4. Reconcile(e) => e \in up /\ e \notin news
    BY DEF Reconcile, Undisturbed, cluster, api
  <1>5. cache[e] = View(parent)
    BY <1>1, <1>4 DEF Informed
  <1>6. e \in default' <=> e \in default
    <2>1. ASSUME NEW d \in Deployments, Work(d)
          PROVE  UNCHANGED default
      BY <2>1, WorkLeavesCluster
    <2>2. ~StartUp(e) /\ ~Crash(e)
      BY <1>1, <1>4 DEF StartUp, Crash, Undisturbed
    <2>3. ASSUME NEW d \in Deployments, StartUp(d) \/ Crash(d)
          PROVE  e \in default' <=> e \in default
      <3>1. d # e
        BY <2>2, <2>3
      <3>2. \/ default' = default \cup {d}
            \/ default' = default \ {d}
        BY <2>3 DEF StartUp, Crash
      <3> QED
        BY <3>1, <3>2
    <2>4. ASSUME NEW d \in Deployments, ChangeSpec(d) \/ Deliver(d) \/ Fail(d)
          PROVE  UNCHANGED default
      BY <2>4 DEF ChangeSpec, Deliver, Fail, cluster
    <2>5. Create \/ Retarget \/ Delete => UNCHANGED default
      BY DEF Create, Retarget, Delete, Edit
    <2>6. UNCHANGED vars => UNCHANGED default
      BY DEF vars, cluster
    <2> QED
      BY <2>1, <2>3, <2>4, <2>5, <2>6 DEF Next
  <1>7. (e \in allowed' <=> e \in allowed) \/ parent = None \/ parent.target = "unwanted"
    <2>1. ASSUME NEW d \in Deployments, Work(d)
          PROVE  UNCHANGED allowed
      BY <2>1, WorkLeavesCluster
    <2>2. ChangeSpec(e) => parent = None \/ parent.target = "unwanted"
      <3>1. ChangeSpec(e) => ~HasConfig(cache[e])
        BY <1>1, <1>4 DEF ChangeSpec, Undisturbed
      <3> QED
        BY <1>5, <3>1, ViewAsParent DEF HasConfig
    <2> QED
      BY <2>1, <2>2 DEF Next, Create, Retarget, Delete, Edit, ChangeSpec, Deliver, StartUp,
            Crash, Fail, vars, cluster
  <1>8. parent # None =>
          /\ MustRelease(e, parent)' <=> MustRelease(e, parent)
          /\ MayAdopt(e, parent)' <=> MayAdopt(e, parent)
    BY <1>2, <1>6, <1>7 DEF MustRelease, MayAdopt, IsOurs
  <1>9. parent # None => Dispatch(e, parent)' = Dispatch(e, parent)
    BY <1>2, <1>8 DEF Dispatch, HasFinalizer
  <1> QED
    BY <1>1, <1>2, <1>3, <1>5, <1>8, <1>9 DEF Undisturbed

(* Nobody takes the rewrite from whoever is due it without waking it. *)
LEMMA RewriteStays ==
    ASSUME ShardingInv, Awake, Informed, [Next]_vars,
           NEW e \in Deployments, e \in Undisturbed, e \in Undisturbed',
           Due(e), HasDns(e), ~ApplyRewrites(e)
    PROVE  UNCHANGED dns
  <1> USE DEF ShardingInv
  <1>1. e \in Woken
    <2>1. cache[e] = View(parent) /\ e \in up
      BY DEF Undisturbed, Informed
    <2> QED
      BY <2>1, ViewAsParent DEF Woken, HasDns, HasConfig, Due, MustRelease
  <1>2. ASSUME NEW d \in Deployments, ApplyRewrites(d)
        PROVE  UNCHANGED dns
    BY <1>1, <1>2 DEF ApplyRewrites, Undisturbed
  <1>3. ASSUME NEW d \in Deployments, Work(d), ~ApplyRewrites(d)
        PROVE  UNCHANGED dns
    BY <1>3 DEF Work, Reconcile, Adopt, ApplyIngress, ApplyEgress, ApplyExpose, Provision,
          Publish, Claim, Drop, Clear, Reread, Release, Cleanup, Unfinalize, ListServices
  <1> QED
    BY <1>2, <1>3 DEF Next, Create, Retarget, Delete, Edit, ChangeSpec, Deliver, StartUp,
          Crash, Fail, vars

(* Writes after which the parent would not be the same. *)
LEMMA WritesTell ==
    ASSUME NEW p \in Parents, Write(p), UNCHANGED parent, parent # None
    PROVE  parent = p
  BY DEF Write, Stored

LEMMA DecidedStep ==
    ASSUME ShardingInv, Anchored, Attentive, [Next]_vars,
           NEW e \in Deployments, e \in Undisturbed'
    PROVE  Decided(e)'
  <1> USE DEF ShardingInv
  <1>1. /\ UNCHANGED <<parent, kind>>
        /\ ~Reconcile(e) => e \in Undisturbed
        /\ Reconcile(e) => cache[e] = View(parent)
        /\ parent # None =>
             /\ MustRelease(e, parent)' <=> MustRelease(e, parent)
             /\ Dispatch(e, parent)' = Dispatch(e, parent)
    BY SameDuties DEF Attentive
  <1>2. View(parent)' = View(parent) /\ (HasDns(e)' <=> HasDns(e))
    BY <1>1 DEF View, HasDns
  <1>3. Due(e)' <=> Due(e)
    BY <1>1 DEF Due, HasFinalizer
  <1>4. /\ at[e] # "idle" => parent \in Parents \cup {None}
        /\ Due(e) => parent # None /\ Dispatch(e, parent) = "provision"
    BY DEF Due, Dispatch, HasFinalizer, ShardingTypeOK
  <1>5. CASE Rests(e) /\ ~ApplyRewrites(e) /\ ~Reconcile(e)
    <2>1. Decided(e) /\ e \in Undisturbed
      BY <1>1, <1>5 DEF Attentive
    <2>2. (Due(e) /\ HasDns(e)) => UNCHANGED dns
      BY <1>5, <2>1, RewriteStays DEF Attentive
    <2>3. Listing(e)' <=> Listing(e)
      BY <1>5 DEF Rests, Listing
    <2>4. Listing(e) => parent # None
      BY <2>1, ViewAsParent DEF Listing, Decided, ShardingTypeOK, Coherent
    <2>5. at[e] \in {"provision", "publish", "claim"} => parent # None
      BY DEF Anchored, Adopted, Holding
    <2> QED
      BY <1>1, <1>2, <1>3, <1>5, <2>1, <2>2, <2>3, <2>4, <2>5 DEF Decided, Rests
  <1>6. CASE Reconcile(e)
    <2>1. cache[e] = View(parent)
      BY <1>1, <1>6
    <2>2. CASE at'[e] = "idle"
      <3>1. parent = None \/ Dispatch(e, parent) = "idle"
        BY <1>6, <2>1, <2>2, ViewAsParent DEF Reconcile, Goto, ShardingTypeOK
      <3>2. ~Due(e)
        BY <1>4, <3>1 DEF Due
      <3> QED
        BY <1>1, <1>3, <2>2, <3>1, <3>2 DEF Decided, Listing
    <2>3. CASE at'[e] # "idle"
      <3>1. /\ parent # None
            /\ obj'[e] = View(parent)
            /\ at'[e] \in {"cleanup", "drop", "provision", "adopt"}
            /\ at'[e] = "provision" => ~MustRelease(e, parent)
        BY <1>6, <2>1, <2>3, Begins, ViewAsParent
      <3> QED
        BY <1>1, <1>2, <2>3, <3>1 DEF Decided, Listing
    <2> QED
      BY <2>2, <2>3
  <1>7. CASE Work(e) /\ ~Reconcile(e)
    <2>1. /\ Decided(e)
          /\ at[e] # "idle"
          /\ obj[e] = View(parent)
          /\ parent \in Parents
          /\ parent # None
      <3>1. Decided(e) /\ at[e] # "idle"
        BY <1>1, <1>7 DEF Attentive, Work, Adopt, ApplyIngress, ApplyEgress, ApplyExpose,
              Provision, Publish, Claim, Drop, Clear, Reread, Release, Cleanup, Unfinalize,
              ListServices, ApplyRewrites
      <3>2. obj[e] = View(parent) /\ obj[e] # None
        BY <3>1 DEF Decided, ShardingTypeOK, Coherent
      <3> QED
        BY <3>1, <3>2, ViewAsParent DEF ShardingTypeOK
    <2>2. /\ obj[e].target = parent.target
          /\ obj[e].deleting = parent.deleting
          /\ obj[e].finalizers = parent.finalizers
      BY <2>1, ViewAsParent
    <2>3. ~Retry(e)
      BY DEF Retry, Undisturbed
    <2>4. CASE at'[e] # "idle" /\ ~Claim(e) /\ ~ListServices(e)
      <3>1. /\ obj'[e] = obj[e]
            /\ <<at[e], at'[e]>> \in Ways
            /\ at[e] = "rewrite" => obj[e].deleting
        BY <1>7, <2>4, Onward
      <3>2. at[e] \notin {"claim", "list", "release"}
        <4>1. at[e] = "claim" => Claim(e)
          BY <1>7 DEF Work, Adopt, ApplyIngress, ApplyEgress, ApplyExpose,
                Provision, Publish, Claim, Drop, Clear, Reread, Release, Cleanup, Unfinalize,
                ListServices, ApplyRewrites
        <4>2. at[e] = "list" => ListServices(e)
          BY <1>7 DEF Work, Adopt, ApplyIngress, ApplyEgress, ApplyExpose,
                Provision, Publish, Claim, Drop, Clear, Reread, Release, Cleanup, Unfinalize,
                ListServices, ApplyRewrites
        <4>3. at[e] = "release" => Release(e)
          BY <1>7 DEF Work, Adopt, ApplyIngress, ApplyEgress, ApplyExpose,
                Provision, Publish, Claim, Drop, Clear, Reread, Release, Cleanup, Unfinalize,
                ListServices, ApplyRewrites
        <4>4. ~Release(e)
          <5> DEFINE p == [parent EXCEPT !.finalizers = live[e] \ {e}, !.claimedBy = None]
          <5>1. SUFFICES ASSUME Release(e)
                         PROVE  FALSE
            OBVIOUS
          <5>2. e \in current /\ Write(p)
            BY <2>3, <5>1 DEF Release
          <5>3. p \in Parents /\ e \notin p.finalizers
            BY <2>1 DEF Parents, ShardingTypeOK
          <5>4. e \in parent.finalizers
            BY <2>2, <5>1 DEF Release, ShardingTypeOK, Coherent
          <5> QED
            BY <1>1, <2>1, <5>2, <5>3, <5>4, WritesTell
        <4> QED
          BY <2>4, <4>1, <4>2, <4>3, <4>4
      <3>3. at'[e] \in {"publish", "claim"} => ~MustRelease(e, parent)
        BY <2>1, <3>1 DEF Ways, Decided
      <3>4. ~Listing(e)' /\ at'[e] # "provision"
        <4>1. at[e] = "cleanup" => obj[e].deleting
          BY DEF ShardingTypeOK, Coherent
        <4> QED
          BY <3>1, <3>2, <4>1 DEF Ways, Listing
      <3>5. at'[e] = "rewrite" => obj'[e].deleting
        BY <3>4 DEF Listing
      <3> QED
        BY <1>1, <1>2, <2>1, <2>4, <3>1, <3>3, <3>4, <3>5 DEF Decided
    <2>5. CASE Claim(e)
      <3> DEFINE p == [parent EXCEPT !.claimedBy = e,
                                     !.address = IF kind = "egress" THEN e ELSE @]
      <3>1. Write(p) /\ p \in Parents
        BY <2>1, <2>5 DEF Claim, Parents
      <3>2. parent = p
        BY <1>1, <2>1, <3>1, WritesTell
      <3>3. parent.claimedBy = e /\ (kind = "egress" => parent.address = e)
        BY <2>1, <3>2 DEF Parents
      <3>4. ~MustRelease(e, parent) /\ e \in parent.finalizers /\ ~parent.deleting
        BY <2>1, <2>2, <2>5 DEF Claim, Decided, ShardingTypeOK, Coherent
      <3>5. CASE HasDns(e)
        <4>1. at'[e] = "list" /\ obj'[e] = obj[e]
          BY <2>1, <2>5, <3>5 DEF Claim, Goto, locals, ShardingTypeOK
        <4> QED
          BY <1>1, <1>2, <2>1, <2>2, <3>3, <3>4, <4>1 DEF Decided, Listing
      <3>6. CASE ~HasDns(e)
        <4>1. at'[e] = "idle" /\ UNCHANGED Kept
          BY <2>1, <2>5, <3>6 DEF Claim, Done, Goto, Kept, proxies, ShardingTypeOK
        <4>2. e \in Kept
          BY <2>5 DEF Claim, Anchored, Equipped, Serves
        <4>3. Dispatch(e, parent) = "provision"
          BY <3>4 DEF Dispatch, HasFinalizer
        <4> QED
          BY <1>1, <1>2, <1>3, <2>1, <3>3, <3>6, <4>1, <4>2, <4>3 DEF Decided, Listing
      <3> QED
        BY <3>5, <3>6
    <2>6. CASE ListServices(e)
      <3>1. /\ at[e] = "list"
            /\ at'[e] = "rewrite"
            /\ obj'[e] = obj[e]
            /\ found'[e] = Rewrites(e)
        BY <2>6 DEF ListServices, Goto, ShardingTypeOK
      <3>2. Listing(e)' <=> Listing(e)
        BY <3>1 DEF Listing
      <3>3. Listing(e) => Rewrites(e) /\ ~MustRelease(e, parent)
        BY <2>1, <2>2 DEF Listing, Rewrites, Decided, MustRelease
      <3>4. ~obj[e].deleting => Listing(e)
        BY <3>1 DEF Listing
      <3> QED
        BY <1>1, <1>2, <2>1, <3>1, <3>2, <3>3, <3>4 DEF Decided
    <2>7. CASE at'[e] = "idle" /\ ApplyRewrites(e)
      <3>1. at[e] = "rewrite" /\ ~obj[e].deleting
        BY <2>7 DEF ApplyRewrites, Goto, ShardingTypeOK
      <3>2. Listing(e) /\ found[e]
        BY <2>1, <3>1 DEF Listing, Decided
      <3>3. /\ ~MustRelease(e, parent)
            /\ e \in parent.finalizers
            /\ ~parent.deleting
            /\ parent.claimedBy = e
            /\ kind = "egress" => parent.address = e
        BY <2>1, <2>2, <3>1, <3>2 DEF Decided, ShardingTypeOK, Coherent
      <3>4. dns' = e /\ UNCHANGED Kept
        BY <2>7, <3>2 DEF ApplyRewrites, Kept, proxies
      <3>5. e \in Kept
        BY <2>2, <3>1, <3>3 DEF Anchored, Equipped, Serves, MustRelease
      <3>6. Dispatch(e, parent) = "provision"
        BY <3>3 DEF Dispatch, HasFinalizer
      <3> QED
        BY <1>1, <1>2, <1>3, <2>1, <2>7, <3>3, <3>4, <3>5, <3>6 DEF Decided, Listing
    (* Adopt, Release and Unfinalize change the parent when they end well. *)
    <2>8. CASE at'[e] = "idle" /\ ~Claim(e) /\ ~ApplyRewrites(e)
      <3>1. Adopt(e) \/ Release(e) \/ Unfinalize(e)
        BY <1>7, <2>3, <2>8 DEF Work, ApplyIngress, ApplyEgress, ApplyExpose, Provision, Publish,
              Drop, Clear, Reread, Cleanup, ListServices, Goto, ShardingTypeOK
      <3>2. CASE Adopt(e)
        <4> DEFINE p == [parent EXCEPT !.finalizers = @ \cup {e}]
        <4>1. Write(p)
          BY <2>3, <3>2 DEF Adopt
        <4>2. p \in Parents /\ e \in p.finalizers
          BY <2>1 DEF Parents
        <4>3. e \notin parent.finalizers
          BY <2>2, <3>2 DEF Adopt, Anchored, Fitting, Fits
        <4> QED
          BY <1>1, <2>1, <4>1, <4>2, <4>3, WritesTell
      <3>3. CASE Release(e)
        <4> DEFINE p == [parent EXCEPT !.finalizers = live[e] \ {e}, !.claimedBy = None]
        <4>1. Write(p)
          BY <2>3, <3>3 DEF Release
        <4>2. p \in Parents /\ e \notin p.finalizers
          BY <2>1 DEF Parents, ShardingTypeOK
        <4>3. e \in parent.finalizers
          BY <2>2, <3>3 DEF Release, ShardingTypeOK, Coherent
        <4> QED
          BY <1>1, <2>1, <4>1, <4>2, <4>3, WritesTell
      <3>4. CASE Unfinalize(e)
        <4> DEFINE p == [parent EXCEPT !.finalizers = @ \ {e}]
        <4>1. Write(p) /\ e \in parent.finalizers
          BY <2>3, <3>4 DEF Unfinalize, HasFinalizer
        <4>2. p \in Parents /\ e \notin p.finalizers
          BY <2>1 DEF Parents
        <4> QED
          BY <1>1, <2>1, <4>1, <4>2, WritesTell
      <3> QED
        BY <3>1, <3>2, <3>3, <3>4
    <2> QED
      BY <2>4, <2>5, <2>6, <2>7, <2>8
  (* What crashes is no longer up, what fails is queued. *)
  <1>8. CASE Crash(e) \/ Fail(e)
    BY <1>8 DEF Crash, Fail, Retry, Undisturbed
  <1> QED
    BY <1>5, <1>6, <1>7, <1>8, Moves DEF Work

LEMMA AttentiveStep ==
    ASSUME ShardingInv, Anchored, Attentive, [Next]_vars
    PROVE  Attentive'
  <1>1. Awake' /\ Informed'
    BY AwakeStep, InformedStep DEF ShardingInv, Attentive
  <1>2. ASSUME NEW e \in Undisturbed'
        PROVE  Decided(e)'
    <2>1. e \in Deployments
      BY TypeStep DEF Undisturbed, ShardingTypeOK
    <2> QED
      BY <2>1, DecidedStep
  <1> QED
    BY <1>1, <1>2 DEF Attentive

LEMMA InitAttentive ==
    Init => Anchored /\ Attentive
  <1> SUFFICES ASSUME Init
               PROVE  Anchored /\ Attentive
    OBVIOUS
  <1>1. parent # None => \E t \in Targets : parent = Created(t)
    BY DEF Init
  <1>2. Tidy
    BY <1>1 DEF Tidy, Proper, Created
  <1>3. Adopted /\ Fitting /\ Equipped /\ Attached /\ Cleared
    BY DEF Init, Adopted, Holding, Fitting, Fits, Equipped, Serves, Attached, Kept, Cleared
  <1>4. Attentive
    BY DEF Init, Attentive, Awake, Informed, Undisturbed
  <1> QED
    BY <1>2, <1>3, <1>4 DEF Anchored

RestInv == ShardingInv /\ Anchored /\ Attentive

LEMMA RestInvariance ==
    ShardingSpec /\ [][OwnsWhatItReads]_vars => []RestInv
  <1>1. Init => RestInv
    BY InitInv, InitAttentive DEF RestInv
  <1>2. RestInv /\ [Next]_vars /\ [OwnsWhatItReads]_vars => RestInv'
    <2> SUFFICES ASSUME RestInv, [Next]_vars, [OwnsWhatItReads]_vars
                 PROVE  RestInv'
      OBVIOUS
    <2>1. ShardingInv'
      BY TypeStep, FetchedStep, TornStep DEF RestInv, ShardingInv
    <2>2. OwnsWhatItReads
      BY DEF OwnsWhatItReads, RestInv, ShardingInv, ShardingTypeOK, vars, Reconcile
    <2> QED
      BY <2>1, <2>2, AnchoredStep, AttentiveStep DEF RestInv
  <1> QED
    BY <1>1, <1>2, PTL DEF ShardingSpec

(* Who has a finalizer at rest is an owner. *)
LEMMA HoldersOwn ==
    ASSUME RestInv, AtRest, parent # None, NEW d \in parent.finalizers
    PROVE  d \in Owners /\ Due(d)
  <1>1. d \in Deployments
    BY DEF RestInv, ShardingInv, ShardingTypeOK, Parents
  <1>2. Dispatch(d, parent) \in {"idle", "provision"}
    BY <1>1 DEF RestInv, AtRest, Attentive, Undisturbed, Decided
  <1>3. ~parent.deleting /\ ~MustRelease(d, parent)
    BY <1>2 DEF Dispatch, HasFinalizer
  <1> QED
    BY <1>1, <1>3 DEF Owners, Due, MustRelease, HasFinalizer

(* The safety core of LetsGo.  When every deployment runs and has nothing left   *)
(* to do, a parent that nobody may serve is let go: no proxy, no finalizer, no   *)
(* claim and no address is left (release_ingress, relinquish_service, cleanup).  *)
(* The premise is needed: a reconcile that starts from a copy older than the     *)
(* deployment's own release provisions a proxy that nothing removes.             *)
THEOREM LetGoAtRest ==
    ShardingSpec /\ [][OwnsWhatItReads]_vars => []((AtRest /\ Owners = {}) => LetGo)
  <1>1. ASSUME RestInv, AtRest, Owners = {}
        PROVE  LetGo
    <2>1. parent # None => parent.finalizers = {}
      BY <1>1, HoldersOwn DEF RestInv, ShardingInv, ShardingTypeOK, Parents
    <2>2. Kept = {}
      BY <1>1, <2>1 DEF RestInv, Anchored, Attached, HasFinalizer
    <2>3. parent # None => Proper(parent)
      BY <1>1 DEF RestInv, Anchored, Tidy
    <2> QED
      BY <2>1, <2>2, <2>3 DEF LetGo, Proper
  <1> QED
    BY <1>1, RestInvariance, PTL

(* The safety core of HandsOver.  When every deployment runs and has nothing     *)
(* left to do, a parent with one owner bears its finalizer and its claim and no  *)
(* other, leads to its proxy and to no other, and so does the DNS rewrite that   *)
(* the owner maintains.                                                         *)
THEOREM ServedAtRest ==
    ShardingSpec /\ [][OwnsWhatItReads]_vars =>
        [](AtRest => \A d \in Deployments : Owners = {d} => ServedBy(d))
  <1>1. ASSUME RestInv, AtRest, NEW d \in Deployments, Owners = {d}
        PROVE  ServedBy(d)
    <2>1. parent # None /\ parent \in Parents /\ ~parent.deleting /\ ~MustRelease(d, parent)
      BY <1>1 DEF Owners, MustRelease, RestInv, ShardingInv, ShardingTypeOK
    <2>2. d \in allowed /\ IsOurs(d, parent) /\ parent.target # "unwanted"
      BY <1>1, <2>1 DEF Owners
    <2>3. Decided(d) /\ at[d] = "idle"
      BY <1>1 DEF RestInv, AtRest, Attentive, Undisturbed
    <2>4. d \in parent.finalizers
      <3>1. Dispatch(d, parent) \in {"idle", "provision"}
        BY <2>1, <2>3 DEF Decided
      <3> QED
        BY <2>1, <2>2, <3>1 DEF Dispatch, HasFinalizer, MayAdopt
    <2>5. parent.finalizers = {d} /\ Due(d)
      BY <1>1, <2>1, <2>4, HoldersOwn
    <2>6. Kept = {d}
      BY <2>3, <2>5, <1>1 DEF Decided, RestInv, Anchored, Attached, HasFinalizer
    <2>7. /\ parent.claimedBy = d
          /\ kind = "egress" => parent.address = d
          /\ HasDns(d) => dns = d
      BY <2>3, <2>5 DEF Decided
    <2>8. kind # "egress" => parent.address \in {d, None}
      BY <1>1, <2>1, <2>5, ShardingConstants
      DEF RestInv, Anchored, Tidy, Proper, ShardingInv, ShardingTypeOK
    <2> QED
      BY <2>1, <2>5, <2>6, <2>7, <2>8 DEF ServedBy
  <1>2. RestInv => (AtRest => \A d \in Deployments : Owners = {d} => ServedBy(d))
    BY <1>1
  <1> QED
    BY <1>2, RestInvariance, PTL

-----------------------------------------------------------------------------
(* The parent as a lease *)

Holders == IF parent = None THEN {} ELSE parent.finalizers

L == INSTANCE Lease WITH there <- parent # None, held <- Holders, serving <- Kept

LeaseStep == [L!Next]_<<parent # None, Holders, Kept>>

(* A write that leaves the finalizers alone changes nothing of the lease, unless *)
(* it is what a parent without any goes by.                                     *)
LEMMA WriteLeases ==
    ASSUME ShardingTypeOK, NEW p \in Parents, p.finalizers = Holders, Write(p), UNCHANGED proxies
    PROVE  LeaseStep
  <1>1. Kept' = Kept
    BY DEF Kept, proxies
  <1>2. CASE parent' = None
    <2>1. p.finalizers = {}
      BY <1>2, NoneIsNoParent DEF Write, Stored
    <2> QED
      BY <1>1, <1>2, <2>1 DEF LeaseStep, L!Next, L!Go, Holders
  <1>3. CASE parent' = p
    <2>1. parent' # None /\ Holders' = Holders
      BY <1>3, NoneIsNoParent DEF Holders
    <2> QED
      BY <1>1, <2>1 DEF LeaseStep, L!Next, L!Come
  <1> QED
    BY <1>2, <1>3 DEF Write, Stored

LEMMA LeaveLeases ==
    ASSUME ShardingTypeOK, NEW p \in Parents, NEW d \in Deployments, d \notin Kept,
           parent # None, HasFinalizer(d, parent),
           p.finalizers = parent.finalizers \ {d}, Write(p), UNCHANGED proxies
    PROVE  LeaseStep
  <1>1. Kept' = Kept
    BY DEF Kept, proxies
  <1>2. Holders' = Holders \ {d}
    BY NoneIsNoParent DEF Write, Stored, Holders
  <1>3. parent' = None => Holders' = {}
    BY DEF Holders
  <1> QED
    BY <1>1, <1>2, <1>3 DEF LeaseStep, L!Next, L!Leave, Holders, HasFinalizer

LEMMA LeaseUnchanged ==
    UNCHANGED <<parent, proxies>> => LeaseStep
  BY DEF LeaseStep, Holders, Kept, proxies

(* The teardown of a proxy, and its start by a deployment that holds the parent. *)
LEMMA ProxyLeases ==
    ASSUME RestInv, NEW d \in Deployments,
           \/ Drop(d) \/ Cleanup(d)
           \/ ApplyIngress(d) \/ ApplyEgress(d) \/ ApplyExpose(d)
    PROVE  LeaseStep
  <1>1. UNCHANGED parent /\ Holders' = Holders
    BY DEF Drop, Cleanup, ApplyIngress, ApplyEgress, ApplyExpose, Provision, api, Holders
  <1>2. CASE Drop(d) \/ Cleanup(d)
    <2>1. Kept' = Kept \ {d}
      BY <1>2 DEF Drop, Cleanup, TearDown, ChangeProxy, Kept
    <2> QED
      BY <1>1, <2>1 DEF LeaseStep, L!Next, L!Stop
  <1>3. CASE ApplyIngress(d) \/ ApplyEgress(d) \/ ApplyExpose(d)
    <2>1. Kept' = Kept \cup {d}
      BY <1>3 DEF ApplyIngress, ApplyEgress, ApplyExpose, Provision, ChangeProxy, Kept
    <2>2. d \in Holders
      BY <1>3 DEF ApplyIngress, ApplyEgress, ApplyExpose, Provision, RestInv, Anchored, Adopted,
           Holding, Holders, HasFinalizer
    <2> QED
      BY <1>1, <2>1, <2>2 DEF LeaseStep, L!Next, L!Start
  <1> QED
    BY <1>2, <1>3

(* A finalizer that is added or removed. *)
LEMMA HoldLeases ==
    ASSUME RestInv, NEW d \in Deployments, Adopt(d) \/ Release(d) \/ Unfinalize(d)
    PROVE  LeaseStep
  <1> USE DEF RestInv, ShardingInv, api
  <1>0. parent # None => parent \in Parents
    BY DEF ShardingTypeOK
  <1>1. UNCHANGED proxies
    BY DEF Adopt, Release, Unfinalize
  <1>2. CASE UNCHANGED parent
    BY <1>1, <1>2, LeaseUnchanged
  <1>3. CASE Adopt(d)
    <2> DEFINE p == [parent EXCEPT !.finalizers = @ \cup {d}]
    <2>1. CASE parent # None /\ ~parent.deleting /\ Write(p)
      <3>1. p \in Parents /\ p.finalizers = parent.finalizers \cup {d}
        BY <1>0, <2>1 DEF Parents
      <3>2. parent' = p /\ parent' # None
        BY <2>1, <3>1, NoneIsNoParent DEF Write, Stored
      <3>3. Holders' = Holders \cup {d} /\ Kept' = Kept
        BY <1>1, <2>1, <3>1, <3>2 DEF Holders, Kept, proxies
      <3> QED
        BY <2>1, <3>2, <3>3 DEF LeaseStep, L!Next, L!Take
    <2> QED
      BY <1>2, <1>3, <2>1 DEF Adopt
  <1>4. CASE Release(d)
    <2> DEFINE p == [parent EXCEPT !.finalizers = live[d] \ {d}, !.claimedBy = None]
    <2>1. CASE d \in current /\ Write(p)
      <3>1. parent # None /\ live[d] = parent.finalizers
        BY <1>4, <2>1 DEF Release, Fetched
      <3>2. p \in Parents /\ p.finalizers = parent.finalizers \ {d}
        BY <1>0, <3>1 DEF Parents
      <3>3. d \notin Kept
        BY <1>4 DEF Release, Torn, TornDown
      <3>4. HasFinalizer(d, parent)
        BY <1>4 DEF Release, Anchored, Adopted, Holding
      <3> QED
        BY <1>1, <2>1, <3>1, <3>2, <3>3, <3>4, LeaveLeases
    <2> QED
      BY <1>2, <1>4, <2>1 DEF Release
  <1>5. CASE Unfinalize(d)
    <2> DEFINE p == [parent EXCEPT !.finalizers = @ \ {d}]
    <2>1. CASE parent # None /\ HasFinalizer(d, parent) /\ Write(p)
      <3>1. p \in Parents /\ p.finalizers = parent.finalizers \ {d}
        BY <1>0, <2>1 DEF Parents
      <3>2. d \notin Kept
        BY <1>5 DEF Unfinalize, Torn, TornDown
      <3> QED
        BY <1>1, <2>1, <3>1, <3>2, LeaveLeases
    <2> QED
      BY <1>2, <1>5, <2>1 DEF Unfinalize
  <1> QED
    BY <1>3, <1>4, <1>5

(* What else is written to the parent, by users or by deployments. *)
LEMMA ParentLeases ==
    ASSUME RestInv, \/ Create \/ Retarget \/ Delete
                    \/ \E d \in Deployments : Publish(d) \/ Claim(d) \/ Clear(d)
    PROVE  LeaseStep
  <1> USE DEF RestInv, ShardingInv
  <1>0. parent # None => parent \in Parents
    BY DEF ShardingTypeOK
  <1>1. UNCHANGED proxies
    BY DEF Create, Retarget, Delete, Edit, Publish, Claim, Clear, proxies
  <1>2. CASE UNCHANGED parent
    BY <1>1, <1>2, LeaseUnchanged
  <1>3. CASE Create
    <2>1. PICK t \in Targets : Write(Created(t))
      BY <1>3 DEF Create, Edit
    <2>2. Created(t) \in Parents /\ Created(t).finalizers = Holders
      BY <1>3 DEF Create, Created, Parents, Holders
    <2> QED
      BY <1>1, <2>1, <2>2, WriteLeases
  <1>4. CASE Retarget \/ Delete
    <2>1. parent # None
      BY <1>4 DEF Retarget, Delete
    <2>2. PICK t \in Targets : \/ Write([parent EXCEPT !.target = t])
                              \/ Write([parent EXCEPT !.deleting = TRUE])
      BY <1>4 DEF Retarget, Delete, Edit, Targets
    <2>3. /\ [parent EXCEPT !.target = t] \in Parents
          /\ [parent EXCEPT !.target = t].finalizers = Holders
          /\ [parent EXCEPT !.deleting = TRUE] \in Parents
          /\ [parent EXCEPT !.deleting = TRUE].finalizers = Holders
      BY <1>0, <2>1 DEF Parents, Holders
    <2> QED
      BY <1>1, <2>2, <2>3, WriteLeases
  <1>5. ASSUME parent # None,
               NEW by \in Deployments \cup {None}, NEW to \in Deployments \cup {None},
               Write([parent EXCEPT !.claimedBy = by, !.address = to])
        PROVE  LeaseStep
    <2>1. /\ [parent EXCEPT !.claimedBy = by, !.address = to] \in Parents
          /\ [parent EXCEPT !.claimedBy = by, !.address = to].finalizers = Holders
      BY <1>0, <1>5 DEF Parents, Holders
    <2> QED
      BY <1>1, <1>5, <2>1, WriteLeases
  <1>6. ASSUME NEW d \in Deployments, Publish(d) \/ Claim(d) \/ Clear(d) PROVE LeaseStep
    <2>1. CASE UNCHANGED api
      BY <1>2, <2>1 DEF api
    <2>2. CASE ~UNCHANGED api
      <3>1. parent # None
        BY <1>6, <2>2 DEF Publish, Claim, Clear
      <3>2. parent.claimedBy \in Deployments \cup {None} /\ parent.address \in Deployments \cup {None}
        BY <1>0, <3>1 DEF Parents
      <3>3. /\ [parent EXCEPT !.address = d]
                    = [parent EXCEPT !.claimedBy = parent.claimedBy, !.address = d]
            /\ [parent EXCEPT !.address = IF @ = d THEN None ELSE @]
                    = [parent EXCEPT !.claimedBy = parent.claimedBy,
                                     !.address = IF parent.address = d THEN None ELSE parent.address]
            /\ [parent EXCEPT !.claimedBy = d, !.address = IF kind = "egress" THEN d ELSE @]
                    = [parent EXCEPT !.claimedBy = d,
                                     !.address = IF kind = "egress" THEN d ELSE parent.address]
        BY <1>0, <3>1 DEF Parents
      <3>4. \E by, to \in Deployments \cup {None} :
                Write([parent EXCEPT !.claimedBy = by, !.address = to])
        BY <1>6, <2>2, <3>1, <3>2, <3>3 DEF Publish, Claim, Clear
      <3> QED
        BY <1>5, <3>1, <3>4
    <2> QED
      BY <2>1, <2>2
  <1> QED
    BY <1>3, <1>4, <1>6

LEMMA LeaseNext ==
    ASSUME RestInv, [Next]_vars
    PROVE  LeaseStep
  <1> USE DEF api
  <1>1. ASSUME NEW d \in Deployments, ChangeSpec(d) \/ Deliver(d) \/ StartUp(d) \/ Crash(d) \/ Fail(d)
        PROVE  UNCHANGED <<parent, proxies>>
    BY <1>1 DEF ChangeSpec, Deliver, StartUp, Crash, Fail
  <1>2. ASSUME NEW d \in Deployments, Reconcile(d) \/ Reread(d) \/ ListServices(d) \/ ApplyRewrites(d)
        PROVE  UNCHANGED <<parent, proxies>>
    BY <1>2 DEF Reconcile, Reread, ListServices, ApplyRewrites
  <1>3. ASSUME NEW d \in Deployments, Work(d) PROVE LeaseStep
    BY <1>2, <1>3, LeaseUnchanged, ProxyLeases, HoldLeases, ParentLeases DEF Work
  <1>4. CASE UNCHANGED vars
    BY <1>4, LeaseUnchanged DEF vars
  <1> QED
    BY <1>1, <1>3, <1>4, LeaseUnchanged, ParentLeases DEF Next

(* However many deployments share a parent, by copies of it that may be old, each *)
(* serves it under a finalizer of its own, removes that only when its proxy is    *)
(* torn down, and finds the parent there until then: the parent is a lease.       *)
(* The premise is that of LetGoAtRest.                                            *)
THEOREM LeaseImplemented ==
    ShardingSpec /\ [][OwnsWhatItReads]_vars => L!Spec
  <1>1. Init => L!Init
    <2> SUFFICES ASSUME Init PROVE Holders = {} /\ Kept = {}
      BY DEF L!Init
    <2>1. parent # None => parent.finalizers = {}
      BY DEF Init, Created
    <2> QED
      BY <2>1 DEF Init, Holders, Kept
  <1>2. RestInv /\ [Next]_vars => [L!Next]_<<parent # None, Holders, Kept>>
    BY LeaseNext DEF LeaseStep
  <1> QED
    BY <1>1, <1>2, RestInvariance, PTL DEF ShardingSpec, L!Spec

=============================================================================
