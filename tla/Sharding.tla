------------------------------- MODULE Sharding -------------------------------
(***************************************************************************)
(* Several deployments of the operator over one parent: an Ingress, an     *)
(* egress (ExternalName) Service or an exposed Service.  The parent names  *)
(* the deployment that shall serve it, or leaves it to the default one;    *)
(* each deployment decides by itself, from its own cached copy, whether to *)
(* adopt, serve, release or clean up.  Finalizers, the claimed-by          *)
(* annotation, the address clients are sent to and the DNS rewrite of an   *)
(* egress are what they share.                                             *)
(*                                                                         *)
(* Sources: operator/src/controllers/ingress/reconcile.rs and              *)
(* operator/src/controllers/external_service.  What it takes to provision  *)
(* or tear down the proxy itself is in module Proxy; here a deployment has *)
(* a proxy for the parent or not.                                          *)
(*                                                                         *)
(* A reconcile of deployment d is at stage at[d]:                          *)
(*                                                                         *)
(*   adopt                         kube's finalizer(): add our finalizer   *)
(*   provision, publish, claim     apply, apply_egress, apply_expose       *)
(*   drop, clear, reread, release  the releases of apply                   *)
(*   cleanup, unfinalize           the parent is being deleted             *)
(*   list, rewrite                 sync_egress_dns                         *)
(***************************************************************************)
EXTENDS Naturals, FiniteSets

CONSTANTS
    Deployments, \* operator namespaces
    Kinds,       \* of parent, to choose from
    ClaimMode,   \* CLAIM_DEFAULT of each deployment
    DnsEnabled,  \* deployments with egressDns.corednsCustom
    MaxEdits,    \* edits of the parent (retargeted, deleted, created again) and
                 \* of watchedNamespaces
    MaxFaults,   \* failed calls and crashes
    None

(* headscale-namespace names a deployment or is absent ("default"); or the
   Ingress is of another class, the Service without config annotation. *)
Targets == Deployments \cup {"default", "unwanted"}

ASSUME ShardingConstants ==
    /\ None \notin Deployments
    /\ Deployments \cap {"default", "unwanted"} = {}
    /\ Kinds \subseteq {"ingress", "egress", "exposed"}
    /\ ClaimMode \in [Deployments -> {"unset", "force", "false"}]
    /\ DnsEnabled \subseteq Deployments
    /\ MaxEdits \in Nat
    /\ MaxFaults \in Nat

VARIABLES
    kind,     \* what the parent is
    parent,   \* the parent, None when it does not exist
    allowed,  \* watchedNamespaces of each deployment's instance covers the parent
    holder,   \* default-namespace annotation of the IngressClass
    up,       \* deployments that run
    default,  \* those that hold claim_default
    news,     \* those to whom a change of the parent has not been delivered
    current,  \* those for whom the resourceVersion that release fetched is current
    cache,    \* each deployment's copy of the parent, as far as gates read it
    queued,   \* those with a reconcile due
    at,       \* stage of each one's reconcile
    obj,      \* the copy it works on
    live,     \* the finalizers that release fetched
    found,    \* what sync_egress_dns found: a rewrite for the parent
    proxy,    \* deployments with a proxy for the parent
    leaked,   \* those whose last teardown left some of it behind
    dns,      \* the deployment whose proxy the DNS rewrite points at
    edits, faults

locals == <<obj, live, found>>
bounds == <<edits, faults>>
proxies == <<proxy, leaked>>
cluster == <<kind, allowed, holder, up, default, bounds>>
api == <<parent, news, current>>
vars == <<cluster, api, cache, queued, at, locals, proxies, dns>>

Parents ==
    [target : Targets, deleting : BOOLEAN, finalizers : SUBSET Deployments,
     claimedBy : Deployments \cup {None}, address : Deployments \cup {None}]

(* What the gates and apply read of it. *)
Views == [target : Targets, deleting : BOOLEAN, finalizers : SUBSET Deployments]

ASSUME NoneIsNoParent == None \notin Parents \cup Views

Stages == {"idle", "adopt", "provision", "publish", "claim", "drop", "clear", "reread",
           "release", "cleanup", "unfinalize", "list", "rewrite"}

(* Every stage but adopt works on a copy that bears our finalizer. *)
Coherent(d) ==
    /\ at[d] = "idle" <=> obj[d] = None
    /\ at[d] \notin {"idle", "adopt"} => d \in obj[d].finalizers
    /\ at[d] \in {"cleanup", "unfinalize"} => obj[d].deleting
    /\ at[d] \in {"adopt", "provision", "publish", "claim", "drop", "clear", "reread", "release"} =>
           ~obj[d].deleting

ShardingTypeOK ==
    /\ kind \in Kinds
    /\ parent \in Parents \cup {None}
    /\ allowed \subseteq Deployments
    /\ holder \in Deployments \cup {None}
    /\ up \subseteq Deployments
    /\ default \subseteq Deployments
    /\ news \subseteq Deployments
    /\ current \subseteq Deployments
    /\ cache \in [Deployments -> Views \cup {None}]
    /\ queued \subseteq Deployments
    /\ at \in [Deployments -> Stages]
    /\ obj \in [Deployments -> Views \cup {None}]
    /\ live \in [Deployments -> SUBSET Deployments]
    /\ found \in [Deployments -> BOOLEAN]
    /\ proxy \subseteq Deployments
    /\ leaked \subseteq proxy
    /\ dns \in Deployments \cup {None}
    /\ \A d \in Deployments : Coherent(d)
    /\ edits \in 0 .. MaxEdits
    /\ faults \in 0 .. MaxFaults

-----------------------------------------------------------------------------
(* Ownership *)

IsOurs(d, p) == p.target = d \/ (p.target = "default" /\ d \in default)

HasFinalizer(d, p) == d \in p.finalizers

(* The gates before adoption, authorization by the instance as it is now. *)
MayAdopt(d, p) ==
    /\ p.target # "unwanted"
    /\ IsOurs(d, p)
    /\ d \in allowed
    /\ ~p.deleting

(* variant: watchedNamespaces matter before adoption only *)
MustReleaseByTarget(d, p) == p.target = "unwanted" \/ ~IsOurs(d, p)

(* What makes a deployment let go of a parent it has adopted. *)
MustRelease(d, p) ==
    \/ p.target = "unwanted"
    \/ ~IsOurs(d, p)
    \/ d \notin allowed

(* The config annotation is there: it also holds headscale-ref and makes a
   Service one of ours. *)
HasConfig(p) == p # None /\ (kind = "ingress" \/ p.target # "unwanted")

HasDns(d) == kind = "egress" /\ d \in DnsEnabled

-----------------------------------------------------------------------------
(* Building blocks *)

Goto(d, s) == at' = [at EXCEPT ![d] = s]

(* The reconcile ends; Done keeps what is queued, Retry requeues the parent. *)
Forget(d) ==
    /\ obj' = [obj EXCEPT ![d] = None]
    /\ live' = [live EXCEPT ![d] = {}]
    /\ found' = [found EXCEPT ![d] = FALSE]

Done(d) == Goto(d, "idle") /\ Forget(d)

(* variant: wait for the next change *)
AwaitChange(d) == Done(d) /\ UNCHANGED queued

Retry(d) == Done(d) /\ queued' = queued \cup {d}

(* Watch events of a proxy's Secrets and StatefulSet requeue the parent. *)
ChangeProxy(d, new) ==
    /\ proxy' = new
    /\ queued' = IF new = proxy THEN queued ELSE queued \cup {d}

(* What the API server does with a parent that is written: it goes once it is
   being deleted and has no finalizers. *)
Stored(p) == IF p.deleting /\ p.finalizers = {} THEN None ELSE p

(* A write that changes the parent gives it a new resourceVersion and is sent to
   those who watch it. *)
Write(p) ==
    /\ parent' = Stored(p)
    /\ news' = IF Stored(p) = parent THEN news ELSE up
    /\ current' = IF Stored(p) = parent THEN current ELSE {}

View(p) ==
    IF p = None
    THEN None
    ELSE [target |-> p.target, deleting |-> p.deleting, finalizers |-> p.finalizers]

-----------------------------------------------------------------------------
(* Users and the Kubernetes API. *)

Created(t) ==
    [target |-> t, deleting |-> FALSE, finalizers |-> {}, claimedBy |-> None, address |-> None]

Edit(p) ==
    /\ edits < MaxEdits
    /\ edits' = edits + 1
    /\ Write(p)
    /\ UNCHANGED <<kind, allowed, holder, up, default, faults, cache, queued, at,
                   locals, proxies, dns>>

Create == parent = None /\ \E t \in Targets : Edit(Created(t))

Retarget ==
    /\ parent # None
    /\ \E t \in Targets \ {parent.target} : Edit([parent EXCEPT !.target = t])

Delete ==
    /\ parent # None
    /\ ~parent.deleting
    /\ Edit([parent EXCEPT !.deleting = TRUE])

(* watchedNamespaces of d's instance changes; the watch on HeadscaleInstances
   requeues the parents that refer to it, as cached. *)
ChangeSpec(d) ==
    /\ edits < MaxEdits
    /\ edits' = edits + 1
    /\ allowed' = IF d \in allowed THEN allowed \ {d} ELSE allowed \cup {d}
    /\ queued' = IF d \in up /\ HasConfig(cache[d]) THEN queued \cup {d} ELSE queued
    /\ UNCHANGED <<kind, holder, up, default, faults, api, cache, at, locals, proxies, dns>>

(* The watch on parents. *)
Deliver(d) ==
    /\ d \in news
    /\ news' = news \ {d}
    /\ cache' = [cache EXCEPT ![d] = View(parent)]
    /\ queued' = queued \cup {d}
    /\ UNCHANGED <<cluster, parent, current, at, locals, proxies, dns>>

-----------------------------------------------------------------------------
(* Start and crash of a deployment. *)

(* variant: a conflict is no reason not to claim *)
ClaimsRegardless(d) == ClaimMode[d] # "false"

(* The claim of the IngressClass annotation by server-side apply: without force
   it meets a conflict if another deployment's value is there. *)
Claims(d) ==
    \/ ClaimMode[d] = "force"
    \/ ClaimMode[d] = "unset" /\ holder \in {None, d}

(* main: the claim is made once; then every parent is listed and reconciled. *)
StartUp(d) ==
    /\ d \notin up
    /\ up' = up \cup {d}
    /\ holder' = IF Claims(d) THEN d ELSE holder
    /\ default' = IF Claims(d) THEN default \cup {d} ELSE default \ {d}
    /\ cache' = [cache EXCEPT ![d] = View(parent)]
    /\ queued' = queued \cup {d}
    /\ UNCHANGED <<kind, allowed, bounds, api, at, locals, proxies, dns>>

Fault == faults < MaxFaults /\ faults' = faults + 1

Crash(d) ==
    /\ d \in up
    /\ Fault
    /\ up' = up \ {d}
    /\ default' = default \ {d}
    /\ queued' = queued \ {d}
    /\ news' = news \ {d}
    /\ cache' = [cache EXCEPT ![d] = None]
    /\ Done(d)
    /\ UNCHANGED <<kind, allowed, holder, edits, parent, current, proxies, dns>>

(* A call fails; error_policy requeues the parent. *)
Fail(d) ==
    /\ at[d] # "idle"
    /\ Fault
    /\ Retry(d)
    /\ UNCHANGED <<kind, allowed, holder, up, default, edits, api, cache, proxies, dns>>

-----------------------------------------------------------------------------
(* The reconcile of deployment d. *)

(* variant: no finalizer first *)
DispatchUnadopted(d, p) ==
    CASE HasFinalizer(d, p) /\ p.deleting                       -> "cleanup"
      [] HasFinalizer(d, p) /\ ~p.deleting /\ MustRelease(d, p) -> "drop"
      [] ~p.deleting /\ ~MustRelease(d, p)                      -> "provision"
      [] OTHER                                                  -> "idle"

(* Where a reconcile of the cached parent p goes: the gates, then apply or
   cleanup by kube's finalizer(). *)
Dispatch(d, p) ==
    CASE HasFinalizer(d, p) /\ p.deleting                     -> "cleanup"
      [] HasFinalizer(d, p) /\ ~p.deleting /\ MustRelease(d, p) -> "drop"
      [] HasFinalizer(d, p) /\ ~p.deleting /\ ~MustRelease(d, p) -> "provision"
      [] ~HasFinalizer(d, p) /\ MayAdopt(d, p)                -> "adopt"
      [] OTHER                                                -> "idle"

Reconcile(d) ==
    /\ d \in queued
    /\ at[d] = "idle"
    /\ queued' = queued \ {d}
    /\ LET next == IF cache[d] = None THEN "idle" ELSE Dispatch(d, cache[d])
       IN  /\ Goto(d, next)
           /\ obj' = [obj EXCEPT ![d] = IF next = "idle" THEN None ELSE cache[d]]
    /\ UNCHANGED <<cluster, api, cache, live, found, proxies, dns>>

(* A JSON patch that tests the list of finalizers; the API server takes no new
   finalizer for a parent that is being deleted.  Applying is left to the
   reconcile that the patch causes. *)
Adopt(d) ==
    /\ at[d] = "adopt"
    /\ IF parent # None /\ ~parent.deleting /\ parent.finalizers = obj[d].finalizers
       THEN /\ Write([parent EXCEPT !.finalizers = @ \cup {d}])
            /\ Done(d)
            /\ UNCHANGED queued
       ELSE Retry(d) /\ UNCHANGED api
    /\ UNCHANGED <<cluster, cache, proxies, dns>>

(* Keys, Secrets, StatefulSet: module Proxy.  The three handlers differ in what
   they tell the parent afterwards. *)
Provision(d, next) ==
    /\ at[d] = "provision"
    /\ ChangeProxy(d, proxy \cup {d})
    /\ leaked' = leaked \ {d}
    /\ Goto(d, next)
    /\ UNCHANGED <<cluster, api, cache, locals, dns>>

ApplyIngress(d) == kind = "ingress" /\ Provision(d, "publish")
ApplyEgress(d) == kind = "egress" /\ Provision(d, "claim")
ApplyExpose(d) == kind = "exposed" /\ Provision(d, "claim")

(* The Ingress's status.loadBalancer, by forced server-side apply, once the
   proxy has an address. *)
Publish(d) ==
    /\ at[d] = "publish"
    /\ \/ /\ Goto(d, "claim")
          /\ UNCHANGED <<api, queued, locals>>
       \/ /\ parent # None
          /\ Write([parent EXCEPT !.address = d])
          /\ Goto(d, "claim")
          /\ UNCHANGED <<queued, locals>>
       \/ /\ parent = None
          /\ Retry(d)
          /\ UNCHANGED api
    /\ UNCHANGED <<cluster, cache, proxies, dns>>

(* claimed-by, and for an egress Service spec.externalName with it, by forced
   server-side apply. *)
Claim(d) ==
    /\ at[d] = "claim"
    /\ IF parent = None
       THEN Retry(d) /\ UNCHANGED api
       ELSE /\ Write([parent EXCEPT !.claimedBy = d,
                                      !.address = IF kind = "egress" THEN d ELSE @])
            /\ IF HasDns(d) THEN Goto(d, "list") /\ UNCHANGED locals ELSE Done(d)
            /\ UNCHANGED queued
    /\ UNCHANGED <<cluster, cache, proxies, dns>>

(* deregister_and_cleanup, unless it returns an error (Fail).  A delete that
   fails in cleanup_proxy_resources is logged and forgotten. *)
TearDown(d) ==
    \/ /\ ChangeProxy(d, proxy \ {d})
       /\ leaked' = leaked \ {d}
       /\ UNCHANGED faults
    \/ /\ d \in proxy
       /\ Fault
       /\ leaked' = leaked \cup {d}
       /\ queued' \in {queued, queued \cup {d}}
       /\ UNCHANGED proxy

(* before a release *)
Drop(d) ==
    /\ at[d] = "drop"
    /\ TearDown(d)
    /\ Goto(d, IF kind = "ingress" THEN "clear" ELSE "reread")
    /\ UNCHANGED <<kind, allowed, holder, up, default, edits, api, cache, locals, dns>>

(* Applying an empty status removes the address if we own that field. *)
Clear(d) ==
    /\ at[d] = "clear"
    /\ IF parent = None
       THEN Retry(d) /\ UNCHANGED api
       ELSE /\ Write([parent EXCEPT !.address = IF @ = d THEN None ELSE @])
            /\ Goto(d, "reread")
            /\ UNCHANGED <<queued, locals>>
    /\ UNCHANGED <<cluster, cache, proxies, dns>>

Reread(d) ==
    /\ at[d] = "reread"
    /\ IF parent = None
       THEN Retry(d) /\ UNCHANGED current
       ELSE /\ live' = [live EXCEPT ![d] = parent.finalizers]
            /\ current' = current \cup {d}
            /\ Goto(d, "release")
            /\ UNCHANGED <<queued, obj, found>>
    /\ UNCHANGED <<cluster, parent, news, cache, proxies, dns>>

(* variant: no precondition *)
ReleaseUnguarded(d) ==
    /\ at[d] = "release"
    /\ IF parent # None
       THEN Write([parent EXCEPT !.finalizers = live[d] \ {d}, !.claimedBy = None])
       ELSE UNCHANGED api
    /\ Done(d)
    /\ UNCHANGED <<cluster, queued, cache, proxies, dns>>

(* A merge patch computed from the fetched parent, with its resourceVersion as
   a precondition.  It removes claimed-by, whoever set it.  Only a release for a
   lost config annotation goes on to the DNS. *)
Release(d) ==
    /\ at[d] = "release"
    /\ IF d \in current
       THEN /\ Write([parent EXCEPT !.finalizers = live[d] \ {d}, !.claimedBy = None])
            /\ IF HasDns(d) /\ obj[d].target = "unwanted"
               THEN /\ Goto(d, "list")
                    /\ live' = [live EXCEPT ![d] = {}]
                    /\ UNCHANGED <<obj, found>>
               ELSE Done(d)
            /\ UNCHANGED queued
       ELSE Retry(d) /\ UNCHANGED api
    /\ UNCHANGED <<cluster, cache, proxies, dns>>

(* The parent is being deleted. *)
Cleanup(d) ==
    /\ at[d] = "cleanup"
    /\ TearDown(d)
    /\ Goto(d, IF HasDns(d) THEN "list" ELSE "unfinalize")
    /\ UNCHANGED <<kind, allowed, holder, up, default, edits, api, cache, locals, dns>>

(* A JSON patch that tests the finalizer's index: it fails when another one
   before it has gone. *)
Unfinalize(d) ==
    /\ at[d] = "unfinalize"
    /\ \/ /\ parent # None
          /\ HasFinalizer(d, parent)
          /\ Write([parent EXCEPT !.finalizers = @ \ {d}])
          /\ Done(d)
          /\ UNCHANGED queued
       \/ /\ parent # None => parent.finalizers # obj[d].finalizers
          /\ Retry(d)
          /\ UNCHANGED api
    /\ UNCHANGED <<cluster, cache, proxies, dns>>

-----------------------------------------------------------------------------
(* sync_egress_dns: list, then apply our key of the shared ConfigMap. *)

Rewrites(d) ==
    /\ parent # None
    /\ ~parent.deleting
    /\ parent.target # "unwanted"
    /\ IsOurs(d, parent)

ListServices(d) ==
    /\ at[d] = "list"
    /\ found' = [found EXCEPT ![d] = Rewrites(d)]
    /\ Goto(d, "rewrite")
    /\ UNCHANGED <<cluster, api, cache, queued, obj, live, proxies, dns>>

(* The watch on the ConfigMap requeues the egress Services in each cache. *)
Woken == {d \in DnsEnabled \cap up : HasConfig(cache[d])}

(* Forced server-side apply: a rewrite is set, or what we own is removed. *)
ApplyRewrites(d) ==
    /\ at[d] = "rewrite"
    /\ dns' = IF found[d] THEN d ELSE IF dns = d THEN None ELSE dns
    /\ queued' = IF dns' = dns THEN queued ELSE queued \cup Woken
    /\ IF obj[d].deleting
       THEN /\ Goto(d, "unfinalize")
            /\ found' = [found EXCEPT ![d] = FALSE]
            /\ UNCHANGED <<obj, live>>
       ELSE Done(d)
    /\ UNCHANGED <<cluster, api, cache, proxies>>

-----------------------------------------------------------------------------
Init ==
    /\ kind \in Kinds
    /\ parent \in {None} \cup {Created(t) : t \in Targets}
    /\ allowed = Deployments
    /\ holder = None
    /\ up = {}
    /\ default = {}
    /\ news = {}
    /\ current = {}
    /\ cache = [d \in Deployments |-> None]
    /\ queued = {}
    /\ at = [d \in Deployments |-> "idle"]
    /\ obj = [d \in Deployments |-> None]
    /\ live = [d \in Deployments |-> {}]
    /\ found = [d \in Deployments |-> FALSE]
    /\ proxy = {}
    /\ leaked = {}
    /\ dns = None
    /\ edits = 0
    /\ faults = 0

Work(d) ==
    \/ Reconcile(d) \/ Adopt(d)
    \/ ApplyIngress(d) \/ ApplyEgress(d) \/ ApplyExpose(d)
    \/ Publish(d) \/ Claim(d)
    \/ Drop(d) \/ Clear(d) \/ Reread(d) \/ Release(d)
    \/ Cleanup(d) \/ Unfinalize(d)
    \/ ListServices(d) \/ ApplyRewrites(d)

Next ==
    \/ Create \/ Retarget \/ Delete
    \/ \E d \in Deployments :
         ChangeSpec(d) \/ Deliver(d) \/ StartUp(d) \/ Crash(d) \/ Fail(d) \/ Work(d)

(* Deployments are restarted, watches deliver, and what is queued is worked on. *)
Fairness ==
    \A d \in Deployments : WF_vars(StartUp(d)) /\ WF_vars(Deliver(d)) /\ WF_vars(Work(d))

ShardingSpec == Init /\ [][Next]_vars /\ Fairness

-----------------------------------------------------------------------------
(* Properties *)

(* The deployments that the parent asks for and that may serve it. *)
Owners ==
    IF parent = None \/ parent.deleting \/ parent.target = "unwanted"
    THEN {}
    ELSE {d \in allowed : IsOurs(d, parent)}

(* At most one deployment holds claim_default, so that a parent that names no
   deployment has one owner: ensure_ingress_class takes the annotation only when
   no other deployment has it.  (CLAIM_DEFAULT=force is exempt, being meant for
   a migration.) *)
OneDefault == \A d, e \in default : d = e

(* What is left of a proxy after a delete that failed is logged and no longer
   looked after; the properties are about the other proxies. *)
Kept == proxy \ leaked

(* A deployment's finalizer stays on the parent as long as it has a proxy for
   it: whatever deployments write to the list of finalizers at the same time,
   none removes another's, and each tears its proxy down before it removes its
   own. *)
FinalizerOutlivesProxy ==
    [][\A d \in Kept' :
          (parent # None /\ HasFinalizer(d, parent)) =>
              (parent' # None /\ HasFinalizer(d, parent'))]_vars

(* Hand-over: when the edits are over, the parent ends up with its owner's
   finalizer, claim, proxy and address, and the former owner's are gone. *)
ServedBy(d) ==
    /\ parent # None
    /\ parent.finalizers = {d}
    /\ parent.claimedBy = d
    /\ parent.address \in (IF kind = "egress" THEN {d} ELSE {d, None})
    /\ Kept = {d}
    /\ HasDns(d) => dns = d

HandsOver == \A d \in Deployments : (<>[](Owners = {d})) => <>[]ServedBy(d)

(* Release: a parent that nobody may serve any more ends up without finalizers,
   claim and proxies, and if it was deleted it goes.  An Ingress keeps no
   address of a proxy that is gone. *)
LetGo ==
    /\ Kept = {}
    /\ parent # None =>
         /\ ~parent.deleting
         /\ parent.finalizers = {}
         /\ parent.claimedBy = None
         /\ kind = "ingress" => parent.address = None

LetsGo == (<>[](Owners = {})) => <>[]LetGo

(* The rewrite of an egress Service leads to a proxy that exists: dns.rs says
   the override is regenerated from the Services that the deployment owns. *)
RewriteLeadsToProxy == []<>(dns = None \/ dns \in proxy)
===============================================================================
