------------------------------ MODULE DataPlane ------------------------------
(***************************************************************************)
(* What a parent is given: the Kubernetes objects through which one        *)
(* Ingress, exposed Service or egress (ExternalName) Service is served,    *)
(* and how they follow it when it changes its shape, its ports, its mode   *)
(* or its HeadscaleInstance.                                               *)
(*                                                                         *)
(* Sources: apply of operator/src/controllers/ingress/reconcile.rs,        *)
(* apply_egress and apply_expose of external_service, serve.rs and         *)
(* proxy/resources.rs.  Keys, nodes and their deregistration are in module *)
(* Proxy, several deployments in module Sharding.                          *)
(*                                                                         *)
(* A reconcile passes the gates in one step, in which it only reads, and   *)
(* is left with a plan: the calls that it makes one after the other, each  *)
(* for the copy of the parent it began with.  A call may fail, which ends  *)
(* the reconcile and leaves the objects as they are.  A pod runs what its  *)
(* StatefulSet says and is not modelled apart from it.                     *)
(***************************************************************************)
EXTENDS Integers, Sequences, FiniteSets

CONSTANTS
    Specs,       \* what the user may make of the parent
    Instances,   \* what the HeadscaleInstance may be; one that is absent is not ready
    NodePorts,   \* that the API server allocates
    Namespaces,  \* of consumers
    Addresses,   \* ClusterIPs
    Backends,    \* of an Ingress; a port number stands for itself
    MaxEdits,    \* changes of the parent, its instance and its backends
    MaxFaults,   \* failed calls, and objects deleted behind our back
    Deleted, Unwanted, None

LISTEN_PORT_BASE == 10000

Ports == Nat \cup {None}

(* A parent as the gates and builders read it.  `annotation` is what becomes
   of the config annotation: it parses, does not (or has neither user nor tags),
   lacks an egress's tailnet-fqdn or sets a knob of another shape, or grants
   access from nobody.  A port has a target if targetPort is a number; a route
   refers to its backend's port by number or by name.  The API server accepts no
   Service that has a port twice for one protocol. *)
Declared == [port : Nat, tcp : BOOLEAN, target : Ports]
Routes == [path : STRING, backend : Backends, named : BOOLEAN]

TcpPorts(s) == {i \in DOMAIN s.ports : s.ports[i].tcp}
IsSpec(s) ==
    /\ s.shape \in {"ingress", "exposed", "egress"}
    /\ s.annotation \in {"ok", "unparsable", "misfit", "fromNobody"}
    /\ s.mode \in {"tsnet", "tun"}
    /\ s.host \in BOOLEAN
    /\ s.ports \in Seq(Declared)
    /\ \A i, j \in TcpPorts(s) : s.ports[i].port = s.ports[j].port => i = j
    /\ s.routes \in Seq(Routes)
    /\ s.consumers \subseteq Namespaces
    /\ s.ip \in Addresses \cup {None}

ASSUME DataPlaneConstants ==
    /\ \A s \in Specs : IsSpec(s)
    /\ Instances \subseteq {"excluded", "unready", "managed", "external"}
    /\ MaxEdits \in Nat
    /\ MaxFaults \in Nat
    /\ None \notin Nat \cup NodePorts \cup Addresses
    /\ {Deleted, Unwanted, None} \cap Specs = {}
    /\ Cardinality({Deleted, Unwanted, None}) = 3

(* The parent is being deleted; it is ours no more, an Ingress by its class, a
   Service by its config annotation; it does not exist. *)
Gone == {Deleted, Unwanted, None}

VARIABLES
    kind,      \* "ingress" or "service", of what the user makes the parent
    parent,    \* a Spec, Deleted, Unwanted (released by the user) or None
    finalizer, \* it carries our finalizer
    instance,  \* its HeadscaleInstance
    named,     \* the Services that named ports refer to exist
    objs,      \* the objects the operator keeps for it
    published, \* the Service's externalName leads to the egress Service
    rewrite,   \* CoreDNS rewrites the tailnet-fqdn to it
    plan,      \* calls the reconcile has still to make
    obj,       \* the parent it began with
    seen,      \* what its gates read: the login URL and the routes
    queued,    \* a reconcile is due
    edits, faults

user == <<kind, parent, instance, named, edits>>
locals == <<obj, seen>>
vars == <<user, finalizer, objs, published, rewrite, plan, locals, queued, faults>>

(* The governing Service of the StatefulSet, also the WireGuard NodePort or an
   egress's ClusterIP Service; serve.json; consumers' NetworkPolicy. *)
Services == [headless : BOOLEAN, nodePort : NodePorts \cup {None}, ports : SUBSET (Nat \X Nat)]
Policies == [peers : SUBSET Namespaces, ports : SUBSET Nat]
StatefulSets ==
    {t \in [flavor : {"serve", "tun", "egress"}, login : {"cluster", "public"}, host : BOOLEAN,
            device : BOOLEAN, endpoint : NodePorts \cup {None}, dest : Addresses \cup {None},
            listen : SUBSET (Nat \X Nat)] :
        /\ ~(t.host /\ t.device)
        /\ t.endpoint = None <=> (t.host \/ t.flavor = "egress")}

Rbac == {"serviceAccount", "role", "roleBinding"}
Secrets == {"key", "state"}
Pieces == Rbac \cup Secrets \cup {"service", "serve", "policy", "sts"}

Nothing == [p \in Pieces |-> None]

Calls == Rbac \cup Secrets \cup
    {"shape", "service", "serve", "sts", "consumers", "publish", "dns", "dropServe",
     "dropPolicy", "teardown", "release"}

(* Types, and what apply_expose calls a bug: a proxy with a TUN device is never
   on the host's network, where it would fight the node's tailscaled. *)
DataPlaneTypeOK ==
    /\ kind \in {"ingress", "service"}
    /\ parent \in Specs \cup Gone
    /\ finalizer \in BOOLEAN
    /\ instance \in Instances
    /\ named \in BOOLEAN
    /\ DOMAIN objs = Pieces
    /\ \A p \in Rbac \cup Secrets : objs[p] \in {"present", None}
    /\ objs["service"] = None \/ objs["service"] \in Services
    /\ objs["policy"] = None \/ objs["policy"] \in Policies
    /\ objs["sts"] = None \/ objs["sts"] \in StatefulSets
    /\ published \in BOOLEAN
    /\ rewrite \in BOOLEAN
    /\ plan \in Seq(Calls)
    /\ obj \in Specs \cup Gone
    /\ seen.login \in {"cluster", "public"}
    /\ queued \in BOOLEAN
    /\ edits \in 0 .. MaxEdits
    /\ faults \in 0 .. MaxFaults

-----------------------------------------------------------------------------
(* What the objects shall contain: the builders. *)

(* The listeners are numbered in the order of declaration; a port that is skipped
   takes no number. *)
ListenPort(s, i) == LISTEN_PORT_BASE + Cardinality({j \in TcpPorts(s) : j < i})

collect_tcp_forwards(s) ==
    {[port |-> s.ports[i].port,
      backend |-> IF s.ports[i].target = None THEN s.ports[i].port ELSE s.ports[i].target,
      listen |-> ListenPort(s, i)] : i \in TcpPorts(s)}

collect_expose_tcp_ports(s) == {s.ports[i].port : i \in TcpPorts(s)}

(* Backends that are named wait for their Service; of two routes with one path
   the later is served. *)
Resolved(s, up) == {i \in DOMAIN s.routes : up \/ ~s.routes[i].named}
collect_ingress_routes(s, up) ==
    {<<s.routes[i].path, s.routes[i].backend>> : i \in
        {j \in Resolved(s, up) : \A k \in Resolved(s, up) :
            s.routes[k].path = s.routes[j].path => k <= j}}

build_serve_json(s, routes) == routes
build_expose_serve_json(s) == {<<p, p>> : p \in collect_expose_tcp_ports(s)}

(* host-network is ignored in tun mode, and by an egress. *)
HostNetworkAsAsked(s) == s.shape # "egress" /\ s.host
HostNetwork(s) == s.shape # "egress" /\ s.host /\ s.mode = "tsnet"

ServeConfig(s, routes) ==
    IF s.shape = "ingress" THEN build_serve_json(s, routes) ELSE build_expose_serve_json(s)

ASSUME NoneIsNoObject ==
    /\ None \notin Services \cup Policies \cup StatefulSets \cup {"present"}
    /\ \A s \in Specs, up \in BOOLEAN : ServeConfig(s, collect_ingress_routes(s, up)) # None

login_url(i) == IF i = "external" THEN "public" ELSE "cluster"

build_proxy_statefulset(s, login, port) ==
    [flavor |-> "serve", login |-> login, host |-> HostNetwork(s), device |-> s.mode = "tun",
     endpoint |-> port, dest |-> None, listen |-> {}]

build_tun_statefulset(s, login, port) ==
    [flavor |-> "tun", login |-> login, host |-> FALSE, device |-> TRUE,
     endpoint |-> port, dest |-> s.ip, listen |-> {}]

build_egress_statefulset(s, login) ==
    [flavor |-> "egress", login |-> login, host |-> FALSE, device |-> FALSE,
     endpoint |-> None, dest |-> None,
     listen |-> {<<f.listen, f.backend>> : f \in collect_tcp_forwards(s)}]

DesiredStatefulSet(s, login, port) ==
    CASE s.shape = "egress" -> build_egress_statefulset(s, login)
      [] s.shape = "exposed" /\ s.mode = "tun" -> build_tun_statefulset(s, login, port)
      [] OTHER -> build_proxy_statefulset(s, login, port)

EgressPorts(s) == {<<f.port, f.listen>> : f \in collect_tcp_forwards(s)}

build_consumer_policy(s) ==
    [peers |-> s.consumers, ports |-> {f.listen : f \in collect_tcp_forwards(s)}]

-----------------------------------------------------------------------------
(* The gates, in the order of the code, and the calls behind them. *)

Unservable(s) ==
    \/ s.annotation = "misfit"
    \/ s.shape = "egress" /\ collect_tcp_forwards(s) = {}
    \/ s.shape = "exposed" /\ s.mode = "tsnet" /\ collect_expose_tcp_ports(s) = {}
    \/ s.shape = "exposed" /\ s.mode = "tun" /\ s.ip = None

(* "requeue" stands for an error as well as for a timed requeue. *)
IngressVerdict(s) ==
    IF s.annotation = "fromNobody" THEN "await"
    ELSE IF s.routes = <<>> THEN "noPathRules"
    ELSE IF Resolved(s, named) = {} THEN "requeue"
    ELSE "serve"

Verdict(s) ==
    IF s.annotation = "unparsable" THEN "requeue"
    ELSE IF Unservable(s) THEN "await"
    ELSE IF instance = "excluded" THEN "exclude"
    ELSE IF instance = "unready" THEN "requeue"
    ELSE IF s.shape = "ingress" THEN IngressVerdict(s)
    ELSE "serve"

apply_proxy_rbac == <<"serviceAccount", "role", "roleBinding">>
apply_wireguard_service == <<"shape", "service">>

ApplyPlanLate(s) ==
    CASE s.shape = "ingress" ->
           apply_wireguard_service \o <<"key", "state", "serve", "sts">> \o apply_proxy_rbac
      [] s.shape = "exposed" ->
           <<"key", "state">> \o apply_wireguard_service \o <<"sts">> \o apply_proxy_rbac
             \o (IF s.mode = "tsnet" THEN <<"serve">> ELSE <<"dropServe">>)
             \o <<"dropPolicy">>
      [] s.shape = "egress" ->
           <<"key", "state", "service", "sts", "publish", "consumers", "dns">> \o apply_proxy_rbac
ApplyPlan(s) ==
    CASE s.shape = "ingress" ->
           apply_wireguard_service \o <<"key", "state", "serve">> \o apply_proxy_rbac \o <<"sts">>
      [] s.shape = "exposed" ->
           <<"key", "state">> \o apply_wireguard_service \o apply_proxy_rbac
             \o (IF s.mode = "tsnet" THEN <<"serve", "sts">> ELSE <<"sts", "dropServe">>)
             \o <<"dropPolicy">>
      [] s.shape = "egress" ->
           <<"key", "state", "service">> \o apply_proxy_rbac
             \o <<"sts", "consumers", "publish", "dns">>

(* cleanup of a parent that is being deleted; release of one whose config
   annotation or class was taken away.  No finalizer is left when it is done. *)
ReleasePlanFirst(p) ==
    IF kind = "ingress" THEN <<"release", "teardown">> ELSE <<"release", "teardown", "dns">>
ReleasePlan(p) ==
    IF kind = "ingress" THEN <<"teardown", "release">>
    ELSE IF p = Deleted THEN <<"teardown", "dns", "release">>
    ELSE <<"teardown", "release", "dns">>

-----------------------------------------------------------------------------
(* The steps of a reconcile. *)

Watched == <<objs["sts"], objs["key"], objs["state"]>>
Notified == queued' = (queued \/ Watched' # Watched)

(* The parent's gates.  Adoption, a patch of the parent, is part of them: it is
   refused to a namespace that is excluded and to an annotation that does not
   parse, and module Sharding has what can happen in between. *)
Begin ==
    /\ queued
    /\ plan = <<>>
    /\ obj' = parent
    /\ UNCHANGED <<user, objs, published, rewrite, faults>>

Adopts(s) == finalizer \/ (s.annotation # "unparsable" /\ instance # "excluded")

(* A spec that cannot be served now is left, or tried again. *)
Refused ==
    /\ Begin
    /\ parent \in Specs
    /\ \/ ~Adopts(parent) /\ queued' = FALSE /\ finalizer' = finalizer
       \/ /\ Adopts(parent)
          /\ finalizer' = TRUE
          /\ \/ Verdict(parent) = "await" /\ queued' = FALSE
             \/ Verdict(parent) = "requeue" /\ queued' = TRUE
    /\ UNCHANGED <<plan, seen>>

Served ==
    /\ Begin
    /\ parent \in Specs
    /\ Adopts(parent)
    /\ Verdict(parent) = "serve"
    /\ finalizer' = TRUE
    /\ plan' = ApplyPlan(parent)
    /\ seen' = [login |-> login_url(instance), routes |-> collect_ingress_routes(parent, named)]
    /\ queued' = FALSE

(* The namespace is excluded, or the Ingress has no path rules: it keeps its
   finalizer then. *)
WithdrawnUnserved ==
    /\ Begin
    /\ parent \in Specs
    /\ Adopts(parent)
    /\ finalizer' = TRUE
    /\ Verdict(parent) = "exclude"
    /\ plan' = <<"teardown", "release">>
    /\ queued' = FALSE
    /\ UNCHANGED seen
Withdrawn ==
    /\ Begin
    /\ parent \in Specs
    /\ Adopts(parent)
    /\ finalizer' = TRUE
    /\ \/ Verdict(parent) = "exclude" /\ plan' = <<"teardown", "release">>
       \/ Verdict(parent) = "noPathRules" /\ plan' = <<"teardown">>
    /\ queued' = FALSE
    /\ UNCHANGED seen

Released ==
    /\ Begin
    /\ parent \in Gone
    /\ plan' = IF finalizer THEN ReleasePlan(parent) ELSE <<>>
    /\ queued' = FALSE
    /\ UNCHANGED <<finalizer, seen>>

Call(c) ==
    /\ plan # <<>>
    /\ Head(plan) = c
    /\ plan' = Tail(plan)
    /\ UNCHANGED <<user, locals>>

Apply(p, content) == objs' = [objs EXCEPT ![p] = content]
Only(p, content) ==
    /\ Apply(p, content)
    /\ UNCHANGED <<finalizer, published, rewrite, faults>>
    /\ Notified

(* ensure_service_shape: clusterIP is immutable. *)
ShapeAny == Call("shape") /\ Only("service", objs["service"])
Shape ==
    /\ Call("shape")
    /\ Only("service",
            IF objs["service"] # None /\ objs["service"].headless # HostNetwork(obj)
            THEN None ELSE objs["service"])

(* A patch leaves clusterIP alone.  A port of the node is allocated when there is none. *)
Headless(wanted) == IF objs["service"] = None THEN wanted ELSE objs["service"].headless
NodePort == IF objs["service"] = None THEN None ELSE objs["service"].nodePort

ApplyService ==
    /\ Call("service")
    /\ IF obj.shape = "egress" \/ HostNetwork(obj)
       THEN Only("service",
                [headless |-> Headless(HostNetwork(obj)), nodePort |-> None,
                 ports |-> IF obj.shape = "egress" THEN EgressPorts(obj) ELSE {}])
       ELSE \E n \in NodePorts :
                /\ NodePort # None => n = NodePort
                /\ Only("service", [headless |-> Headless(FALSE), nodePort |-> n, ports |-> {}])

(* ensure_auth_key, ensure_state_secret, apply_proxy_rbac. *)
ApplyPlain == \E p \in Secrets \cup Rbac : Call(p) /\ Only(p, "present")

apply_serve_configmap == Call("serve") /\ Only("serve", ServeConfig(obj, seen.routes))

(* The node port is the one read after the Service was applied. *)
apply_proxy_statefulset ==
    Call("sts") /\ Only("sts", DesiredStatefulSet(obj, seen.login, NodePort))

apply_consumer_policy ==
    /\ Call("consumers")
    /\ Only("policy", IF obj.consumers = {} THEN None ELSE build_consumer_policy(obj))

DropLeftover ==
    \/ Call("dropServe") /\ Only("serve", None)
    \/ Call("dropPolicy") /\ Only("policy", None)

Publish ==
    /\ Call("publish")
    /\ published' = TRUE
    /\ queued' = (queued \/ ~published)
    /\ UNCHANGED <<finalizer, objs, rewrite, faults>>

(* It lists the Services anew. *)
HasRewrite ==
    /\ parent \in Specs
    /\ parent.shape = "egress"
    /\ parent.annotation \notin {"unparsable", "misfit"}

sync_egress_dns ==
    /\ Call("dns")
    /\ rewrite' = HasRewrite
    /\ UNCHANGED <<finalizer, objs, published, queued, faults>>

(* deregister_and_cleanup: all deletes are tried, one that fails is logged. *)
Present == {p \in Pieces : objs[p] # None}
cleanup_proxy_resources ==
    /\ Call("teardown")
    /\ \E kept \in SUBSET Present :
        /\ Cardinality(kept) <= MaxFaults - faults
        /\ objs' = [p \in Pieces |-> IF p \in kept THEN objs[p] ELSE None]
        /\ faults' = faults + Cardinality(kept)
    /\ UNCHANGED <<finalizer, published, rewrite>>
    /\ Notified

(* release_ingress and release_service; the finalizer of a deleted parent. *)
Release ==
    /\ plan # <<>>
    /\ Head(plan) = "release"
    /\ plan' = Tail(plan)
    /\ finalizer' = FALSE
    /\ parent' = IF parent = Deleted THEN None ELSE parent
    /\ published' = (published /\ parent' # None)
    /\ queued' = TRUE
    /\ UNCHANGED <<kind, instance, named, edits, locals, objs, rewrite, faults>>

(* error_policy, or the operator restarts. *)
Fail ==
    /\ plan # <<>>
    /\ faults < MaxFaults
    /\ faults' = faults + 1
    /\ plan' = <<>>
    /\ queued' = TRUE
    /\ UNCHANGED <<user, finalizer, objs, published, rewrite, locals>>

-----------------------------------------------------------------------------
(* The user and the cluster. *)

Edit(p, i, up, event) ==
    /\ edits < MaxEdits
    /\ edits' = edits + 1
    /\ parent' = p
    /\ instance' = i
    /\ named' = up
    /\ queued' = (queued \/ event)
    /\ UNCHANGED <<kind, finalizer, objs, rewrite, plan, locals, faults>>

OfKind(s) == (s.shape = "ingress") = (kind = "ingress")

(* A Service that is no ExternalName any more has no externalName, and the user
   who applies a manifest again puts the placeholder back. *)
EditParent ==
    /\ parent # Deleted
    /\ \E s \in Specs :
        /\ OfKind(s)
        /\ Edit(s, instance, named, TRUE)
        /\ published' \in {FALSE, published /\ s.shape = "egress"}
        /\ s # parent \/ published' # published

RemoveParent ==
    /\ parent \notin {Deleted, None}
    /\ \/ parent # Unwanted /\ Edit(Unwanted, instance, named, TRUE)
       \/ Edit(IF finalizer THEN Deleted ELSE None, instance, named, TRUE)
    /\ published' = (published /\ parent' # None)

EditInstance ==
    \E i \in Instances \ {instance} : Edit(parent, i, named, TRUE) /\ UNCHANGED published

(* Nobody watches the backends of an Ingress. *)
EditBackends == Edit(parent, instance, ~named, FALSE) /\ UNCHANGED published

Lose ==
    /\ faults < MaxFaults
    /\ faults' = faults + 1
    /\ \E p \in Present \cap {"sts", "key", "state"} : Apply(p, None)
    /\ UNCHANGED <<user, finalizer, published, rewrite, plan, locals>>
    /\ Notified

-----------------------------------------------------------------------------
Init ==
    /\ kind \in {"ingress", "service"}
    /\ parent = None
    /\ finalizer = FALSE
    /\ instance \in Instances
    /\ named \in BOOLEAN
    /\ objs = Nothing
    /\ published = FALSE
    /\ rewrite = FALSE
    /\ plan = <<>>
    /\ obj = None
    /\ seen = [login |-> "cluster", routes |-> {}]
    /\ queued = FALSE
    /\ edits = 0
    /\ faults = 0

Reconcile ==
    \/ Refused \/ Served \/ Withdrawn \/ Released
    \/ Shape \/ ApplyService \/ ApplyPlain \/ apply_serve_configmap
    \/ apply_proxy_statefulset \/ apply_consumer_policy \/ DropLeftover
    \/ Publish \/ sync_egress_dns \/ cleanup_proxy_resources \/ Release

Next ==
    \/ Reconcile
    \/ Fail
    \/ EditParent \/ RemoveParent \/ EditInstance \/ EditBackends
    \/ Lose

Spec == Init /\ [][Next]_vars

(* A reconcile that is due or has begun goes on. *)
FairSpec == Spec /\ WF_vars(Reconcile)

-----------------------------------------------------------------------------
(* Properties. *)

(* The backend that the n-th port of an egress is forwarded to on the tailnet. *)
Target(p) == IF p.target = None THEN p.port ELSE p.target

(* Whoever dials a port of an egress Service gets to the port declared for it,
   and to no other, if the NetworkPolicy lets him in. *)
Forwarded(s) ==
    \A i \in DOMAIN s.ports : s.ports[i].tcp =>
        /\ \E link \in objs["service"].ports :
            /\ link[1] = s.ports[i].port
            /\ <<link[2], Target(s.ports[i])>> \in objs["sts"].listen
            /\ s.consumers # {} => link[2] \in objs["policy"].ports
        /\ Cardinality({l \in objs["service"].ports : l[1] = s.ports[i].port}) = 1

EgressDelivers(s) ==
    /\ objs["service"] # None
    /\ objs["sts"] # None
    /\ objs["sts"].flavor = "egress"
    /\ IF s.consumers = {} THEN objs["policy"] = None
       ELSE objs["policy"] # None /\ objs["policy"].peers = s.consumers
    /\ Forwarded(s)
    /\ published
    /\ rewrite

(* Every path leads to a backend declared for it.  A path whose backend is named
   may wait, for nobody watches that Service, unless all are. *)
PathsServed(s) ==
    /\ \A i \in DOMAIN s.routes :
        (s.routes[i].named /\ \E j \in DOMAIN s.routes : ~s.routes[j].named)
            \/ \E h \in objs["serve"] : h[1] = s.routes[i].path
    /\ \A h \in objs["serve"] : \E i \in DOMAIN s.routes :
        h = <<s.routes[i].path, s.routes[i].backend>>
    /\ \A g, h \in objs["serve"] : g[1] = h[1] => g = h

PortsServed(s) ==
    /\ \A i \in DOMAIN s.ports : s.ports[i].tcp => <<s.ports[i].port, s.ports[i].port>> \in objs["serve"]
    /\ \A h \in objs["serve"] : \E i \in DOMAIN s.ports :
        s.ports[i].tcp /\ h = <<s.ports[i].port, s.ports[i].port>>

(* The endpoint a proxy advertises is that of its Service; one on the host's
   network advertises none and has no TUN device. *)
Reachable(s) ==
    /\ objs["service"] # None
    /\ objs["sts"].endpoint = objs["service"].nodePort
    /\ (objs["sts"].endpoint = None) = objs["sts"].host
    /\ objs["sts"].host => objs["service"].headless /\ ~objs["sts"].device
    /\ s.host /\ ~objs["sts"].device => objs["sts"].host

ServesInward(s) ==
    /\ objs["sts"] # None
    /\ Reachable(s)
    /\ objs["sts"].device = (s.mode = "tun")
    /\ IF s.shape = "exposed" /\ s.mode = "tun"
       THEN objs["sts"].dest = s.ip /\ objs["serve"] = None
       ELSE /\ objs["sts"].flavor = "serve"
            /\ objs["serve"] # None
            /\ IF s.shape = "ingress" THEN PathsServed(s) ELSE PortsServed(s)
    /\ s.shape = "exposed" => objs["policy"] = None

Delivers(s) == IF s.shape = "egress" THEN EgressDelivers(s) ELSE ServesInward(s)

Servable == parent \in Specs /\ Verdict(parent) = "serve"

(* The objects deliver what the parent declares: each port, path and consumer, by
   the login server, the endpoint and the device that fit. *)
AsDeclared ==
    Servable =>
        /\ objs["sts"] # None
        /\ objs["sts"].login = login_url(instance)
        /\ Delivers(parent)

(* Whatever shapes the parent went through and wherever reconciles failed, once
   it is left alone its objects deliver what it declares.  It excepts the Service
   that EachPortForwarded is about. *)
Settles == <>[]AsDeclared

(* A parent that is gone, or that is refused for its namespace or for want of
   paths, leaves nothing: except what a delete that failed kept, for nobody comes
   back for it. *)
Unwelcome == parent \in Specs /\ Verdict(parent) \in {"exclude", "noPathRules"}
NothingLeft == parent \in Gone \/ Unwelcome => Cardinality(Present) <= faults /\ parent # Deleted
TearsDown == <>[]NothingLeft

(* An object without an owner is one that a failed delete kept. *)
NothingUnowned == finalizer \/ Cardinality(Present) <= faults

(* A proxy is started only after all that its pod mounts or is bound to. *)
StartsEquipped ==
    [][objs["sts"] = None /\ objs'["sts"] # None =>
         /\ Rbac \cup {"service"} \subseteq Present
         /\ objs'["sts"].flavor = "serve" => objs["serve"] # None]_vars

(* The Service is led to an egress proxy when only its consumers are let in. *)
PublishedGuarded ==
    [][~published /\ published' =>
         /\ objs["policy"] = None <=> obj.consumers = {}
         /\ objs["policy"] # None => objs["policy"].peers = obj.consumers]_vars

(* README: every declared port of an egress Service is forwarded.  The Service of
   a proxy on the host's network has no ClusterIP, and one that turns into an
   egress keeps it: apply_egress never asks for its shape. *)
EachPortForwarded ==
    <>[](Servable /\ parent.shape = "egress" => objs["service"] # None /\ ~objs["service"].headless)

=============================================================================
