--------------------------- MODULE DataPlaneProofs ---------------------------
(***************************************************************************)
(* Theorems about the objects of one parent, for every set of specs and    *)
(* any number of edits and faults.                                         *)
(***************************************************************************)
EXTENDS DataPlane, PlanTheorems, FiniteSetTheorems

-----------------------------------------------------------------------------
(* The order of a reconcile.  `Before(c)` are calls that are not made after c. *)
Departing == {"teardown", "release", "dns"}

Before(c) ==
    CASE c = "sts" -> Rbac \cup {"shape", "service", "serve"}
      [] c = "dropServe" -> {"sts"}
      [] c = "dropPolicy" -> {"publish"}
      [] c = "publish" -> {"consumers"}
      [] c = "teardown" -> Calls \ {"release", "dns"}
      [] c = "release" -> Calls \ {"dns"}
      [] OTHER -> {}

Ordered(p) ==
    /\ \A i, j \in 1 .. Len(p) : i < j => p[j] \notin Before(p[i])
    /\ \A i \in 1 .. Len(p) : p[i] = "shape" => i + 1 \in 1 .. Len(p) /\ p[i + 1] = "service"

LEMMA OrderedTail ==
    ASSUME NEW p \in Seq(Calls), p # <<>>, Ordered(p)
    PROVE  Ordered(Tail(p))
  <1>1. /\ Len(p) \in Nat /\ Len(Tail(p)) = Len(p) - 1
        /\ \A i \in 1 .. Len(Tail(p)) : Tail(p)[i] = p[i + 1]
    BY Plans
  <1>2. ASSUME NEW i \in 1 .. Len(Tail(p)), NEW j \in 1 .. Len(Tail(p)), i < j
        PROVE  Tail(p)[j] \notin Before(Tail(p)[i])
    <2>1. i + 1 \in 1 .. Len(p) /\ j + 1 \in 1 .. Len(p) /\ i + 1 < j + 1
      BY <1>1, <1>2
    <2> QED
      BY <1>1, <2>1 DEF Ordered
  <1>3. ASSUME NEW i \in 1 .. Len(Tail(p)), Tail(p)[i] = "shape"
        PROVE  i + 1 \in 1 .. Len(Tail(p)) /\ Tail(p)[i + 1] = "service"
    <2>1. i + 1 \in 1 .. Len(p) /\ p[i + 1] = "shape"
      BY <1>1, <1>3
    <2>2. (i + 1) + 1 \in 1 .. Len(p) /\ p[(i + 1) + 1] = "service"
      BY <2>1 DEF Ordered
    <2> QED
      BY <1>1, <2>2
  <1> QED
    BY <1>2, <1>3 DEF Ordered

(* What is behind the head of a plan, and what is not. *)
LEMMA OrderedHead ==
    ASSUME NEW p \in Seq(Calls), p # <<>>, Ordered(p)
    PROVE  /\ \A c \in Before(Head(p)) : ~Ahead(Tail(p), c)
           /\ Head(p) = "shape" => Ahead(Tail(p), "service")
  <1>1. /\ Head(p) = p[1] /\ Len(p) \in Nat /\ Len(p) >= 1 /\ Len(Tail(p)) = Len(p) - 1
        /\ \A i \in 1 .. Len(Tail(p)) : Tail(p)[i] = p[i + 1]
    BY Plans
  <1>2. ASSUME NEW i \in 1 .. Len(Tail(p)) PROVE Tail(p)[i] \notin Before(Head(p))
    <2>1. 1 \in 1 .. Len(p) /\ i + 1 \in 1 .. Len(p) /\ 1 < i + 1
      BY <1>1
    <2> QED
      BY <1>1, <2>1 DEF Ordered
  <1>3. ASSUME Head(p) = "shape" PROVE Ahead(Tail(p), "service")
    <2>1. 1 \in 1 .. Len(p)
      BY <1>1
    <2>2. 1 + 1 \in 1 .. Len(p) /\ p[1 + 1] = "service"
      BY <1>1, <1>3, <2>1 DEF Ordered
    <2>3. 1 \in 1 .. Len(Tail(p)) /\ Tail(p)[1] = "service"
      BY <1>1, <2>2
    <2> QED
      BY <2>3 DEF Ahead
  <1> QED
    BY <1>2, <1>3 DEF Ahead

-----------------------------------------------------------------------------
(* What a reconcile begins with. *)

(* It has a serve configuration. *)
Serves(s) == s.shape = "ingress" \/ (s.shape = "exposed" /\ s.mode = "tsnet")

(* What it takes to provide for a spec. *)
Ours(s) == Rbac \cup Secrets \cup {"service", "sts"} \cup
    (CASE s.shape = "ingress" -> {"shape", "serve"}
       [] s.shape = "exposed" ->
            {"shape", IF s.mode = "tsnet" THEN "serve" ELSE "dropServe", "dropPolicy"}
       [] s.shape = "egress" -> {"publish", "consumers", "dns"})

Provides(s, p) ==
    /\ p \in Seq(Calls)
    /\ Ordered(p)
    /\ \A c : Ahead(p, c) <=> c \in Ours(s)
    /\ \A c \in Rbac \cup {"service", "sts"} : Ahead(p, c)
    /\ Serves(s) => Ahead(p, "serve")
    /\ Ahead(p, "publish") => Ahead(p, "consumers")
    /\ ~Ahead(p, "teardown") /\ ~Ahead(p, "release")

LEMMA IngressPlan ==
    ASSUME NEW s, s.shape = "ingress"
    PROVE  Provides(s, ApplyPlan(s))
  <1> DEFINE a == <<"shape", "service">>
             b == <<"key", "state", "serve">>
             c == <<"serviceAccount", "role", "roleBinding">>
             d == <<"sts">>
             p == ((a \o b) \o c) \o d
  <1>1. a \in Seq(Calls) /\ b \in Seq(Calls) /\ c \in Seq(Calls) /\ d \in Seq(Calls)
    BY DEF Calls, Rbac, Secrets
  <1>2. a \o b \in Seq(Calls) /\ (a \o b) \o c \in Seq(Calls) /\ p \in Seq(Calls)
    BY <1>1, ConcatProperties
  <1>3. p = ApplyPlan(s)
    BY DEF ApplyPlan, apply_wireguard_service, apply_proxy_rbac
  <1>4. /\ Len(a \o b) = 5 /\ (a \o b)[1] = "shape" /\ (a \o b)[2] = "service"
        /\ (a \o b)[3] = "key" /\ (a \o b)[4] = "state" /\ (a \o b)[5] = "serve"
    BY <1>1, ConcatProperties
  <1>5. /\ Len(p) = 9 /\ p[1] = "shape" /\ p[2] = "service" /\ p[3] = "key" /\ p[4] = "state"
        /\ p[5] = "serve" /\ p[6] = "serviceAccount" /\ p[7] = "role" /\ p[8] = "roleBinding" /\ p[9] = "sts"
    BY <1>1, <1>2, <1>4, ConcatProperties
  <1> HIDE DEF p
  <1>6. \A i \in 1 .. 9 : i < 9 => Before(p[i]) = {}
    BY <1>5 DEF Before, Rbac
  <1>7. Ordered(p)
    BY <1>5, <1>6 DEF Ordered
  <1>8. \A x \in Rbac \cup {"service", "sts", "serve"} : Ahead(p, x)
    BY <1>5 DEF Ahead, Rbac
  <1>9. ~Ahead(p, "publish") /\ ~Ahead(p, "teardown") /\ ~Ahead(p, "release")
    BY <1>5 DEF Ahead
  <1>10. ASSUME NEW x PROVE Ahead(p, x) <=> x \in Ours(s)
    <2>1. Ours(s) = Rbac \cup Secrets \cup {"service", "sts"} \cup {"shape", "serve"}
      BY DEF Ours
    <2> QED
      BY <1>5, <2>1 DEF Ahead, Rbac, Secrets
  <1> QED
    BY <1>2, <1>3, <1>7, <1>8, <1>9, <1>10 DEF Provides

LEMMA EgressPlan ==
    ASSUME NEW s, s.shape = "egress"
    PROVE  Provides(s, ApplyPlan(s))
  <1> DEFINE a == <<"key", "state", "service">>
             b == <<"serviceAccount", "role", "roleBinding">>
             c == <<"sts", "consumers", "publish", "dns">>
             p == (a \o b) \o c
  <1>1. a \in Seq(Calls) /\ b \in Seq(Calls) /\ c \in Seq(Calls)
    BY DEF Calls, Rbac, Secrets
  <1>2. a \o b \in Seq(Calls) /\ p \in Seq(Calls)
    BY <1>1, ConcatProperties
  <1>3. p = ApplyPlan(s)
    BY DEF ApplyPlan, apply_proxy_rbac
  <1>4. /\ Len(p) = 10 /\ p[1] = "key" /\ p[2] = "state" /\ p[3] = "service" /\ p[4] = "serviceAccount"
        /\ p[5] = "role" /\ p[6] = "roleBinding" /\ p[7] = "sts" /\ p[8] = "consumers"
        /\ p[9] = "publish" /\ p[10] = "dns"
    BY <1>1, <1>2, ConcatProperties
  <1> HIDE DEF p
  <1>5. Ordered(p)
    BY <1>4 DEF Ordered, Before, Rbac
  <1>6. \A x \in Rbac \cup {"service", "sts", "consumers"} : Ahead(p, x)
    BY <1>4 DEF Ahead, Rbac
  <1>7. ~Ahead(p, "teardown") /\ ~Ahead(p, "release")
    BY <1>4 DEF Ahead
  <1>8. ASSUME NEW x PROVE Ahead(p, x) <=> x \in Ours(s)
    <2>1. Ours(s) = Rbac \cup Secrets \cup {"service", "sts"} \cup {"publish", "consumers", "dns"}
      BY DEF Ours
    <2> QED
      BY <1>4, <2>1 DEF Ahead, Rbac, Secrets
  <1> QED
    BY <1>2, <1>3, <1>5, <1>6, <1>7, <1>8 DEF Provides, Serves

LEMMA ExposedPlan ==
    ASSUME NEW s, s.shape = "exposed"
    PROVE  Provides(s, ApplyPlan(s))
  <1> DEFINE a == <<"key", "state">>
             b == <<"shape", "service">>
             c == <<"serviceAccount", "role", "roleBinding">>
             d == IF s.mode = "tsnet" THEN <<"serve", "sts">> ELSE <<"sts", "dropServe">>
             e == <<"dropPolicy">>
             p == (((a \o b) \o c) \o d) \o e
  <1>0. /\ <<"serve", "sts">> \in Seq(Calls) /\ Len(<<"serve", "sts">>) = 2
        /\ <<"sts", "dropServe">> \in Seq(Calls) /\ Len(<<"sts", "dropServe">>) = 2
    BY DEF Calls, Rbac, Secrets
  <1>1. /\ a \in Seq(Calls) /\ b \in Seq(Calls) /\ c \in Seq(Calls) /\ d \in Seq(Calls) /\ e \in Seq(Calls)
        /\ Len(d) = 2
    <2>1. a \in Seq(Calls) /\ b \in Seq(Calls) /\ c \in Seq(Calls) /\ e \in Seq(Calls)
      BY DEF Calls, Rbac, Secrets
    <2>2. CASE s.mode = "tsnet"
      BY <1>0, <2>1, <2>2
    <2>3. CASE s.mode # "tsnet"
      BY <1>0, <2>1, <2>3
    <2> QED
      BY <2>2, <2>3
  <1>2. /\ a \o b \in Seq(Calls) /\ (a \o b) \o c \in Seq(Calls)
        /\ ((a \o b) \o c) \o d \in Seq(Calls) /\ p \in Seq(Calls)
    BY <1>1, ConcatProperties
  <1>3. p = ApplyPlan(s)
    BY DEF ApplyPlan, apply_wireguard_service, apply_proxy_rbac
  <1>4. /\ Len(a \o b) = 4 /\ (a \o b)[1] = "key" /\ (a \o b)[2] = "state"
        /\ (a \o b)[3] = "shape" /\ (a \o b)[4] = "service"
    BY <1>1, ConcatProperties
  <1>5. LET q == (a \o b) \o c
        IN  /\ Len(q) = 7 /\ q[1] = "key" /\ q[2] = "state" /\ q[3] = "shape" /\ q[4] = "service"
            /\ q[5] = "serviceAccount" /\ q[6] = "role" /\ q[7] = "roleBinding"
    BY <1>1, <1>2, <1>4, ConcatProperties
  <1>6. /\ Len(p) = 10 /\ p[1] = "key" /\ p[2] = "state" /\ p[3] = "shape" /\ p[4] = "service"
        /\ p[5] = "serviceAccount" /\ p[6] = "role" /\ p[7] = "roleBinding"
        /\ p[8] = d[1] /\ p[9] = d[2] /\ p[10] = "dropPolicy"
    BY <1>1, <1>2, <1>5, ConcatProperties
  <1>7. \/ s.mode = "tsnet" /\ p[8] = "serve" /\ p[9] = "sts"
        \/ s.mode # "tsnet" /\ p[8] = "sts" /\ p[9] = "dropServe"
    BY <1>6
  <1> HIDE DEF p
  <1>8. Ordered(p)
    BY <1>6, <1>7 DEF Ordered, Before, Rbac
  <1>9. /\ \A x \in Rbac \cup {"service", "sts"} : Ahead(p, x)
        /\ s.mode = "tsnet" => Ahead(p, "serve")
    BY <1>6, <1>7 DEF Ahead, Rbac
  <1>10. ~Ahead(p, "publish") /\ ~Ahead(p, "teardown") /\ ~Ahead(p, "release")
    BY <1>6, <1>7 DEF Ahead
  <1>11. ASSUME NEW x PROVE Ahead(p, x) <=> x \in Ours(s)
    <2>1. Ours(s) = Rbac \cup Secrets \cup {"service", "sts"}
                    \cup {"shape", IF s.mode = "tsnet" THEN "serve" ELSE "dropServe", "dropPolicy"}
      BY DEF Ours
    <2> QED
      BY <1>6, <1>7, <2>1 DEF Ahead, Rbac, Secrets
  <1> QED
    BY <1>2, <1>3, <1>8, <1>9, <1>10, <1>11 DEF Provides, Serves

(* A plan that gives the parent up tears down before it releases. *)
Departs(p) ==
    /\ p \in Seq(Calls)
    /\ Ordered(p)
    /\ \A c : Ahead(p, c) => c \in Departing
    /\ Ahead(p, "teardown")

LEMMA DepartingPlans ==
    /\ \A x : Departs(ReleasePlan(x))
    /\ Departs(<<"teardown", "release">>)
    /\ Departs(<<"teardown">>)
  <1>1. ASSUME NEW p, p \in {<<"teardown">>, <<"teardown", "release">>,
                             <<"teardown", "dns", "release">>, <<"teardown", "release", "dns">>}
        PROVE  Departs(p)
    <2>1. p \in Seq(Calls) /\ Len(p) \in 1 .. 3
      <3>1. {"teardown", "release", "dns"} \subseteq Calls
        BY DEF Calls
      <3>2. <<"teardown">> \in Seq(Calls) /\ <<"teardown", "release">> \in Seq(Calls)
        BY <3>1
      <3>3. <<"teardown", "dns", "release">> \in Seq(Calls) /\ <<"teardown", "release", "dns">> \in Seq(Calls)
        BY <3>1
      <3>4. p \in Seq(Calls)
        BY <1>1, <3>2, <3>3
      <3> QED
        BY <1>1, <3>4
    <2>2. /\ \A i \in 1 .. Len(p) : p[i] \in Departing
          /\ 1 \in 1 .. Len(p) /\ p[1] = "teardown"
      BY <1>1 DEF Departing
    <2>3. Before("dns") = {} /\ {"release", "dns"} \cap Before("teardown") = {} /\ "dns" \notin Before("release")
      BY DEF Before
    <2>4. Ordered(p)
      <3>1. CASE p = <<"teardown">>
        BY <2>3, <3>1 DEF Ordered
      <3>2. CASE p = <<"teardown", "release">>
        BY <2>3, <3>2 DEF Ordered
      <3>3. CASE p = <<"teardown", "dns", "release">>
        BY <2>3, <3>3 DEF Ordered
      <3>4. CASE p = <<"teardown", "release", "dns">>
        BY <2>3, <3>4 DEF Ordered
      <3> QED
        BY <1>1, <3>1, <3>2, <3>3, <3>4
    <2> QED
      BY <2>1, <2>2, <2>4 DEF Departs, Ahead
  <1> QED
    BY <1>1 DEF ReleasePlan

-----------------------------------------------------------------------------
(* What a reconcile knows.  One that is not about a spec gives the parent up; so
   does one that releases it, and one that goes on without a finalizer has only
   the DNS left to do. *)
Aimed == obj \notin Specs => \A c : Ahead(plan, c) => c \in Departing

Leaving == Ahead(plan, "release") => \A c : Ahead(plan, c) => c \in Departing

Owned == ~finalizer => \A c : Ahead(plan, c) => c = "dns"

Read == Ahead(plan, "serve") => \E up \in BOOLEAN : seen.routes = collect_ingress_routes(obj, up)

(* What is not ahead any more is there for the StatefulSet, and for whoever is led
   to an egress. *)
Portless(s) == s.shape = "egress" \/ HostNetwork(s)

Endpoint(service, s) == service # None /\ (service.nodePort = None <=> Portless(s))

Equipped ==
    Ahead(plan, "sts") =>
        /\ \A p \in Rbac : ~Ahead(plan, p) => objs[p] # None
        /\ ~Ahead(plan, "service") => Endpoint(objs["service"], obj)
        /\ Serves(obj) /\ ~Ahead(plan, "serve") => objs["serve"] # None

Admitting(policy, s) ==
    /\ policy = None <=> s.consumers = {}
    /\ policy # None => policy.peers = s.consumers

Shielded ==
    Ahead(plan, "publish") /\ ~Ahead(plan, "consumers") => Admitting(objs["policy"], obj)

Making ==
    /\ DataPlaneTypeOK
    /\ Ordered(plan)
    /\ Aimed /\ Leaving /\ Owned /\ Read
    /\ Equipped /\ Shielded

LEMMA NothingAhead ==
    /\ <<>> \in Seq(Calls) /\ Ordered(<<>>)
    /\ \A c : ~Ahead(<<>>, c)
  BY DEF Ordered, Ahead

LEMMA MakingInit == Init => Making
  <1> SUFFICES ASSUME Init PROVE Making
    OBVIOUS
  <1>1. 0 \in 0 .. MaxEdits /\ 0 \in 0 .. MaxFaults
    BY DataPlaneConstants
  <1>2. DOMAIN Nothing = Pieces /\ \A p \in Pieces : Nothing[p] = None
    BY DEF Nothing
  <1>3. DataPlaneTypeOK
    BY <1>1, <1>2, NothingAhead DEF Init, DataPlaneTypeOK, Gone, Pieces, Rbac, Secrets
  <1> QED
    BY <1>3, NothingAhead
    DEF Init, Making, Aimed, Leaving, Owned, Read, Equipped, Shielded

(* What a step makes of a plan. *)
Begins ==
    /\ plan = <<>>
    /\ obj' = parent
    /\ UNCHANGED objs
    /\ \/ /\ parent \in Specs
          /\ finalizer'
          /\ seen' = [login |-> login_url(instance), routes |-> collect_ingress_routes(parent, named)]
          /\ plan' = ApplyPlan(parent)
       \/ Departs(plan') /\ finalizer'

Goes == plan # <<>> /\ plan' = Tail(plan) /\ UNCHANGED <<obj, seen>>

ObjectCall ==
    \/ Shape \/ ApplyService \/ ApplyPlain \/ apply_serve_configmap
    \/ apply_proxy_statefulset \/ apply_consumer_policy \/ DropLeftover

LEMMA PlanNext ==
    ASSUME Making, [Next]_vars
    PROVE  \/ UNCHANGED <<plan, obj, seen, finalizer>> /\ (UNCHANGED objs \/ Lose)
           \/ plan' = <<>> /\ UNCHANGED objs
           \/ Begins
           \/ Goes /\ (ObjectCall \/ Publish \/ sync_egress_dns \/ cleanup_proxy_resources \/ Release)
  <1> USE DEF user, locals, ObjectCall
  <1>1. CASE Refused
    BY <1>1 DEF Refused, Begin
  <1>2. CASE Served
    BY <1>2 DEF Served, Begin, Begins
  <1>3. CASE Withdrawn \/ Released
    BY <1>3, DepartingPlans DEF Withdrawn, Released, Begin, Begins
  <1>4. CASE ObjectCall \/ Publish \/ sync_egress_dns \/ cleanup_proxy_resources \/ Release
    BY <1>4
    DEF Shape, ApplyService, ApplyPlain, apply_serve_configmap, apply_proxy_statefulset,
        apply_consumer_policy, DropLeftover, Publish, sync_egress_dns, cleanup_proxy_resources,
        Release, Call, Goes
  <1>5. CASE Fail
    BY <1>5 DEF Fail
  <1>6. CASE EditParent \/ RemoveParent \/ EditInstance \/ EditBackends
    BY <1>6 DEF EditParent, RemoveParent, EditInstance, EditBackends, Edit
  <1>7. CASE Lose
    BY <1>7 DEF Lose
  <1>8. CASE UNCHANGED vars
    BY <1>8 DEF vars
  <1> QED
    BY <1>1, <1>2, <1>3, <1>4, <1>5, <1>6, <1>7, <1>8 DEF Next, Reconcile

(* What is ahead after a call was ahead before it. *)
LEMMA GoesOn ==
    ASSUME Making, Goes
    PROVE  /\ plan' \in Seq(Calls)
           /\ Head(plan) \in Calls
           /\ Ordered(plan')
           /\ \A c : Ahead(plan, c) <=> c = Head(plan) \/ Ahead(plan', c)
           /\ \A c \in Before(Head(plan)) : ~Ahead(plan', c)
           /\ Head(plan) = "shape" => Ahead(plan', "service")
  <1>1. plan \in Seq(Calls) /\ plan # <<>> /\ plan' = Tail(plan) /\ Ordered(plan)
    BY DEF Making, DataPlaneTypeOK, Goes
  <1> QED
    BY <1>1, Plans, AheadTail, OrderedTail, OrderedHead

(* A reconcile begins by providing for a spec, or by giving the parent up. *)
LEMMA BeginsWith ==
    ASSUME Begins
    PROVE  \/ parent \in Specs /\ Provides(parent, plan')
           \/ Departs(plan') /\ finalizer'
  <1>1. parent \in Specs => parent.shape \in {"ingress", "exposed", "egress"}
    BY DataPlaneConstants DEF IsSpec
  <1> QED
    BY <1>1, IngressPlan, ExposedPlan, EgressPlan DEF Begins

LEMMA PlanTyped ==
    ASSUME Making, [Next]_vars
    PROVE  plan' \in Seq(Calls) /\ Ordered(plan')
  <1>1. CASE Begins
    BY <1>1, BeginsWith DEF Provides, Departs
  <1>2. CASE Goes
    BY <1>2, GoesOn
  <1>3. CASE UNCHANGED plan \/ plan' = <<>>
    BY <1>3, NothingAhead DEF Making, DataPlaneTypeOK
  <1> QED
    BY <1>1, <1>2, <1>3, PlanNext

LEMMA AimedNext ==
    ASSUME Making, [Next]_vars
    PROVE  Aimed' /\ Leaving'
  <1>1. CASE Begins
    <2>1. CASE parent \in Specs /\ Provides(parent, plan')
      BY <1>1, <2>1 DEF Begins, Provides, Aimed, Leaving
    <2>2. CASE Departs(plan')
      BY <2>2 DEF Departs, Aimed, Leaving
    <2> QED
      BY <1>1, <2>1, <2>2, BeginsWith
  <1>2. CASE Goes
    <2>1. \A c : Ahead(plan', c) => Ahead(plan, c)
      BY <1>2, GoesOn
    <2>2. Aimed /\ Leaving /\ obj' = obj
      BY <1>2 DEF Making, Goes
    <2> QED
      BY <2>1, <2>2 DEF Aimed, Leaving
  <1>3. CASE plan' = <<>>
    BY <1>3, NothingAhead DEF Aimed, Leaving
  <1>4. CASE UNCHANGED <<plan, obj>>
    BY <1>4 DEF Making, Aimed, Leaving
  <1> QED
    BY <1>1, <1>2, <1>3, <1>4, PlanNext

LEMMA OwnedNext ==
    ASSUME Making, [Next]_vars
    PROVE  Owned'
  <1> USE DEF user, locals
  <1>1. CASE Begins
    BY <1>1 DEF Begins, Owned
  <1>2. CASE plan' = <<>>
    BY <1>2, NothingAhead DEF Owned
  <1>3. CASE Goes /\ ~Release
    <2>1. UNCHANGED finalizer
      BY <1>3
      DEF Goes, Next, Reconcile, Refused, Served, Withdrawn, Released, Begin, Shape, ApplyService,
          ApplyPlain, apply_serve_configmap, apply_proxy_statefulset, apply_consumer_policy,
          DropLeftover, Publish, sync_egress_dns, cleanup_proxy_resources, Only, Fail,
          EditParent, RemoveParent, EditInstance, EditBackends, Edit, Lose, vars
    <2> QED
      BY <1>3, <2>1, GoesOn DEF Making, Owned
  <1>4. CASE Release
    <2>1. Goes /\ Head(plan) = "release"
      BY <1>4 DEF Release, Goes
    <2>2. ASSUME NEW c, Ahead(plan', c) PROVE c = "dns"
      <3>1. c \in Calls
        BY <2>1, <2>2, GoesOn DEF Ahead
      <3>2. c \notin Before("release")
        BY <2>1, <2>2, GoesOn
      <3> QED
        BY <3>1, <3>2 DEF Before
    <2> QED
      BY <2>2 DEF Owned
  <1>5. CASE UNCHANGED <<plan, finalizer>>
    BY <1>5 DEF Making, Owned
  <1> QED
    BY <1>1, <1>2, <1>3, <1>4, <1>5, PlanNext

LEMMA ReadNext ==
    ASSUME Making, [Next]_vars
    PROVE  Read'
  <1>0. named \in BOOLEAN /\ Read
    BY DEF Making, DataPlaneTypeOK
  <1>1. CASE Begins
    <2>1. CASE Departs(plan')
      BY <2>1 DEF Departs, Departing, Read
    <2>2. CASE seen' = [login |-> login_url(instance), routes |-> collect_ingress_routes(parent, named)]
      BY <1>0, <1>1, <2>2 DEF Begins, Read
    <2> QED
      BY <1>1, <2>1, <2>2 DEF Begins
  <1>2. CASE Goes
    BY <1>0, <1>2, GoesOn DEF Read, Goes
  <1>3. CASE plan' = <<>>
    BY <1>3, NothingAhead DEF Read
  <1>4. CASE UNCHANGED <<plan, obj, seen>>
    BY <1>0, <1>4 DEF Read
  <1> QED
    BY <1>1, <1>2, <1>3, <1>4, PlanNext

-----------------------------------------------------------------------------
(* What the builders build. *)

LEMMA ForwardTypes ==
    ASSUME NEW s, IsSpec(s)
    PROVE  \A f \in collect_tcp_forwards(s) : f.port \in Nat /\ f.backend \in Nat /\ f.listen \in Nat
  <1>1. \A i \in TcpPorts(s) : s.ports[i] \in Declared
    BY DEF IsSpec, TcpPorts
  <1>2. ASSUME NEW i \in TcpPorts(s) PROVE ListenPort(s, i) \in Nat
    <2>1. TcpPorts(s) \subseteq 1 .. Len(s.ports) /\ Len(s.ports) \in Nat
      BY DEF TcpPorts, IsSpec
    <2>2. IsFiniteSet(1 .. Len(s.ports))
      BY <2>1, FS_Interval
    <2>3. IsFiniteSet({j \in TcpPorts(s) : j < i})
      BY <2>1, <2>2, FS_Subset
    <2>4. Cardinality({j \in TcpPorts(s) : j < i}) \in Nat
      BY <2>3, FS_CardinalityType
    <2> QED
      BY <2>4 DEF ListenPort, LISTEN_PORT_BASE
  <1> QED
    BY <1>1, <1>2 DEF collect_tcp_forwards, Declared, Ports

LEMMA ServiceTypes ==
    ASSUME NEW s \in Specs
    PROVE  EgressPorts(s) \in SUBSET (Nat \X Nat)
  BY ForwardTypes, DataPlaneConstants DEF EgressPorts

LEMMA PolicyTypes ==
    ASSUME NEW s \in Specs
    PROVE  build_consumer_policy(s) \in Policies /\ build_consumer_policy(s).peers = s.consumers
  <1>1. s.consumers \in SUBSET Namespaces
    BY DataPlaneConstants DEF IsSpec
  <1>2. {f.listen : f \in collect_tcp_forwards(s)} \in SUBSET Nat
    BY ForwardTypes, DataPlaneConstants
  <1> QED
    BY <1>1, <1>2 DEF build_consumer_policy, Policies

(* A StatefulSet on the host's network has no device, and advertises an endpoint
   unless it is there or an egress's. *)
LEMMA StatefulSetTypes ==
    ASSUME NEW s \in Specs, NEW login \in {"cluster", "public"}, NEW port \in NodePorts \cup {None},
           port = None <=> Portless(s)
    PROVE  /\ DesiredStatefulSet(s, login, port) \in StatefulSets
           /\ DesiredStatefulSet(s, login, port).flavor = "serve" => Serves(s)
  <1>0. IsSpec(s)
    BY DataPlaneConstants
  <1>1. CASE s.shape = "egress"
    <2>1. {<<f.listen, f.backend>> : f \in collect_tcp_forwards(s)} \in SUBSET (Nat \X Nat)
      BY <1>0, ForwardTypes
    <2>2. DesiredStatefulSet(s, login, port) = build_egress_statefulset(s, login)
      BY <1>1 DEF DesiredStatefulSet
    <2>3. \A l \in SUBSET (Nat \X Nat) :
            [flavor |-> "egress", login |-> login, host |-> FALSE, device |-> FALSE,
             endpoint |-> None, dest |-> None, listen |-> l] \in StatefulSets
      BY DEF StatefulSets
    <2>4. DesiredStatefulSet(s, login, port).flavor = "egress"
      BY <2>2 DEF build_egress_statefulset
    <2> QED
      BY <2>1, <2>2, <2>3, <2>4 DEF build_egress_statefulset
  <1>2. CASE s.shape = "exposed" /\ s.mode = "tun"
    <2>1. port # None /\ s.ip \in Addresses \cup {None}
      BY <1>0, <1>2 DEF Portless, HostNetwork, IsSpec
    <2>2. DesiredStatefulSet(s, login, port) = build_tun_statefulset(s, login, port)
      BY <1>2 DEF DesiredStatefulSet
    <2> QED
      BY <2>1, <2>2 DEF build_tun_statefulset, StatefulSets
  <1>3. CASE s.shape # "egress" /\ ~(s.shape = "exposed" /\ s.mode = "tun")
    <2>1. HostNetwork(s) \in BOOLEAN /\ ~(HostNetwork(s) /\ s.mode = "tun") /\ (port = None <=> HostNetwork(s))
      BY <1>0, <1>3 DEF Portless, HostNetwork, IsSpec
    <2>2. DesiredStatefulSet(s, login, port) = build_proxy_statefulset(s, login, port)
      BY <1>3 DEF DesiredStatefulSet
    <2>3. Serves(s)
      BY <1>0, <1>3 DEF Serves, IsSpec
    <2>4. \A h, d \in BOOLEAN : ~(h /\ d) /\ (port = None <=> h) =>
            [flavor |-> "serve", login |-> login, host |-> h, device |-> d,
             endpoint |-> port, dest |-> None, listen |-> {}] \in StatefulSets
      BY DEF StatefulSets
    <2>5. (s.mode = "tun") \in BOOLEAN
      OBVIOUS
    <2> QED
      BY <2>1, <2>2, <2>3, <2>4, <2>5 DEF build_proxy_statefulset
  <1> QED
    BY <1>1, <1>2, <1>3

-----------------------------------------------------------------------------
(* What a call does to the objects. *)
Fits(p, content) ==
    /\ p \in Rbac \cup Secrets => content \in {"present", None}
    /\ p = "service" => content = None \/ content \in Services
    /\ p = "policy" => content = None \/ content \in Policies
    /\ p = "sts" => content = None \/ content \in StatefulSets

Makes(c, p, content) ==
    /\ c \in Rbac \cup Secrets => p = c /\ content = "present"
    /\ c = "service" => p = "service" /\ Endpoint(content, obj)
    /\ c = "serve" => p = "serve" /\ content # None
    /\ c = "consumers" => p = "policy" /\ Admitting(content, obj)
    /\ p = "service" => c \in {"shape", "service"}
    /\ p = "serve" => c \in {"serve", "dropServe"}
    /\ p = "policy" => c \in {"consumers", "dropPolicy"}
    /\ p \in Rbac => c = p
    /\ p = "sts" => c = "sts"

LEMMA ServiceCall ==
    ASSUME Making, ApplyService
    PROVE  \E content : /\ Only("service", content)
                        /\ content \in Services
                        /\ Endpoint(content, obj)
  <1>1. obj \in Specs /\ IsSpec(obj)
    <2>1. plan # <<>> /\ plan \in Seq(Calls) /\ Head(plan) = "service"
      BY DEF ApplyService, Call, Making, DataPlaneTypeOK
    <2>2. Ahead(plan, "service")
      BY <2>1, AheadTail
    <2> QED
      BY <2>2, DataPlaneConstants DEF Making, Aimed, Departing
  <1>2. None \notin Services
    BY NoneIsNoObject
  <1>3. \A wanted \in BOOLEAN : Headless(wanted) \in BOOLEAN
    BY DEF Making, DataPlaneTypeOK, Headless, Services
  <1>4. HostNetwork(obj) \in BOOLEAN
    BY <1>1 DEF HostNetwork, IsSpec
  <1>5. (IF obj.shape = "egress" THEN EgressPorts(obj) ELSE {}) \in SUBSET (Nat \X Nat)
    BY <1>1, ServiceTypes
  <1>6. CASE Portless(obj)
    <2> DEFINE content ==
            [headless |-> Headless(HostNetwork(obj)), nodePort |-> None,
             ports |-> IF obj.shape = "egress" THEN EgressPorts(obj) ELSE {}]
    <2>1. content \in Services
      BY <1>3, <1>4, <1>5 DEF Services
    <2>2. Only("service", content)
      BY <1>6 DEF ApplyService, Portless
    <2> QED
      BY <1>2, <1>6, <2>1, <2>2 DEF Endpoint
  <1>7. CASE ~Portless(obj)
    <2>1. PICK n \in NodePorts : Only("service", [headless |-> Headless(FALSE), nodePort |-> n, ports |-> {}])
      BY <1>7 DEF ApplyService, Portless
    <2>2. n # None
      BY DataPlaneConstants
    <2>3. [headless |-> Headless(FALSE), nodePort |-> n, ports |-> {}] \in Services
      BY <1>3 DEF Services
    <2> QED
      BY <1>2, <1>7, <2>1, <2>2, <2>3 DEF Endpoint
  <1> QED
    BY <1>6, <1>7

LEMMA CallContents ==
    ASSUME Making, ObjectCall
    PROVE  \E p \in Pieces : \E content :
               Only(p, content) /\ Fits(p, content) /\ Makes(Head(plan), p, content)
  <1> USE DEF Pieces, Rbac, Secrets, Fits, Makes
  <1>1. /\ plan # <<>> /\ plan \in Seq(Calls)
        /\ \A c : Head(plan) = c => Ahead(plan, c)
    BY AheadTail
    DEF Making, DataPlaneTypeOK, ObjectCall, Shape, ApplyService, ApplyPlain, apply_serve_configmap,
        apply_proxy_statefulset, apply_consumer_policy, DropLeftover, Call
  <1>2. Head(plan) \notin Departing => obj \in Specs
    BY <1>1 DEF Making, Aimed
  <1>3. CASE Shape
    <2>1. objs["service"] = None \/ objs["service"] \in Services
      BY DEF Making, DataPlaneTypeOK
    <2> QED
      BY <1>3, <2>1 DEF Shape, Call
  <1>4. CASE ApplyService
    BY <1>4, ServiceCall DEF ApplyService, Call
  <1>5. CASE ApplyPlain
    BY <1>5 DEF ApplyPlain, Call
  <1>6. CASE apply_serve_configmap
    <2>1. obj \in Specs /\ Read /\ Ahead(plan, "serve")
      BY <1>1, <1>2, <1>6 DEF apply_serve_configmap, Call, Departing, Making
    <2>2. ServeConfig(obj, seen.routes) # None
      BY <2>1, NoneIsNoObject DEF Read
    <2> QED
      BY <1>6, <2>2 DEF apply_serve_configmap, Call
  <1>7. CASE apply_proxy_statefulset
    <2>1. obj \in Specs /\ Equipped /\ Ahead(plan, "sts") /\ seen.login \in {"cluster", "public"}
      BY <1>1, <1>2, <1>7 DEF apply_proxy_statefulset, Call, Departing, Making, DataPlaneTypeOK
    <2>2. ~Ahead(plan, "service")
      <3>1. Goes /\ Head(plan) = "sts"
        BY <1>7 DEF apply_proxy_statefulset, Call, Goes, locals
      <3> QED
        BY <3>1, GoesOn DEF Before
    <2>3. objs["service"] \in Services /\ Endpoint(objs["service"], obj)
      BY <2>1, <2>2 DEF Equipped, Endpoint, Making, DataPlaneTypeOK
    <2>4. NodePort \in NodePorts \cup {None} /\ (NodePort = None <=> Portless(obj))
      BY <2>3 DEF NodePort, Endpoint, Services
    <2>5. DesiredStatefulSet(obj, seen.login, NodePort) \in StatefulSets
      BY <2>1, <2>4, StatefulSetTypes
    <2> QED
      BY <1>7, <2>5 DEF apply_proxy_statefulset, Call
  <1>8. CASE apply_consumer_policy
    <2>1. obj \in Specs
      BY <1>2, <1>8 DEF apply_consumer_policy, Call, Departing
    <2>2. build_consumer_policy(obj) \in Policies /\ build_consumer_policy(obj).peers = obj.consumers
      BY <2>1, PolicyTypes
    <2>3. None \notin Policies
      BY NoneIsNoObject
    <2> QED
      BY <1>8, <2>2, <2>3 DEF apply_consumer_policy, Call, Admitting
  <1>9. CASE DropLeftover
    BY <1>9 DEF DropLeftover, Call
  <1> QED
    BY <1>3, <1>4, <1>5, <1>6, <1>7, <1>8, <1>9 DEF ObjectCall

LEMMA OnlyChanges ==
    ASSUME Making, NEW p \in Pieces, NEW content, Only(p, content)
    PROVE  /\ DOMAIN objs' = Pieces
           /\ objs'[p] = content
           /\ \A q \in Pieces : q # p => objs'[q] = objs[q]
  BY DEF Only, Apply, Making, DataPlaneTypeOK

(* What others take away is neither bound nor mounted, nor guards anything. *)
LEMMA LoseChanges ==
    ASSUME Making, Lose
    PROVE  /\ DOMAIN objs' = Pieces
           /\ \E p \in Present \cap {"sts", "key", "state"} :
                /\ objs'[p] = None
                /\ \A q \in Pieces : q # p => objs'[q] = objs[q]
  BY DEF Lose, Apply, Making, DataPlaneTypeOK, Present

LEMMA EquippedNext ==
    ASSUME Making, [Next]_vars
    PROVE  Equipped'
  <1>0. /\ Equipped /\ DOMAIN objs = Pieces
        /\ Rbac \cup {"service", "serve", "sts"} \subseteq Pieces
        /\ {"sts", "key", "state"} \cap (Rbac \cup {"service", "serve"}) = {}
    BY DEF Making, DataPlaneTypeOK, Pieces, Rbac
  <1>1. CASE Begins
    BY <1>1, BeginsWith DEF Provides, Departs, Departing, Equipped, Begins
  <1>2. CASE plan' = <<>>
    BY <1>2, NothingAhead DEF Equipped
  <1>3. CASE UNCHANGED <<plan, obj>> /\ (UNCHANGED objs \/ Lose)
    <2>1. \A p \in Rbac \cup {"service", "serve"} : objs'[p] = objs[p]
      BY <1>0, <1>3, LoseChanges
    <2> QED
      BY <1>0, <1>3, <2>1 DEF Equipped
  <1>4. CASE Goes /\ ObjectCall
    <2>1. UNCHANGED obj
      BY <1>4 DEF Goes
    <2>2. PICK p \in Pieces : \E content :
              Only(p, content) /\ Makes(Head(plan), p, content)
      BY <1>4, CallContents
    <2>3. PICK content : Only(p, content) /\ Makes(Head(plan), p, content)
      BY <2>2
    <2>4. objs'[p] = content /\ \A q \in Pieces : q # p => objs'[q] = objs[q]
      BY <2>3, OnlyChanges
    <2> SUFFICES ASSUME Ahead(plan', "sts")
                 PROVE  /\ \A q \in Rbac : ~Ahead(plan', q) => objs'[q] # None
                        /\ ~Ahead(plan', "service") => Endpoint(objs'["service"], obj)
                        /\ Serves(obj) /\ ~Ahead(plan', "serve") => objs'["serve"] # None
      BY <2>1 DEF Equipped
    <2>5. Ahead(plan, "sts") /\ Head(plan) # "dropServe"
      BY <1>4, GoesOn DEF Before
    <2>6. "present" # None
      BY NoneIsNoObject
    <2>7. ASSUME NEW q \in Rbac, ~Ahead(plan', q) PROVE objs'[q] # None
      <3>1. CASE Head(plan) = q
        BY <2>3, <2>4, <2>6, <3>1 DEF Makes
      <3>2. CASE Head(plan) # q
        <4>1. ~Ahead(plan, q) /\ p # q
          BY <1>4, <2>3, <2>7, <3>2, GoesOn DEF Makes
        <4> QED
          BY <1>0, <2>4, <2>5, <4>1 DEF Equipped
      <3> QED
        BY <3>1, <3>2
    <2>8. ASSUME ~Ahead(plan', "service") PROVE Endpoint(objs'["service"], obj)
      <3>1. Head(plan) # "shape"
        BY <1>4, <2>8, GoesOn
      <3>2. CASE Head(plan) = "service"
        BY <2>3, <2>4, <3>2 DEF Makes
      <3>3. CASE Head(plan) # "service"
        <4>1. ~Ahead(plan, "service") /\ p # "service"
          BY <1>4, <2>3, <2>8, <3>1, <3>3, GoesOn DEF Makes
        <4> QED
          BY <1>0, <2>4, <2>5, <4>1 DEF Equipped
      <3> QED
        BY <3>2, <3>3
    <2>9. ASSUME Serves(obj), ~Ahead(plan', "serve") PROVE objs'["serve"] # None
      <3>1. CASE Head(plan) = "serve"
        BY <2>3, <2>4, <3>1 DEF Makes
      <3>2. CASE Head(plan) # "serve"
        <4>1. ~Ahead(plan, "serve") /\ p # "serve"
          BY <1>4, <2>3, <2>5, <2>9, <3>2, GoesOn DEF Makes
        <4> QED
          BY <1>0, <2>4, <2>5, <2>9, <4>1 DEF Equipped
      <3> QED
        BY <3>1, <3>2
    <2> QED
      BY <2>7, <2>8, <2>9
  <1>5. CASE Goes /\ (Publish \/ sync_egress_dns \/ Release)
    <2>1. UNCHANGED objs /\ Head(plan) \in {"publish", "dns", "release"}
      BY <1>5 DEF Publish, sync_egress_dns, Release, Call
    <2>2. \A c \in Rbac \cup {"service", "serve", "sts"} : Ahead(plan', c) <=> Ahead(plan, c)
      BY <1>5, <2>1, GoesOn DEF Rbac
    <2> QED
      BY <1>0, <1>5, <2>1, <2>2 DEF Equipped, Goes
  <1>6. CASE Goes /\ cleanup_proxy_resources
    <2>1. Head(plan) = "teardown"
      BY <1>6 DEF cleanup_proxy_resources, Call
    <2>2. "sts" \in Before("teardown")
      BY DEF Before, Calls
    <2> QED
      BY <1>6, <2>1, <2>2, GoesOn DEF Equipped
  <1> QED
    BY <1>1, <1>2, <1>3, <1>4, <1>5, <1>6, PlanNext

LEMMA ShieldedNext ==
    ASSUME Making, [Next]_vars
    PROVE  Shielded'
  <1>0. Shielded /\ DOMAIN objs = Pieces /\ "policy" \in Pieces
    BY DEF Making, DataPlaneTypeOK, Pieces
  <1>1. CASE Begins
    BY <1>1, BeginsWith DEF Provides, Departs, Departing, Shielded
  <1>2. CASE plan' = <<>>
    BY <1>2, NothingAhead DEF Shielded
  <1>3. CASE UNCHANGED <<plan, obj>> /\ (UNCHANGED objs \/ Lose)
    <2>1. objs'["policy"] = objs["policy"]
      BY <1>0, <1>3, LoseChanges
    <2> QED
      BY <1>0, <1>3, <2>1 DEF Shielded
  <1>4. CASE Goes /\ ObjectCall
    <2>1. PICK p \in Pieces : \E content :
              Only(p, content) /\ Makes(Head(plan), p, content)
      BY <1>4, CallContents
    <2>2. PICK content : Only(p, content) /\ Makes(Head(plan), p, content)
      BY <2>1
    <2>3. objs'[p] = content /\ \A q \in Pieces : q # p => objs'[q] = objs[q]
      BY <2>2, OnlyChanges
    <2> SUFFICES ASSUME Ahead(plan', "publish"), ~Ahead(plan', "consumers")
                 PROVE  Admitting(objs'["policy"], obj)
      BY <1>4 DEF Shielded, Goes
    <2>4. Ahead(plan, "publish") /\ Head(plan) # "dropPolicy"
      BY <1>4, GoesOn DEF Before
    <2>5. CASE Head(plan) = "consumers"
      BY <2>2, <2>3, <2>5 DEF Makes
    <2>6. CASE Head(plan) # "consumers"
      <3>1. ~Ahead(plan, "consumers") /\ p # "policy"
        BY <1>4, <2>2, <2>4, <2>6, GoesOn DEF Makes
      <3> QED
        BY <1>0, <2>3, <2>4, <3>1 DEF Shielded
    <2> QED
      BY <2>5, <2>6
  <1>5. CASE Goes /\ (Publish \/ sync_egress_dns \/ Release)
    <2>1. UNCHANGED objs /\ Head(plan) \in {"publish", "dns", "release"}
      BY <1>5 DEF Publish, sync_egress_dns, Release, Call
    <2>2. /\ Ahead(plan', "publish") => Ahead(plan, "publish")
          /\ Ahead(plan', "consumers") <=> Ahead(plan, "consumers")
      BY <1>5, <2>1, GoesOn
    <2> QED
      BY <1>0, <1>5, <2>1, <2>2 DEF Shielded, Goes
  <1>6. CASE Goes /\ cleanup_proxy_resources
    <2>1. Head(plan) = "teardown"
      BY <1>6 DEF cleanup_proxy_resources, Call
    <2>2. "publish" \in Before("teardown")
      BY DEF Before, Calls
    <2> QED
      BY <1>6, <2>1, <2>2, GoesOn DEF Shielded
  <1> QED
    BY <1>1, <1>2, <1>3, <1>4, <1>5, <1>6, PlanNext

LEMMA PresentFinite ==
    ASSUME NEW S \in SUBSET Pieces
    PROVE  IsFiniteSet(S) /\ Cardinality(S) \in Nat
  <1>1. \A x, y, z : IsFiniteSet(({x} \cup {y}) \cup {z})
    BY FS_Singleton, FS_Union
  <1>2. Pieces = ((({"serviceAccount"} \cup {"role"}) \cup {"roleBinding"})
                    \cup (({"key"} \cup {"state"}) \cup {"service"}))
                    \cup (({"serve"} \cup {"policy"}) \cup {"sts"})
    BY DEF Pieces, Rbac, Secrets
  <1>3. IsFiniteSet(Pieces)
    BY <1>1, <1>2, FS_Union
  <1> QED
    BY <1>3, FS_Subset, FS_CardinalityType

-----------------------------------------------------------------------------
(* Type correctness. *)

LEMMA NotifiedTypes == queued \in BOOLEAN /\ Notified => queued' \in BOOLEAN
  BY DEF Notified

LEMMA TypesOfCalls ==
    ASSUME Making, [Next]_vars, ObjectCall
    PROVE  DataPlaneTypeOK'
  <1> USE DEF user, locals
  <1>1. PICK p \in Pieces : \E content : Only(p, content) /\ Fits(p, content)
    BY CallContents
  <1>2. PICK content : Only(p, content) /\ Fits(p, content)
    BY <1>1
  <1>3. DOMAIN objs' = Pieces /\ objs'[p] = content /\ \A q \in Pieces : q # p => objs'[q] = objs[q]
    BY <1>2, OnlyChanges
  <1>4. DataPlaneTypeOK
    BY DEF Making
  <1>5. /\ \A q \in Rbac \cup Secrets : objs'[q] \in {"present", None}
        /\ objs'["service"] = None \/ objs'["service"] \in Services
        /\ objs'["policy"] = None \/ objs'["policy"] \in Policies
        /\ objs'["sts"] = None \/ objs'["sts"] \in StatefulSets
    BY <1>2, <1>3, <1>4 DEF Fits, DataPlaneTypeOK, Pieces
  <1>6. UNCHANGED <<user, locals>>
    BY DEF ObjectCall, Shape, ApplyService, ApplyPlain, apply_serve_configmap, apply_proxy_statefulset,
           apply_consumer_policy, DropLeftover, Call
  <1>7. UNCHANGED <<finalizer, published, rewrite, faults>> /\ queued' \in BOOLEAN
    BY <1>2, <1>4, NotifiedTypes DEF Only, DataPlaneTypeOK
  <1>8. plan' \in Seq(Calls)
    BY PlanTyped
  <1> QED
    BY <1>3, <1>4, <1>5, <1>6, <1>7, <1>8 DEF DataPlaneTypeOK

LEMMA TypesNext ==
    ASSUME Making, [Next]_vars
    PROVE  DataPlaneTypeOK'
  <1> USE DEF user, locals
  <1>1. DataPlaneTypeOK /\ plan' \in Seq(Calls)
    BY PlanTyped DEF Making
  <1>2. /\ MaxEdits \in Nat /\ MaxFaults \in Nat
        /\ edits \in 0 .. MaxEdits /\ faults \in 0 .. MaxFaults
    BY <1>1, DataPlaneConstants DEF DataPlaneTypeOK
  <1>3. CASE ObjectCall
    BY <1>3, TypesOfCalls
  <1>4. CASE Refused \/ Served \/ Withdrawn \/ Released
    <2>1. finalizer' \in BOOLEAN /\ queued' \in BOOLEAN
      BY <1>1, <1>4 DEF Refused, Served, Withdrawn, Released, DataPlaneTypeOK
    <2>2. seen'.login \in {"cluster", "public"}
      BY <1>1, <1>4 DEF Refused, Served, Withdrawn, Released, login_url, DataPlaneTypeOK
    <2>3. obj' = parent /\ UNCHANGED <<kind, parent, instance, named, edits, objs, published, rewrite, faults>>
      BY <1>4 DEF Refused, Served, Withdrawn, Released, Begin
    <2> QED
      BY <1>1, <2>1, <2>2, <2>3 DEF DataPlaneTypeOK
  <1>5. CASE Publish \/ sync_egress_dns
    <2>1. HasRewrite \in BOOLEAN
      BY DEF HasRewrite
    <2>2. published' \in BOOLEAN /\ rewrite' \in BOOLEAN /\ queued' \in BOOLEAN
      BY <1>1, <1>5, <2>1 DEF Publish, sync_egress_dns, DataPlaneTypeOK
    <2> QED
      BY <1>1, <1>5, <2>2 DEF Publish, sync_egress_dns, Call, DataPlaneTypeOK
  <1>6. CASE cleanup_proxy_resources
    <2>1. PICK kept \in SUBSET Present :
            /\ Cardinality(kept) <= MaxFaults - faults
            /\ objs' = [p \in Pieces |-> IF p \in kept THEN objs[p] ELSE None]
            /\ faults' = faults + Cardinality(kept)
      BY <1>6 DEF cleanup_proxy_resources
    <2>2. Cardinality(kept) \in Nat
      BY PresentFinite DEF Present
    <2>3. faults' \in 0 .. MaxFaults
      BY <1>2, <2>1, <2>2
    <2>4. queued' \in BOOLEAN
      BY <1>1, <1>6, NotifiedTypes DEF cleanup_proxy_resources, DataPlaneTypeOK
    <2>5. /\ DOMAIN objs' = Pieces
          /\ \A q \in Rbac \cup Secrets : objs'[q] \in {"present", None}
          /\ objs'["service"] = None \/ objs'["service"] \in Services
          /\ objs'["policy"] = None \/ objs'["policy"] \in Policies
          /\ objs'["sts"] = None \/ objs'["sts"] \in StatefulSets
      BY <1>1, <2>1 DEF DataPlaneTypeOK, Pieces
    <2>6. UNCHANGED <<user, locals, finalizer, published, rewrite>>
      BY <1>6 DEF cleanup_proxy_resources, Call
    <2> QED
      BY <1>1, <2>3, <2>4, <2>5, <2>6 DEF DataPlaneTypeOK
  <1>7. CASE Release
    <2>1. published' \in BOOLEAN /\ parent' \in Specs \cup Gone
      BY <1>1, <1>7 DEF Release, Gone, DataPlaneTypeOK
    <2> QED
      BY <1>1, <1>7, <2>1 DEF Release, DataPlaneTypeOK
  <1>8. CASE Fail
    BY <1>1, <1>2, <1>8 DEF Fail, DataPlaneTypeOK
  <1>9. CASE EditParent \/ RemoveParent \/ EditInstance \/ EditBackends
    <2>1. PICK p \in Specs \cup Gone, i \in Instances, up \in BOOLEAN, event \in BOOLEAN : Edit(p, i, up, event)
      BY <1>1, <1>9 DEF EditParent, RemoveParent, EditInstance, EditBackends, Gone, DataPlaneTypeOK
    <2>2. published' \in BOOLEAN
      BY <1>1, <1>9 DEF EditParent, RemoveParent, EditInstance, EditBackends, DataPlaneTypeOK
    <2>3. queued' \in BOOLEAN /\ edits' \in 0 .. MaxEdits
      BY <1>1, <1>2, <2>1 DEF Edit, DataPlaneTypeOK
    <2> QED
      BY <1>1, <2>1, <2>2, <2>3 DEF Edit, DataPlaneTypeOK
  <1>10. CASE Lose
    <2>1. /\ DOMAIN objs' = Pieces
          /\ \A q \in Pieces : objs'[q] = objs[q] \/ objs'[q] = None
      BY <1>10, LoseChanges DEF Present
    <2>2. queued' \in BOOLEAN
      BY <1>1, <1>10, NotifiedTypes DEF Lose, DataPlaneTypeOK
    <2>3. faults' \in 0 .. MaxFaults
      BY <1>2, <1>10 DEF Lose
    <2>4. /\ \A q \in Rbac \cup Secrets : objs'[q] \in {"present", None}
          /\ objs'["service"] = None \/ objs'["service"] \in Services
          /\ objs'["policy"] = None \/ objs'["policy"] \in Policies
          /\ objs'["sts"] = None \/ objs'["sts"] \in StatefulSets
      BY <1>1, <2>1 DEF DataPlaneTypeOK, Pieces
    <2> QED
      BY <1>1, <1>10, <2>1, <2>2, <2>3, <2>4 DEF Lose, DataPlaneTypeOK
  <1>11. CASE UNCHANGED vars
    BY <1>1, <1>11 DEF vars, DataPlaneTypeOK
  <1> QED
    BY <1>3, <1>4, <1>5, <1>6, <1>7, <1>8, <1>9, <1>10, <1>11 DEF Next, Reconcile, ObjectCall

LEMMA MakingNext == Making /\ [Next]_vars => Making'
  BY PlanTyped, TypesNext, AimedNext, OwnedNext, ReadNext, EquippedNext, ShieldedNext DEF Making

(* Every variable keeps its type; so no proxy on the host's network ever has a TUN
   device, and every other one that is to be dialled advertises a node port. *)
THEOREM DataPlaneTypes == Spec => []DataPlaneTypeOK
  <1>1. Making => DataPlaneTypeOK
    BY DEF Making
  <1> QED
    BY <1>1, MakingInit, MakingNext, PTL DEF Spec

-----------------------------------------------------------------------------
(* The order of the calls. *)

LEMMA StartNext ==
    ASSUME Making, [Next]_vars, objs["sts"] = None, objs'["sts"] # None
    PROVE  /\ Rbac \cup {"service"} \subseteq Present
           /\ objs'["sts"].flavor = "serve" => objs["serve"] # None
  <1>0. /\ DataPlaneTypeOK /\ Equipped /\ Rbac \cup {"service", "sts", "serve"} \subseteq Pieces
    BY DEF Making, Pieces
  <1>1. apply_proxy_statefulset
    <2>1. CASE Goes /\ ObjectCall
      <3>1. PICK p \in Pieces : \E content : Only(p, content) /\ Makes(Head(plan), p, content)
        BY <2>1, CallContents
      <3>2. p = "sts"
        BY <1>0, <3>1, OnlyChanges
      <3>3. Head(plan) = "sts"
        BY <3>1, <3>2 DEF Makes
      <3> QED
        BY <2>1, <3>3
        DEF ObjectCall, Shape, ApplyService, ApplyPlain, apply_serve_configmap, apply_consumer_policy,
            DropLeftover, Call, Rbac, Secrets
    <2>2. CASE Goes /\ (Publish \/ sync_egress_dns \/ Release)
      BY <2>2 DEF Publish, sync_egress_dns, Release
    <2>3. CASE cleanup_proxy_resources
      BY <1>0, <2>3 DEF cleanup_proxy_resources
    <2>4. CASE Lose
      BY <1>0, <2>4, LoseChanges
    <2> QED
      BY <2>1, <2>2, <2>3, <2>4, PlanNext DEF Begins
  <1>2. Goes /\ Head(plan) = "sts"
    BY <1>1 DEF apply_proxy_statefulset, Call, Goes, locals
  <1>3. Ahead(plan, "sts") /\ \A c \in Rbac \cup {"service", "serve"} : ~Ahead(plan, c)
    BY <1>2, GoesOn DEF Before, Rbac
  <1>4. (\A p \in Rbac : objs[p] # None) /\ Endpoint(objs["service"], obj) /\ (Serves(obj) => objs["serve"] # None)
    BY <1>0, <1>3 DEF Equipped
  <1>5. objs'["sts"].flavor = "serve" => Serves(obj)
    <2>1. obj \in Specs
      BY <1>3 DEF Making, Aimed, Departing
    <2>2. NodePort \in NodePorts \cup {None} /\ (NodePort = None <=> Portless(obj))
      BY <1>0, <1>4 DEF NodePort, Endpoint, Services, DataPlaneTypeOK
    <2>3. objs'["sts"] = DesiredStatefulSet(obj, seen.login, NodePort)
      BY <1>0, <1>1, OnlyChanges DEF apply_proxy_statefulset
    <2> QED
      BY <1>0, <2>1, <2>2, <2>3, StatefulSetTypes DEF DataPlaneTypeOK
  <1> QED
    BY <1>0, <1>4, <1>5 DEF Present, Endpoint

(* A proxy is started only after all that its pod mounts or is bound to, whatever
   shape the parent had before and whoever deletes objects behind our back. *)
THEOREM AlwaysStartsEquipped == Spec => StartsEquipped
  <1>1. Making /\ [Next]_vars =>
            [objs["sts"] = None /\ objs'["sts"] # None =>
                /\ Rbac \cup {"service"} \subseteq Present
                /\ objs'["sts"].flavor = "serve" => objs["serve"] # None]_vars
    BY StartNext
  <1> QED
    BY <1>1, MakingInit, MakingNext, PTL DEF Spec, StartsEquipped

LEMMA PublishNext ==
    ASSUME Making, [Next]_vars, ~published, published'
    PROVE  Admitting(objs["policy"], obj)
  <1> USE DEF user, locals
  <1>1. Publish
    <2>1. CASE ObjectCall
      <3>1. UNCHANGED published
        BY <2>1, CallContents DEF Only
      <3> QED
        BY <3>1
    <2>2. CASE Reconcile /\ ~ObjectCall /\ ~Publish
      BY <2>2
      DEF ObjectCall, Reconcile, Refused, Served, Withdrawn, Released, Begin, sync_egress_dns,
          cleanup_proxy_resources, Release
    <2>3. CASE ~Reconcile
      BY <2>3 DEF Next, Fail, EditParent, RemoveParent, EditInstance, EditBackends, Edit, Lose, vars
    <2> QED
      BY <2>1, <2>2, <2>3
  <1>2. Goes /\ Head(plan) = "publish"
    BY <1>1 DEF Publish, Call, Goes
  <1>3. Ahead(plan, "publish") /\ ~Ahead(plan, "consumers")
    BY <1>2, GoesOn DEF Before
  <1> QED
    BY <1>3 DEF Making, Shielded

(* The Service is led to an egress proxy when only its consumers are let in. *)
THEOREM AlwaysPublishedGuarded == Spec => PublishedGuarded
  <1>1. Making /\ [Next]_vars =>
            [~published /\ published' =>
                /\ objs["policy"] = None <=> obj.consumers = {}
                /\ objs["policy"] # None => objs["policy"].peers = obj.consumers]_vars
    BY PublishNext DEF Admitting
  <1> QED
    BY <1>1, MakingInit, MakingNext, PTL DEF Spec, PublishedGuarded

-----------------------------------------------------------------------------
(* What is left behind.  Faults count the objects that a failed delete kept. *)
Few == Cardinality(Present) <= faults

(* A reconcile that is about to release has torn down. *)
Torn == Ahead(plan, "release") /\ ~Ahead(plan, "teardown") => Few

Leftovers == Making /\ Torn /\ NothingUnowned

LEMMA LeftoversInit == Init => Leftovers
  <1> SUFFICES ASSUME Init PROVE Torn /\ NothingUnowned
    BY MakingInit DEF Leftovers
  <1>1. Present = {}
    BY DEF Init, Nothing, Present
  <1> QED
    BY <1>1, FS_EmptySet, NothingAhead DEF Init, Torn, Few, NothingUnowned

LEMMA ObjectCallMakes ==
    ASSUME Making, [Next]_vars, ObjectCall
    PROVE  Goes /\ Head(plan) \in Calls \ Departing
  <1> USE DEF user, locals
  <1>1. Goes
    BY DEF ObjectCall, Shape, ApplyService, ApplyPlain, apply_serve_configmap,
           apply_proxy_statefulset, apply_consumer_policy, DropLeftover, Call, Goes
  <1>2. Head(plan) \notin Departing
    BY DEF ObjectCall, Shape, ApplyService, ApplyPlain, apply_serve_configmap,
           apply_proxy_statefulset, apply_consumer_policy, DropLeftover, Call, Departing, Rbac, Secrets
  <1> QED
    BY <1>1, <1>2, GoesOn

(* Only such a call makes an object. *)
LEMMA FewerNext ==
    ASSUME Making, [Next]_vars, ~ObjectCall
    PROVE  /\ cleanup_proxy_resources => Few'
           /\ Few => Few'
  <1> USE DEF user, locals
  <1>1. /\ DOMAIN objs = Pieces /\ faults \in Nat
        /\ IsFiniteSet(Present) /\ Cardinality(Present) \in Nat
    BY PresentFinite, DataPlaneConstants DEF Making, DataPlaneTypeOK, Present
  <1>2. CASE cleanup_proxy_resources
    <2>1. PICK kept \in SUBSET Present :
            /\ objs' = [p \in Pieces |-> IF p \in kept THEN objs[p] ELSE None]
            /\ faults' = faults + Cardinality(kept)
      BY <1>2 DEF cleanup_proxy_resources
    <2>2. Present' = kept
      BY <2>1 DEF Present
    <2>3. Cardinality(kept) \in Nat
      BY PresentFinite DEF Present
    <2> QED
      BY <1>1, <2>1, <2>2, <2>3 DEF Few
  <1>3. CASE Lose
    <2>1. Present' \in SUBSET Present
      BY <1>3, LoseChanges DEF Present
    <2>2. Cardinality(Present') \in Nat /\ Cardinality(Present') <= Cardinality(Present)
      BY <1>1, <2>1, FS_Subset, FS_CardinalityType
    <2>3. faults' = faults + 1
      BY <1>3 DEF Lose
    <2>4. ~cleanup_proxy_resources
      BY <1>3 DEF Lose, cleanup_proxy_resources, Call
    <2> QED
      BY <1>1, <2>2, <2>3, <1>2 DEF Few
  <1>4. CASE ~cleanup_proxy_resources /\ ~Lose
    <2>1. UNCHANGED objs
      BY <1>4
      DEF ObjectCall, Next, Reconcile, Refused, Served, Withdrawn, Released, Begin, Publish,
          sync_egress_dns, Release, Fail, EditParent, RemoveParent, EditInstance, EditBackends,
          Edit, vars
    <2>2. faults' \in {faults, faults + 1}
      BY <1>4
      DEF ObjectCall, Next, Reconcile, Refused, Served, Withdrawn, Released, Begin, Publish,
          sync_egress_dns, Release, Fail, EditParent, RemoveParent, EditInstance, EditBackends,
          Edit, vars
    <2>3. Present' = Present
      BY <2>1 DEF Present
    <2> QED
      BY <1>1, <1>4, <2>2, <2>3 DEF Few
  <1> QED
    BY <1>2, <1>3, <1>4

LEMMA TornNext ==
    ASSUME Making, Torn, [Next]_vars
    PROVE  Torn'
  <1>1. CASE Begins
    BY <1>1, BeginsWith DEF Provides, Departs, Torn
  <1>2. CASE plan' = <<>>
    BY <1>2, NothingAhead DEF Torn
  <1>3. CASE UNCHANGED plan
    <2>1. ~ObjectCall
      <3>1. SUFFICES ASSUME ObjectCall PROVE FALSE
        OBVIOUS
      <3>2. plan \in Seq(Calls) /\ plan # <<>> /\ plan = Tail(plan)
        BY <1>3, <3>1, ObjectCallMakes DEF Goes, Making, DataPlaneTypeOK
      <3> QED
        BY <3>2, TailShorter
    <2> QED
      BY <1>3, <2>1, FewerNext DEF Torn
  <1>4. CASE Goes
    <2> SUFFICES ASSUME Ahead(plan', "release"), ~Ahead(plan', "teardown") PROVE Few'
      BY DEF Torn
    <2>1. Ahead(plan, "release") /\ Ahead(plan, Head(plan))
      BY <1>4, GoesOn
    <2>2. Head(plan) \in Departing
      BY <2>1 DEF Making, Leaving
    <2>3. ~ObjectCall
      BY <2>2, ObjectCallMakes
    <2>4. CASE Head(plan) = "teardown"
      <3>1. cleanup_proxy_resources
        <4>1. ~Publish /\ ~sync_egress_dns /\ ~Release
          BY <2>4 DEF Publish, sync_egress_dns, Release, Call
        <4>2. plan' # <<>>
          BY NothingAhead
        <4>3. plan' # plan
          <5>1. plan \in Seq(Calls) /\ plan # <<>> /\ plan' = Tail(plan)
            BY <1>4 DEF Goes, Making, DataPlaneTypeOK
          <5> QED
            BY <5>1, TailShorter
        <4>4. ~Begins
          BY <1>4 DEF Begins, Goes
        <4> QED
          BY <2>3, <4>1, <4>2, <4>3, <4>4, PlanNext
      <3> QED
        BY <2>3, <3>1, FewerNext
    <2>5. CASE Head(plan) # "teardown"
      <3>1. ~Ahead(plan, "teardown")
        BY <1>4, <2>5, GoesOn
      <3> QED
        BY <2>1, <2>3, <3>1, FewerNext DEF Torn
    <2> QED
      BY <2>4, <2>5
  <1> QED
    BY <1>1, <1>2, <1>3, <1>4, PlanNext

LEMMA UnownedNext ==
    ASSUME Making, Torn, NothingUnowned, [Next]_vars
    PROVE  NothingUnowned'
  <1> USE DEF user, locals
  <1>1. SUFFICES ASSUME ~finalizer' PROVE Few'
    BY DEF NothingUnowned, Few
  <1>2. CASE Release
    <2>1. Goes /\ Head(plan) = "release"
      BY <1>2 DEF Release, Goes
    <2>2. Ahead(plan, "release") /\ ~Ahead(plan, "teardown")
      <3>1. "teardown" \in Before("release")
        BY DEF Before, Calls
      <3> QED
        BY <2>1, <3>1, GoesOn
    <2>3. ~ObjectCall
      BY <2>1, ObjectCallMakes DEF Departing
    <2> QED
      BY <2>2, <2>3, FewerNext DEF Torn
  <1>3. CASE ~Release
    <2>1. ObjectCall => UNCHANGED finalizer
      BY CallContents DEF Only
    <2>2. ~ObjectCall => finalizer' \/ UNCHANGED finalizer
      BY <1>3
      DEF ObjectCall, Next, Reconcile, Refused, Served, Withdrawn, Released, Begin, Publish,
          sync_egress_dns, cleanup_proxy_resources, Fail, EditParent, RemoveParent, EditInstance,
          EditBackends, Edit, Lose, vars
    <2>3. ~finalizer
      BY <1>1, <2>1, <2>2
    <2>4. ~ObjectCall
      <3>1. SUFFICES ASSUME ObjectCall PROVE FALSE
        OBVIOUS
      <3>2. Goes /\ Head(plan) \notin Departing
        BY <3>1, ObjectCallMakes
      <3>3. Head(plan) = "dns"
        BY <2>3, <3>2, GoesOn DEF Making, Owned
      <3> QED
        BY <3>2, <3>3 DEF Departing
    <2> QED
      BY <2>3, <2>4, FewerNext DEF NothingUnowned, Few
  <1> QED
    BY <1>2, <1>3

(* An object without an owner is one that a failed delete kept: the finalizer goes
   only after the teardown, and what goes on without it makes nothing. *)
THEOREM AlwaysOwned == Spec => []NothingUnowned
  <1>1. Leftovers /\ [Next]_vars => Leftovers'
    BY MakingNext, TornNext, UnownedNext DEF Leftovers
  <1>2. Leftovers => NothingUnowned
    BY DEF Leftovers
  <1> QED
    BY <1>1, <1>2, LeftoversInit, PTL DEF Spec

-----------------------------------------------------------------------------
(* What is built as the builders say delivers what the parent declares. *)

LEMMA Largest ==
    ASSUME NEW n \in Nat, NEW T \in SUBSET (1 .. n), T # {}
    PROVE  \E x \in T : \A y \in T : y <= x
  <1> DEFINE Above(x) == {y \in T : y > x}
             Family == {Above(x) : x \in T}
  <1>1. IsFiniteSet(1 .. n)
    BY FS_Interval
  <1>2. Family \subseteq FiniteSubsetsOf(1 .. n) /\ Family # {}
    <2>1. \A x \in T : Above(x) \subseteq 1 .. n /\ IsFiniteSet(Above(x))
      BY <1>1, FS_Subset
    <2> QED
      BY <2>1 DEF FiniteSubsetsOf
  <1>3. PICK least \in Family : \A other \in Family :
            ~(<<other, least>> \in StrictSubsetOrdering(1 .. n))
    <2>1. IsWellFoundedOn(StrictSubsetOrdering(1 .. n), FiniteSubsetsOf(1 .. n))
      BY FS_StrictSubsetOrderingWellFounded
    <2> HIDE DEF Family
    <2> QED
      BY <1>2, <2>1, WFMin
  <1>4. PICK x \in T : least = Above(x)
    OBVIOUS
  <1>5. x \in Nat /\ \A y \in T : y \in Nat
    OBVIOUS
  <1>6. ASSUME NEW y \in T, y > x PROVE FALSE
    <2>1. Above(y) \in Family
      OBVIOUS
    <2>2. Above(y) \subseteq Above(x) /\ y \in Above(x) /\ y \notin Above(y)
      <3>1. \A z \in T : z > y => z > x
        BY <1>5, <1>6
      <3>2. ~(y > y)
        BY <1>5
      <3> QED
        BY <1>6, <3>1, <3>2
    <2>3. <<Above(y), Above(x)>> \in StrictSubsetOrdering(1 .. n)
      BY <2>2 DEF StrictSubsetOrdering
    <2> QED
      BY <1>3, <1>4, <2>1, <2>3
  <1> QED
    BY <1>5, <1>6

(* Each port of an egress has one listener, which leads to its backend. *)
LEMMA PortsForwarded ==
    ASSUME NEW s \in Specs,
           objs["service"].ports = EgressPorts(s),
           objs["sts"].listen = {<<f.listen, f.backend>> : f \in collect_tcp_forwards(s)},
           s.consumers # {} => objs["policy"].ports = {f.listen : f \in collect_tcp_forwards(s)}
    PROVE  Forwarded(s)
  <1> SUFFICES ASSUME NEW i \in DOMAIN s.ports, s.ports[i].tcp
               PROVE  /\ \E link \in objs["service"].ports :
                            /\ link[1] = s.ports[i].port
                            /\ <<link[2], Target(s.ports[i])>> \in objs["sts"].listen
                            /\ s.consumers # {} => link[2] \in objs["policy"].ports
                      /\ Cardinality({l \in objs["service"].ports : l[1] = s.ports[i].port}) = 1
    BY DEF Forwarded
  <1> DEFINE f == [port |-> s.ports[i].port, backend |-> Target(s.ports[i]), listen |-> ListenPort(s, i)]
             link == <<f.port, f.listen>>
  <1>1. i \in TcpPorts(s) /\ f \in collect_tcp_forwards(s)
    BY DEF TcpPorts, collect_tcp_forwards, Target
  <1>2. /\ link \in objs["service"].ports
        /\ <<link[2], Target(s.ports[i])>> \in objs["sts"].listen
        /\ s.consumers # {} => link[2] \in objs["policy"].ports
    BY <1>1 DEF EgressPorts
  <1>3. {l \in objs["service"].ports : l[1] = s.ports[i].port} = {link}
    <2>1. ASSUME NEW l \in EgressPorts(s), l[1] = s.ports[i].port PROVE l = link
      <3>1. PICK j \in TcpPorts(s) : l = <<s.ports[j].port, ListenPort(s, j)>>
        BY <2>1 DEF EgressPorts, collect_tcp_forwards
      <3>2. j = i
        BY <1>1, <2>1, <3>1, DataPlaneConstants DEF IsSpec
      <3> QED
        BY <3>1, <3>2
    <2> QED
      BY <1>2, <2>1
  <1>4. Cardinality({link}) = 1
    BY FS_Singleton
  <1> QED
    BY <1>2, <1>3, <1>4

(* Each path has a backend declared for it, and no other. *)
LEMMA RoutesServed ==
    ASSUME NEW s \in Specs, NEW up \in BOOLEAN, Resolved(s, up) # {},
           objs["serve"] = collect_ingress_routes(s, up)
    PROVE  PathsServed(s)
  <1>1. s.routes \in Seq(Routes) /\ Len(s.routes) \in Nat /\ DOMAIN s.routes = 1 .. Len(s.routes)
    BY DataPlaneConstants DEF IsSpec
  <1> DEFINE Latest(j) == \A k \in Resolved(s, up) : s.routes[k].path = s.routes[j].path => k <= j
  <1>2. Resolved(s, up) \subseteq 1 .. Len(s.routes)
    BY <1>1 DEF Resolved
  <1>3. \A h : h \in objs["serve"] <=>
            \E j \in Resolved(s, up) : Latest(j) /\ h = <<s.routes[j].path, s.routes[j].backend>>
    BY DEF collect_ingress_routes
  <1>4. ASSUME NEW i \in DOMAIN s.routes, ~(s.routes[i].named /\ \E j \in DOMAIN s.routes : ~s.routes[j].named)
        PROVE  \E h \in objs["serve"] : h[1] = s.routes[i].path
    <2>1. i \in Resolved(s, up)
      BY <1>4 DEF Resolved
    <2> DEFINE T == {k \in Resolved(s, up) : s.routes[k].path = s.routes[i].path}
    <2>2. T \in SUBSET (1 .. Len(s.routes)) /\ T # {}
      BY <1>2, <2>1
    <2>3. PICK j \in T : \A k \in T : k <= j
      BY <1>1, <2>2, Largest
    <2>4. <<s.routes[j].path, s.routes[j].backend>> \in objs["serve"]
      BY <1>3, <2>3
    <2> QED
      BY <2>3, <2>4
  <1>5. ASSUME NEW h \in objs["serve"]
        PROVE  \E i \in DOMAIN s.routes : h = <<s.routes[i].path, s.routes[i].backend>>
    BY <1>1, <1>2, <1>3
  <1>6. ASSUME NEW g \in objs["serve"], NEW h \in objs["serve"], g[1] = h[1] PROVE g = h
    <2>1. PICK i \in Resolved(s, up) : Latest(i) /\ g = <<s.routes[i].path, s.routes[i].backend>>
      BY <1>3
    <2>2. PICK j \in Resolved(s, up) : Latest(j) /\ h = <<s.routes[j].path, s.routes[j].backend>>
      BY <1>3
    <2>3. i <= j /\ j <= i /\ i \in Nat /\ j \in Nat
      BY <1>1, <1>2, <1>6, <2>1, <2>2
    <2> QED
      BY <2>1, <2>2, <2>3
  <1> QED
    BY <1>4, <1>5, <1>6 DEF PathsServed

LEMMA ExposedServed ==
    ASSUME NEW s \in Specs, objs["serve"] = build_expose_serve_json(s)
    PROVE  PortsServed(s)
  BY DEF PortsServed, build_expose_serve_json, collect_expose_tcp_ports, TcpPorts

-----------------------------------------------------------------------------
(* At rest.  Nobody comes back for the parent before something changes. *)
Quiet == plan = <<>> /\ ~queued

(* The parent passes the gates, whichever of its backends are there. *)
MayServe(s) ==
    /\ s \in Specs
    /\ s.annotation # "unparsable"
    /\ ~Unservable(s)
    /\ instance \notin {"excluded", "unready"}
    /\ s.shape = "ingress" => s.annotation # "fromNobody" /\ s.routes # <<>>

(* What was read is what is there. *)
Current ==
    /\ obj = parent
    /\ seen.login = login_url(instance)
    /\ parent.shape = "ingress" =>
         \E up \in BOOLEAN : Resolved(parent, up) # {} /\ seen.routes = collect_ingress_routes(parent, up)

(* What a call leaves that provides for the parent. *)
Result(c) ==
    CASE c = "shape" -> objs["service"] = None \/ objs["service"].headless = HostNetwork(obj)
      [] c = "service" ->
           /\ Endpoint(objs["service"], obj)
           /\ IF obj.shape = "egress" THEN objs["service"].ports = EgressPorts(obj)
              ELSE objs["service"].headless = HostNetwork(obj)
      [] c = "serve" -> objs["serve"] = ServeConfig(obj, seen.routes)
      [] c = "sts" -> objs["sts"] = DesiredStatefulSet(obj, seen.login, objs["service"].nodePort)
      [] c = "consumers" ->
           objs["policy"] = IF obj.consumers = {} THEN None ELSE build_consumer_policy(obj)
      [] c = "dropServe" -> objs["serve"] = None
      [] c = "dropPolicy" -> objs["policy"] = None
      [] c = "publish" -> published
      [] c = "dns" -> rewrite
      [] OTHER -> TRUE

(* The reconcile under way provides for what it began with, and what it has done
   holds. *)
OnCourse ==
    /\ \A c : Ahead(plan, c) => c \in Ours(obj)
    /\ Ahead(plan, "service") => Ahead(plan, "sts")
    /\ \A c \in Ours(obj) : ~Ahead(plan, c) => Result(c)

Following == ~queued /\ MayServe(parent) => Current /\ OnCourse

LEMMA DeliversWhenDone ==
    ASSUME NEW s \in Specs, s = parent, s = obj, Current, DataPlaneTypeOK,
           \A c \in Ours(s) : Result(c)
    PROVE  objs["sts"] # None /\ objs["sts"].login = login_url(instance) /\ Delivers(s)
  <1> DEFINE port == objs["service"].nodePort
  <1>0. /\ IsSpec(s) /\ s.shape \in {"ingress", "exposed", "egress"} /\ s.mode \in {"tsnet", "tun"}
        /\ s.host \in BOOLEAN
    BY DataPlaneConstants DEF IsSpec
  <1>1. {"service", "sts"} \subseteq Ours(s)
    BY DEF Ours
  <1>2. /\ Endpoint(objs["service"], s)
        /\ IF s.shape = "egress" THEN objs["service"].ports = EgressPorts(s)
           ELSE objs["service"].headless = HostNetwork(s)
    BY <1>1 DEF Result
  <1>3. objs["sts"] = DesiredStatefulSet(s, seen.login, port)
    BY <1>1 DEF Result
  <1>4. port \in NodePorts \cup {None} /\ (port = None <=> Portless(s)) /\ objs["service"] # None
    BY <1>2 DEF Endpoint, DataPlaneTypeOK, Services
  <1>5. objs["sts"] # None
    <2>1. seen.login \in {"cluster", "public"}
      BY DEF DataPlaneTypeOK
    <2>2. DesiredStatefulSet(s, seen.login, port) \in StatefulSets
      BY <1>4, <2>1, StatefulSetTypes
    <2> QED
      BY <1>3, <2>2, NoneIsNoObject
  <1>6. objs["sts"].login = login_url(instance)
    BY <1>3
    DEF Current, DesiredStatefulSet, build_egress_statefulset, build_tun_statefulset, build_proxy_statefulset
  <1>7. CASE s.shape = "egress"
    <2>1. objs["sts"] = build_egress_statefulset(s, seen.login)
      BY <1>3, <1>7 DEF DesiredStatefulSet
    <2>2. {"publish", "consumers", "dns"} \subseteq Ours(s)
      BY <1>7 DEF Ours
    <2>3. objs["policy"] = IF s.consumers = {} THEN None ELSE build_consumer_policy(s)
      BY <2>2 DEF Result
    <2>4. published /\ rewrite
      BY <2>2 DEF Result
    <2>5. s.consumers # {} => objs["policy"] # None /\ objs["policy"].peers = s.consumers
      BY <2>3, PolicyTypes, NoneIsNoObject
    <2>6. Forwarded(s)
      BY <1>2, <1>7, <2>1, <2>3, PortsForwarded DEF build_egress_statefulset, build_consumer_policy
    <2>7. objs["sts"].flavor = "egress"
      BY <2>1 DEF build_egress_statefulset
    <2>8. EgressDelivers(s)
      BY <1>4, <1>5, <2>3, <2>4, <2>5, <2>6, <2>7 DEF EgressDelivers
    <2> QED
      BY <1>5, <1>6, <1>7, <2>8 DEF Delivers
  <1>8. CASE s.shape # "egress"
    <2>1. /\ objs["sts"].endpoint = port
          /\ objs["sts"].host = HostNetwork(s)
          /\ objs["sts"].device = (s.mode = "tun")
      <3>1. CASE s.shape = "exposed" /\ s.mode = "tun"
        <4>1. objs["sts"] = build_tun_statefulset(s, seen.login, port)
          BY <1>3, <3>1 DEF DesiredStatefulSet
        <4>2. HostNetwork(s) = FALSE /\ (s.mode = "tun") = TRUE
          BY <3>1 DEF HostNetwork
        <4>3. objs["sts"].endpoint = port /\ objs["sts"].host = FALSE /\ objs["sts"].device = TRUE
          BY <4>1 DEF build_tun_statefulset
        <4> QED
          BY <4>2, <4>3, Zenon
      <3>2. CASE ~(s.shape = "exposed" /\ s.mode = "tun")
        <4>1. objs["sts"] = build_proxy_statefulset(s, seen.login, port)
          BY <1>3, <1>8, <3>2 DEF DesiredStatefulSet
        <4> QED
          BY <4>1 DEF build_proxy_statefulset
      <3> QED
        BY <3>1, <3>2
    <2>2. Reachable(s)
      BY <1>0, <1>2, <1>4, <1>8, <2>1 DEF Reachable, HostNetwork, Portless
    <2>3. s.shape = "exposed" => objs["policy"] = None
      BY DEF Ours, Result
    <2>4. CASE s.shape = "exposed" /\ s.mode = "tun"
      <3>1. "dropServe" \in Ours(s)
        BY <2>4 DEF Ours
      <3>2. objs["serve"] = None
        BY <3>1 DEF Result
      <3>3. objs["sts"].dest = s.ip
        BY <1>3, <2>4 DEF DesiredStatefulSet, build_tun_statefulset
      <3>4. ServesInward(s)
        BY <1>5, <2>1, <2>2, <2>3, <2>4, <3>2, <3>3 DEF ServesInward
      <3> QED
        BY <1>5, <1>6, <1>8, <3>4 DEF Delivers
    <2>5. CASE ~(s.shape = "exposed" /\ s.mode = "tun")
      <3>1. "serve" \in Ours(s)
        BY <1>0, <1>8, <2>5 DEF Ours
      <3>2. objs["serve"] = ServeConfig(s, seen.routes)
        BY <3>1 DEF Result
      <3>3. objs["sts"].flavor = "serve"
        BY <1>3, <1>8, <2>5 DEF DesiredStatefulSet, build_proxy_statefulset
      <3>4. CASE s.shape = "ingress"
        <4>1. PICK up \in BOOLEAN : Resolved(s, up) # {} /\ seen.routes = collect_ingress_routes(s, up)
          BY <3>4 DEF Current
        <4>2. objs["serve"] = collect_ingress_routes(s, up)
          BY <3>2, <3>4, <4>1 DEF ServeConfig, build_serve_json
        <4>3. objs["serve"] # None
          BY <3>2, <4>1, NoneIsNoObject
        <4>4. PathsServed(s)
          BY <4>1, <4>2, RoutesServed
        <4>5. ServesInward(s)
          BY <1>5, <2>1, <2>2, <2>3, <2>5, <3>3, <3>4, <4>3, <4>4 DEF ServesInward
        <4> QED
          BY <1>5, <1>6, <1>8, <4>5 DEF Delivers
      <3>5. CASE s.shape # "ingress"
        <4>1. objs["serve"] = build_expose_serve_json(s)
          BY <3>2, <3>5 DEF ServeConfig
        <4>2. objs["serve"] # None
          BY <3>5, <4>1, NoneIsNoObject DEF ServeConfig
        <4>3. PortsServed(s)
          BY <4>1, ExposedServed
        <4>4. ServesInward(s)
          BY <1>5, <2>1, <2>2, <2>3, <2>5, <3>3, <3>5, <4>2, <4>3 DEF ServesInward
        <4> QED
          BY <1>5, <1>6, <1>8, <4>4 DEF Delivers
      <3> QED
        BY <3>4, <3>5
    <2> QED
      BY <2>4, <2>5
  <1> QED
    BY <1>7, <1>8

(* Who passes the gates. *)
LEMMA Gates ==
    ASSUME parent \in Specs
    PROVE  /\ Verdict(parent) = "serve" =>
                MayServe(parent) /\ (parent.shape = "ingress" => Resolved(parent, named) # {})
           /\ MayServe(parent) => Verdict(parent) \in {"serve", "requeue"} /\ Adopts(parent)
  BY DEF Verdict, IngressVerdict, MayServe, Adopts

(* Who leaves the queue empty. *)
LEMMA QuietNext ==
    ASSUME Making, [Next]_vars, ~queued'
    PROVE  \/ Refused \/ Served \/ Withdrawn \/ Released
           \/ /\ ~queued
              /\ UNCHANGED <<parent, instance>>
              /\ \/ UNCHANGED <<finalizer, obj, seen, plan, objs, published, rewrite, faults>>
                 \/ Goes /\ (ObjectCall \/ Publish \/ sync_egress_dns \/ cleanup_proxy_resources)
  <1> USE DEF user, locals
  <1>1. CASE ObjectCall \/ sync_egress_dns \/ cleanup_proxy_resources
    <2>1. Goes /\ UNCHANGED <<parent, instance>>
      BY <1>1
      DEF ObjectCall, Shape, ApplyService, ApplyPlain, apply_serve_configmap, apply_proxy_statefulset,
          apply_consumer_policy, DropLeftover, sync_egress_dns, cleanup_proxy_resources, Call, Goes
    <2>2. CASE ObjectCall
      BY <2>1, <2>2, CallContents DEF Only, Notified
    <2>3. CASE sync_egress_dns \/ cleanup_proxy_resources
      BY <2>1, <2>3 DEF sync_egress_dns, cleanup_proxy_resources, Notified
    <2> QED
      BY <1>1, <2>1, <2>2, <2>3
  <1>2. CASE Publish
    BY <1>2 DEF Publish, Call, Goes
  <1>3. CASE Release \/ Fail \/ EditParent \/ RemoveParent \/ EditInstance
    BY <1>3 DEF Release, Fail, EditParent, RemoveParent, EditInstance, Edit
  <1>4. CASE EditBackends
    BY <1>4 DEF EditBackends, Edit
  <1>5. CASE Lose
    <2>1. Watched' # Watched
      BY <1>5, LoseChanges DEF Watched, Present, Pieces, Secrets
    <2> QED
      BY <1>5, <2>1 DEF Lose, Notified
  <1>6. CASE UNCHANGED vars
    BY <1>6 DEF vars
  <1> QED
    BY <1>1, <1>2, <1>3, <1>4, <1>5, <1>6 DEF Next, Reconcile, ObjectCall

(* The objects that a result is about. *)
Touched(c) ==
    CASE c \in {"shape", "service"} -> {"service"}
      [] c \in {"serve", "dropServe"} -> {"serve"}
      [] c \in {"consumers", "dropPolicy"} -> {"policy"}
      [] c = "sts" -> {"sts", "service"}
      [] OTHER -> {}

LEMMA ResultKept ==
    ASSUME NEW c, Result(c), UNCHANGED <<obj, seen>>, \A p \in Touched(c) : objs'[p] = objs[p],
           published => published', rewrite => rewrite'
    PROVE  Result(c)'
  BY DEF Result, Touched

LEMMA ServiceMade ==
    ASSUME Making, ApplyService
    PROVE  /\ Endpoint(objs'["service"], obj)
           /\ obj.shape = "egress" => objs'["service"].ports = EgressPorts(obj)
           /\ obj.shape # "egress" /\ Result("shape") => objs'["service"].headless = HostNetwork(obj)
  <1>1. PICK content : Only("service", content) /\ Endpoint(content, obj)
    BY ServiceCall
  <1>2. objs'["service"] = content
    BY <1>1, OnlyChanges DEF Pieces
  <1>3. CASE Portless(obj)
    <2>1. Only("service",
            [headless |-> Headless(HostNetwork(obj)), nodePort |-> None,
             ports |-> IF obj.shape = "egress" THEN EgressPorts(obj) ELSE {}])
      BY <1>3 DEF ApplyService, Portless
    <2>2. objs'["service"] = [headless |-> Headless(HostNetwork(obj)), nodePort |-> None,
                              ports |-> IF obj.shape = "egress" THEN EgressPorts(obj) ELSE {}]
      BY <2>1, OnlyChanges DEF Pieces
    <2> QED
      BY <1>1, <1>2, <2>2 DEF Headless, Result
  <1>4. CASE ~Portless(obj)
    <2>1. PICK n \in NodePorts : Only("service", [headless |-> Headless(FALSE), nodePort |-> n, ports |-> {}])
      BY <1>4 DEF ApplyService, Portless
    <2>2. objs'["service"] = [headless |-> Headless(FALSE), nodePort |-> n, ports |-> {}]
      BY <2>1, OnlyChanges DEF Pieces
    <2>3. HostNetwork(obj) = FALSE
      BY <1>4 DEF Portless, HostNetwork
    <2>4. Headless(FALSE) = Headless(HostNetwork(obj))
      BY <2>3, Zenon
    <2>5. objs'["service"].headless = Headless(HostNetwork(obj))
      <3>1. objs'["service"].headless = Headless(FALSE)
        BY <2>2
      <3> QED
        BY <2>4, <3>1, Zenon
    <2>6. obj.shape # "egress"
      BY <1>4 DEF Portless
    <2> QED
      BY <1>1, <1>2, <2>5, <2>6 DEF Headless, Result
  <1> QED
    BY <1>3, <1>4

LEMMA RewriteMade ==
    ASSUME Making, OnCourse, Goes, sync_egress_dns, obj = parent, MayServe(parent)
    PROVE  rewrite'
  <1>1. Head(plan) = "dns" /\ Head(plan) \in Ours(obj)
    BY GoesOn DEF sync_egress_dns, Call, OnCourse
  <1>2. obj.shape = "egress"
    BY <1>1, DataPlaneConstants DEF MayServe, IsSpec, Ours, Rbac, Secrets
  <1>3. HasRewrite
    BY <1>2 DEF HasRewrite, MayServe, Unservable
  <1> QED
    BY <1>3 DEF sync_egress_dns

(* A call that has been made leaves its result. *)
LEMMA HeadResult ==
    ASSUME Making, OnCourse, Goes, ObjectCall \/ Publish \/ sync_egress_dns,
           obj = parent, MayServe(parent), NEW c, c = Head(plan), ~Ahead(plan', c)
    PROVE  Result(c)'
  <1> USE DEF locals, user
  <1>0. UNCHANGED <<obj, seen>> /\ c \in Ours(obj)
    BY GoesOn DEF Goes, OnCourse
  <1>1. CASE Shape
    <2>1. c = "shape"
      BY <1>1 DEF Shape, Call
    <2>2. objs'["service"] = None \/ objs'["service"].headless = HostNetwork(obj)
      BY <1>1, OnlyChanges DEF Shape, Pieces
    <2> QED
      BY <1>0, <2>1, <2>2 DEF Result
  <1>2. CASE ApplyService
    <2>1. c = "service"
      BY <1>2 DEF ApplyService, Call
    <2>2. obj.shape # "egress" => Result("shape")
      <3>1. ~Ahead(plan, "shape")
        <4>1. ~Ahead(plan', "service") /\ Ordered(plan')
          BY <2>1, GoesOn
        <4>2. ~Ahead(plan', "shape")
          BY <4>1 DEF Ordered, Ahead
        <4> QED
          BY <2>1, <4>2, GoesOn
      <3>2. obj.shape # "egress" => "shape" \in Ours(obj)
        BY DataPlaneConstants DEF MayServe, IsSpec, Ours
      <3> QED
        BY <3>1, <3>2 DEF OnCourse
    <2> QED
      BY <1>0, <1>2, <2>1, <2>2, ServiceMade DEF Result
  <1>3. CASE ApplyPlain
    BY <1>3 DEF ApplyPlain, Call, Result, Secrets, Rbac
  <1>4. CASE apply_serve_configmap
    <2>1. objs'["serve"] = ServeConfig(obj, seen.routes)
      BY <1>4, OnlyChanges DEF apply_serve_configmap, Pieces
    <2> QED
      BY <1>0, <1>4, <2>1 DEF apply_serve_configmap, Call, Result
  <1>5. CASE apply_proxy_statefulset
    <2>1. /\ objs'["sts"] = DesiredStatefulSet(obj, seen.login, NodePort)
          /\ objs'["service"] = objs["service"]
      BY <1>5, OnlyChanges DEF apply_proxy_statefulset, Pieces
    <2>2. c = "sts"
      BY <1>5 DEF apply_proxy_statefulset, Call
    <2>3. objs["service"] # None
      <3>1. ~Ahead(plan, "service") /\ Ahead(plan, "sts")
        BY <2>2, GoesOn DEF Before
      <3> QED
        BY <3>1 DEF Making, Equipped, Endpoint
    <2> QED
      BY <1>0, <2>1, <2>2, <2>3 DEF NodePort, Result
  <1>6. CASE apply_consumer_policy
    <2>1. objs'["policy"] = IF obj.consumers = {} THEN None ELSE build_consumer_policy(obj)
      BY <1>6, OnlyChanges DEF apply_consumer_policy, Pieces
    <2> QED
      BY <1>0, <1>6, <2>1 DEF apply_consumer_policy, Call, Result
  <1>7. CASE DropLeftover
    BY <1>0, <1>7, OnlyChanges DEF DropLeftover, Call, Result, Pieces
  <1>8. CASE Publish
    BY <1>8 DEF Publish, Call, Result
  <1>9. CASE sync_egress_dns
    BY <1>9, RewriteMade DEF sync_egress_dns, Call, Result
  <1> QED
    BY <1>1, <1>2, <1>3, <1>4, <1>5, <1>6, <1>7, <1>8, <1>9 DEF ObjectCall

(* What other calls have left stays: each object has one call to make it, except
   that the Service is made before the StatefulSet which advertises its port. *)
LEMMA OthersKept ==
    ASSUME Making, OnCourse, Goes, ObjectCall \/ Publish \/ sync_egress_dns,
           obj = parent, MayServe(parent), NEW c \in Ours(obj), c # Head(plan), ~Ahead(plan', c)
    PROVE  Result(c)'
  <1> USE DEF locals, user
  <1>0. /\ UNCHANGED <<obj, seen>>
        /\ Ahead(plan, Head(plan)) /\ Head(plan) \in Ours(obj)
        /\ Result(c)
    BY GoesOn DEF Goes, OnCourse
  <1>1. CASE Publish
    BY <1>0, <1>1, ResultKept DEF Publish
  <1>2. CASE sync_egress_dns
    BY <1>0, <1>2, RewriteMade, ResultKept DEF sync_egress_dns
  <1>3. CASE ObjectCall
    <2>0. obj.shape \in {"ingress", "exposed", "egress"}
      BY DataPlaneConstants DEF MayServe, IsSpec
    <2>1. PICK p \in Pieces : \E content : Only(p, content) /\ Makes(Head(plan), p, content)
      BY <1>3, CallContents
    <2>2. PICK content : Only(p, content) /\ Makes(Head(plan), p, content)
      BY <2>1
    <2>3. /\ \A q \in Pieces : q # p => objs'[q] = objs[q]
          /\ UNCHANGED <<published, rewrite>>
      BY <2>2, OnlyChanges DEF Only
    <2>4. Touched(c) \subseteq Pieces
      BY DEF Touched, Pieces
    <2>5. CASE p \notin Touched(c)
      <3>1. \A q \in Touched(c) : objs'[q] = objs[q]
        BY <2>3, <2>4, <2>5
      <3> QED
        BY <1>0, <2>3, <3>1, ResultKept
    <2>6. CASE p \in Touched(c) /\ p = "service"
      <3>1. Head(plan) \in {"shape", "service"} /\ c \in {"shape", "service", "sts"}
        BY <2>2, <2>6 DEF Makes, Touched
      <3>2. Ahead(plan, "service")
        BY <1>0, <3>1, GoesOn
      <3>3. c # "sts"
        BY <3>1, <3>2, GoesOn DEF OnCourse
      <3>4. c # "service"
        BY <3>1, GoesOn
      <3>5. c = "shape" /\ Head(plan) = "service"
        BY <3>1, <3>3, <3>4
      <3>6. ApplyService
        BY <1>3, <3>5
        DEF ObjectCall, Shape, ApplyPlain, apply_serve_configmap, apply_proxy_statefulset,
            apply_consumer_policy, DropLeftover, Call, Rbac, Secrets
      <3>7. obj.shape # "egress"
        BY <3>5 DEF Ours, Rbac, Secrets
      <3> QED
        BY <1>0, <3>5, <3>6, <3>7, ServiceMade DEF Result
    <2>7. CASE p \in Touched(c) /\ p # "service"
      <3>1. \/ Head(plan) \in {"serve", "dropServe"} /\ c \in {"serve", "dropServe"}
            \/ Head(plan) \in {"consumers", "dropPolicy"} /\ c \in {"consumers", "dropPolicy"}
            \/ Head(plan) = "sts" /\ c = "sts"
        BY <2>2, <2>7 DEF Makes, Touched
      <3> QED
        BY <1>0, <2>0, <3>1 DEF Ours, Rbac, Secrets
    <2> QED
      BY <2>5, <2>6, <2>7
  <1> QED
    BY <1>1, <1>2, <1>3

LEMMA FollowingNext ==
    ASSUME Making, Following, [Next]_vars
    PROVE  Following'
  <1> SUFFICES ASSUME ~queued', MayServe(parent)'
               PROVE  Current' /\ OnCourse'
    BY DEF Following
  <1> USE DEF user, locals
  <1>1. CASE Refused \/ Withdrawn \/ Released
    <2>1. UNCHANGED <<parent, instance>>
      BY <1>1 DEF Refused, Withdrawn, Released, Begin
    <2>2. MayServe(parent)
      BY <2>1 DEF MayServe
    <2>3. Verdict(parent) \in {"serve", "requeue"} /\ Adopts(parent) /\ parent \in Specs
      BY <2>2, Gates DEF MayServe
    <2> QED
      BY <1>1, <2>3, DataPlaneConstants DEF Refused, Withdrawn, Released, Gone
  <1>2. CASE Served
    <2>1. parent \in Specs /\ parent' = parent /\ instance' = instance /\ obj' = parent
      BY <1>2 DEF Served, Begin
    <2>2. parent.shape = "ingress" => Resolved(parent, named) # {}
      BY <1>2, <2>1, Gates DEF Served
    <2>3. seen' = [login |-> login_url(instance), routes |-> collect_ingress_routes(parent, named)]
      BY <1>2 DEF Served
    <2>4. Current'
      <3>1. named \in BOOLEAN
        BY DEF Making, DataPlaneTypeOK
      <3> QED
        BY <2>1, <2>2, <2>3, <3>1 DEF Current
    <2>5. Provides(parent, plan')
      <3>1. parent.shape \in {"ingress", "exposed", "egress"} /\ plan' = ApplyPlan(parent)
        BY <1>2, <2>1, DataPlaneConstants DEF Served, IsSpec
      <3> QED
        BY <3>1, IngressPlan, ExposedPlan, EgressPlan
    <2>6. (\A c : Ahead(plan', c) <=> c \in Ours(obj')) /\ Ahead(plan', "sts")
      BY <2>1, <2>5 DEF Provides
    <2> QED
      BY <2>4, <2>6 DEF OnCourse
  <1>3. CASE ~queued /\ UNCHANGED <<parent, instance>>
    <2>1. MayServe(parent)
      BY <1>3 DEF MayServe
    <2>2. Current /\ OnCourse /\ obj = parent
      BY <1>3, <2>1 DEF Following, Current
    <2>3. CASE UNCHANGED <<finalizer, obj, seen, plan, objs, published, rewrite, faults>>
      <3>1. Current'
        BY <1>3, <2>2, <2>3 DEF Current
      <3>2. ASSUME NEW c, Result(c) PROVE Result(c)'
        BY <2>3, <3>2, ResultKept
      <3> QED
        BY <2>2, <2>3, <3>1, <3>2 DEF OnCourse
    <2>4. CASE Goes /\ (ObjectCall \/ Publish \/ sync_egress_dns)
      <3>1. UNCHANGED <<obj, seen>>
        BY <2>4 DEF Goes
      <3>2. Current'
        BY <1>3, <2>2, <3>1 DEF Current
      <3>3. (\A c : Ahead(plan', c) => c \in Ours(obj'))
        BY <2>2, <2>4, <3>1, GoesOn DEF OnCourse
      <3>4. Ahead(plan', "service") => Ahead(plan', "sts")
        <4>1. Head(plan) = "sts" => ~Ahead(plan', "service")
          BY <2>4, GoesOn DEF Before
        <4> QED
          BY <2>2, <2>4, <4>1, GoesOn DEF OnCourse
      <3>5. ASSUME NEW c \in Ours(obj), ~Ahead(plan', c) PROVE Result(c)'
        BY <2>1, <2>2, <2>4, <3>5, HeadResult, OthersKept
      <3> QED
        BY <3>1, <3>2, <3>3, <3>4, <3>5 DEF OnCourse
    <2>5. CASE Goes /\ cleanup_proxy_resources
      <3>1. Head(plan) = "teardown" /\ Head(plan) \in Ours(obj)
        BY <2>2, <2>5, GoesOn DEF cleanup_proxy_resources, Call, OnCourse
      <3>2. obj.shape \in {"ingress", "exposed", "egress"}
        BY <2>1, <2>2, DataPlaneConstants DEF MayServe, IsSpec
      <3> QED
        BY <3>1, <3>2 DEF Ours, Rbac, Secrets
    <2> QED
      BY <1>3, <2>3, <2>4, <2>5, QuietNext DEF Refused, Served, Withdrawn, Released, Begin
  <1> QED
    BY <1>1, <1>2, <1>3, QuietNext

(* Whatever shapes, modes and instances the parent went through, and wherever
   reconciles failed or objects were lost: when nobody is due to come back to it,
   it has what it declares. *)
THEOREM QuietAsDeclared == Spec => [](Quiet => AsDeclared)
  <1>1. Init => Following
    BY DataPlaneConstants DEF Init, Following, MayServe
  <1>2. Making /\ Following => (Quiet => AsDeclared)
    <2> SUFFICES ASSUME Making, Following, Quiet, Servable
                 PROVE  /\ objs["sts"] # None
                        /\ objs["sts"].login = login_url(instance)
                        /\ Delivers(parent)
      BY DEF AsDeclared
    <2>1. parent \in Specs /\ MayServe(parent)
      BY Gates DEF Servable
    <2>2. Current /\ OnCourse /\ \A c : ~Ahead(plan, c)
      BY <2>1, NothingAhead DEF Following, Quiet
    <2>3. obj = parent /\ \A c \in Ours(parent) : Result(c)
      BY <2>2 DEF Current, OnCourse
    <2> QED
      BY <2>1, <2>2, <2>3, DeliversWhenDone DEF Making
  <1> QED
    BY <1>1, <1>2, MakingInit, MakingNext, FollowingNext, PTL DEF Spec

(* The parent is refused, whichever of its backends are there. *)
TurnedAway(s) ==
    /\ s \in Specs
    /\ s.annotation # "unparsable"
    /\ ~Unservable(s)
    /\ \/ instance = "excluded"
       \/ instance # "unready" /\ s.shape = "ingress" /\ s.annotation # "fromNobody" /\ s.routes = <<>>

(* Unless a reconcile is due, the one under way of a parent that is not wanted has
   torn down or is going to; a parent that is being deleted waits for it. *)
Clearing ==
    ~queued /\ (parent \in Gone \/ TurnedAway(parent)) =>
        /\ \A c : Ahead(plan, c) => c \in Departing
        /\ ~Ahead(plan, "teardown") => Few
        /\ parent = Deleted => Ahead(plan, "release")

HeldBack == parent = Deleted => finalizer

LEMMA TurnedAwayGates == Unwelcome <=> TurnedAway(parent)
  <1>1. ASSUME parent \in Specs, ~Unservable(parent), parent.annotation # "unparsable"
        PROVE  Unwelcome <=> TurnedAway(parent)
    <2>1. CASE instance \in {"excluded", "unready"}
      BY <1>1, <2>1 DEF Unwelcome, Verdict, TurnedAway
    <2>2. CASE instance \notin {"excluded", "unready"}
      BY <1>1, <2>2 DEF Unwelcome, Verdict, IngressVerdict, TurnedAway
    <2> QED
      BY <2>1, <2>2
  <1>2. ASSUME Unwelcome PROVE parent \in Specs /\ ~Unservable(parent) /\ parent.annotation # "unparsable"
    BY <1>2 DEF Unwelcome, Verdict
  <1> QED
    BY <1>1, <1>2 DEF TurnedAway

LEMMA DeletedIsApart == Deleted # Unwanted /\ Deleted # None
  <1>1. IsFiniteSet({Unwanted}) /\ Cardinality({Unwanted}) = 1
    BY FS_Singleton
  <1>2. Cardinality({Unwanted} \cup {None}) = 1 \/ Cardinality({Unwanted} \cup {None}) = 2
    BY <1>1, FS_AddElement
  <1>3. {Deleted, Unwanted, None} # {Unwanted} \cup {None}
    BY <1>2, DataPlaneConstants
  <1> QED
    BY <1>3

LEMMA HeldBackNext == HeldBack /\ [Next]_vars => HeldBack'
  <1> SUFFICES ASSUME HeldBack, [Next]_vars, parent' = Deleted
               PROVE  finalizer'
    BY DEF HeldBack
  <1> USE DEF user
  <1>0. Deleted \notin Specs /\ Deleted # Unwanted /\ Deleted # None
    BY DeletedIsApart, DataPlaneConstants
  <1>1. CASE Refused \/ Served \/ Withdrawn \/ Released
    BY <1>0, <1>1 DEF Refused, Served, Withdrawn, Released, Begin, HeldBack
  <1>2. CASE ObjectCall \/ Publish \/ sync_egress_dns \/ cleanup_proxy_resources
    BY <1>2
    DEF ObjectCall, Shape, ApplyService, ApplyPlain, apply_serve_configmap, apply_proxy_statefulset,
        apply_consumer_policy, DropLeftover, Publish, sync_egress_dns, cleanup_proxy_resources,
        Call, Only, HeldBack
  <1>3. CASE Release
    BY <1>0, <1>3 DEF Release
  <1>4. CASE Fail \/ Lose \/ EditInstance \/ EditBackends
    BY <1>4 DEF Fail, Lose, EditInstance, EditBackends, Edit, HeldBack
  <1>5. CASE EditParent \/ RemoveParent
    BY <1>0, <1>5 DEF EditParent, RemoveParent, Edit, HeldBack
  <1>6. CASE UNCHANGED vars
    BY <1>6 DEF vars, HeldBack
  <1> QED
    BY <1>1, <1>2, <1>3, <1>4, <1>5, <1>6 DEF Next, Reconcile, ObjectCall

LEMMA ClearingNext ==
    ASSUME Leftovers, HeldBack, Clearing, [Next]_vars
    PROVE  Clearing'
  <1> SUFFICES ASSUME ~queued', (parent \in Gone \/ TurnedAway(parent))'
               PROVE  /\ \A c : Ahead(plan', c) => c \in Departing
                      /\ ~Ahead(plan', "teardown") => Few'
                      /\ parent' = Deleted => Ahead(plan', "release")
    BY DEF Clearing
  <1> USE DEF user, locals
  <1>0. Making /\ NothingUnowned /\ Specs \cap Gone = {} /\ Deleted \in Gone
    BY DataPlaneConstants DEF Leftovers, Gone
  <1>1. CASE Refused \/ Served \/ Withdrawn \/ Released
    <2>1. UNCHANGED <<parent, instance, objs, faults>>
      BY <1>1 DEF Refused, Served, Withdrawn, Released, Begin
    <2>2. parent \in Gone \/ TurnedAway(parent)
      BY <2>1 DEF TurnedAway
    <2>3. Present' = Present
      BY <2>1 DEF Present
    <2>4. parent \in Specs => parent # Deleted /\ Verdict(parent) \in {"exclude", "noPathRules"}
      BY <1>0, <2>2, TurnedAwayGates DEF Unwelcome
    <2>5. CASE Refused
      <3>1. ~finalizer /\ plan' = <<>>
        BY <2>4, <2>5 DEF Refused, Begin, Adopts
      <3> QED
        BY <1>0, <2>1, <2>3, <2>4, <2>5, <3>1, NothingAhead DEF NothingUnowned, Few, Refused
    <2>6. CASE Served
      BY <2>4, <2>6 DEF Served
    <2>7. CASE Withdrawn
      BY <2>1, <2>4, <2>7, DepartingPlans DEF Withdrawn, Departs
    <2>8. CASE Released /\ finalizer
      <3>1. plan' = ReleasePlan(parent) /\ Departs(plan')
        BY <2>8, DepartingPlans DEF Released
      <3>2. parent = Deleted => Ahead(ReleasePlan(parent), "release")
        BY DEF ReleasePlan, Ahead
      <3> QED
        BY <2>1, <3>1, <3>2 DEF Departs
    <2>9. CASE Released /\ ~finalizer
      <3>1. plan' = <<>> /\ parent # Deleted
        BY <2>9 DEF Released, HeldBack
      <3> QED
        BY <1>0, <2>1, <2>3, <2>9, <3>1, NothingAhead DEF NothingUnowned, Few
    <2> QED
      BY <1>1, <2>5, <2>6, <2>7, <2>8, <2>9
  <1>2. CASE ~queued /\ UNCHANGED <<parent, instance>>
    <2>1. parent \in Gone \/ TurnedAway(parent)
      BY <1>2 DEF TurnedAway
    <2>2. /\ \A c : Ahead(plan, c) => c \in Departing
          /\ ~Ahead(plan, "teardown") => Few
          /\ parent = Deleted => Ahead(plan, "release")
      BY <1>2, <2>1 DEF Clearing
    <2>3. CASE UNCHANGED <<finalizer, obj, seen, plan, objs, published, rewrite, faults>>
      BY <1>2, <2>2, <2>3 DEF Few, Present
    <2>4. CASE Goes /\ (ObjectCall \/ Publish)
      <3>1. Head(plan) \in Departing
        BY <1>0, <2>2, <2>4, GoesOn
      <3>2. Head(plan) \notin Departing
        BY <1>0, <2>4, ObjectCallMakes DEF Publish, Call, Departing
      <3> QED
        BY <3>1, <3>2
    <2>5. CASE Goes /\ (sync_egress_dns \/ cleanup_proxy_resources)
      <3>1. Head(plan) \in {"dns", "teardown"} /\ (Head(plan) = "teardown" => cleanup_proxy_resources)
        BY <2>5 DEF sync_egress_dns, cleanup_proxy_resources, Call
      <3>2. \A c : Ahead(plan, c) <=> c = Head(plan) \/ Ahead(plan', c)
        BY <1>0, <2>5, GoesOn
      <3>3. ~ObjectCall
        <4>1. Head(plan) \in Departing
          BY <3>1 DEF Departing
        <4> QED
          BY <1>0, <4>1, ObjectCallMakes
      <3>4. ~Ahead(plan', "teardown") => Few'
        BY <1>0, <2>2, <3>1, <3>2, <3>3, FewerNext
      <3> QED
        BY <1>2, <2>2, <3>1, <3>2, <3>4
    <2> QED
      BY <1>0, <1>2, <2>3, <2>4, <2>5, QuietNext DEF Refused, Served, Withdrawn, Released, Begin
  <1> QED
    BY <1>0, <1>1, <1>2, QuietNext

(* Of a parent that is gone or not wanted nothing is left when nobody is due to
   come back for it, except what failed deletes kept; and a deletion does not wait
   for a finalizer that nobody is about to remove. *)
THEOREM QuietNothingLeft == Spec => [](Quiet => NothingLeft)
  <1>1. Init => Clearing /\ HeldBack
    <2> SUFFICES ASSUME Init PROVE Clearing /\ HeldBack
      OBVIOUS
    <2>1. Present = {}
      BY DEF Init, Nothing, Present
    <2>2. Few
      BY <2>1, FS_EmptySet DEF Init, Few
    <2>3. parent # Deleted
      BY DeletedIsApart DEF Init
    <2> QED
      BY <2>2, <2>3, NothingAhead DEF Init, Clearing, HeldBack
  <1>2. Leftovers /\ [Next]_vars => Leftovers'
    BY MakingNext, TornNext, UnownedNext DEF Leftovers
  <1>3. Clearing => (Quiet => NothingLeft)
    BY NothingAhead, TurnedAwayGates DEF Clearing, Quiet, NothingLeft, Few
  <1> QED
    BY <1>1, <1>2, <1>3, LeftoversInit, HeldBackNext, ClearingNext, PTL DEF Spec

=============================================================================
