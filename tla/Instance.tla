------------------------------ MODULE Instance ------------------------------
(***************************************************************************)
(* A HeadscaleInstance: from the user who applies it, past the webhook     *)
(* (module Admission), to the controller that runs headscale and the SCIM  *)
(* service for it, and the cluster that starts pods, binds claims and      *)
(* collects what has no owner any more.                                    *)
(*                                                                         *)
(* Sources: operator/src/controllers/headscale_instance/reconcile.rs,      *)
(* bootstrap.rs, scim.rs and builders.rs, controllers/applier.rs and the   *)
(* conditions of operator/src/types.                                       *)
(*                                                                         *)
(* As in module DataPlane, a reconcile is a plan of calls for the copy of  *)
(* the instance it began with.  It is requeued however it ends.  What      *)
(* sync_policy writes besides the instance's policy is in PolicySync.      *)
(***************************************************************************)
EXTENDS Admission

CONSTANTS
    MaxEdits   \* requests of the user

ASSUME InstanceConstants == MaxEdits \in Nat

VARIABLES
    inst,       \* the HeadscaleInstance
    status,     \* its Ready condition
    bypassed,   \* some request went past the webhook
    lives,      \* instances there have been
    objs,       \* what its name owns
    pod,        \* of headscale
    volume,     \* its claim, with the database on it
    scimVolume, \* that of the SCIM service
    plan,       \* calls the reconcile has still to make
    obj,        \* the instance it began with
    edits

admission == <<review, litter, faults>>
user == <<inst, bypassed, lives, edits>>
cluster == <<objs, pod, volume, scimVolume>>
vars == <<admission, user, status, cluster, plan, obj>>

Generations == 1 .. MaxEdits

Scim == {"token", "scimSts", "scimService"}
Headscale == {"config", "service", "sts", "key"}
Pieces == Headscale \cup Scim

(* The hash in the StatefulSet's template is that of a configuration; a Secret
   and a Service are just there. *)
Hashed == {"config", "sts"}
Nothing == [p \in Pieces |-> None]
Present == {p \in Pieces : objs[p] # None}

HeadscaleInstances == [spec : HeadscaleInstanceSpec, generation : Generations, deleting : BOOLEAN, finalizer : BOOLEAN]
Reasons ==
    {"StatefulSetReady", "StatefulSetNotReady", "ChildApplyFailed", "ReconcileFailed",
     "ScimPolicyConflict", "ExternalSpecConflict", "ExternalReachable", "ExternalUnreachable"}
Conditions == [ready : BOOLEAN, reason : Reasons, generation : Generations]
Pods == [config : Configs, hash : Configs, ready : BOOLEAN]
Volumes == [going : BOOLEAN, policy : Policies \cup {None}, keys : Nat]

ASSUME NoneIsNothing ==
    None \notin HeadscaleInstances \cup Volumes \cup Configs \cup {"present", "bound", "going"}

Calls ==
    Pieces \cup {"save", "ready", "policy", "status", "probe", "unfinalize",
                 "dropScimSts", "dropScimService", "dropToken", "dropVolume", "dropScimVolume"}

(* Types, and what the finalizer is for: an instance without one has no reconcile
   that could be left half done. *)
InstanceTypeOK ==
    /\ AdmissionTypeOK
    /\ inst = None \/ inst \in HeadscaleInstances
    /\ status = None \/ status \in Conditions
    /\ bypassed \in BOOLEAN
    /\ lives \in 0 .. MaxEdits
    /\ DOMAIN objs = Pieces
    /\ \A p \in Hashed : objs[p] = None \/ objs[p] \in Configs
    /\ \A p \in Pieces \ Hashed : objs[p] \in {None, "present"}
    /\ pod = None \/ pod \in Pods
    /\ volume = None \/ volume \in Volumes
    /\ scimVolume \in {None, "bound", "going"}
    /\ plan \in Seq(Calls)
    /\ obj = None \/ obj \in HeadscaleInstances
    /\ edits \in 0 .. MaxEdits
    /\ plan # <<>> => inst # None /\ inst.finalizer

-----------------------------------------------------------------------------
(* What a reconcile is going to do. *)

ensure_headscale == <<"config", "service", "sts">>

ScimUnequipped == <<"scimSts", "scimService", "token">>
ensure_scim == <<"token", "scimSts", "scimService">>

DeleteScimKeepVolume == <<"dropScimSts", "dropScimService", "dropToken">>
delete_scim_if_exists == <<"dropScimSts", "dropScimService", "dropToken", "dropScimVolume">>

ApplyPlanEarly(s) ==
    IF s.external THEN <<"probe">>
    ELSE ensure_headscale \o <<"ready", "key", "policy", "status">>
           \o (IF s.scim THEN ensure_scim ELSE delete_scim_if_exists)
ApplyPlan(s) ==
    IF s.external THEN <<"probe">>
    ELSE ensure_headscale \o <<"ready", "key", "policy">>
           \o (IF s.scim THEN ensure_scim ELSE delete_scim_if_exists)
           \o <<"status">>

CleanupPlanUp == <<"ready", "dropVolume", "dropScimVolume", "unfinalize">>
CleanupPlan == <<"dropVolume", "dropScimVolume", "unfinalize">>

(* What a call that fails makes of the condition. *)
FailureReason(c) ==
    CASE c \in {"config", "service", "sts"} -> "ChildApplyFailed"
      [] c \in {"key", "save", "policy"} \cup Scim -> "ReconcileFailed"
      [] c \in {"dropScimSts", "dropScimService", "dropToken"} -> "ReconcileFailed"
      [] c = "dropScimVolume" -> IF obj.deleting THEN None ELSE "ReconcileFailed"
      [] OTHER -> None

Condition(ready, reason) == [ready |-> ready, reason |-> reason, generation |-> obj.generation]

-----------------------------------------------------------------------------
(* The controller. *)

AtRest == plan = <<>> /\ review["operator"] = None

(* The finalizer is a patch of the instance, and the webhook is asked. *)
Adopt ==
    /\ AtRest
    /\ inst # None
    /\ ~inst.deleting /\ ~inst.finalizer
    /\ Submit("operator", inst.spec)
    /\ UNCHANGED <<user, status, cluster, plan, obj, faults>>

BeginUnadopted ==
    /\ AtRest
    /\ inst # None
    /\ obj' = inst
    /\ plan' = IF inst.deleting THEN CleanupPlan ELSE ApplyPlan(inst.spec)
    /\ UNCHANGED <<user, status, cluster, admission>>
Begin ==
    /\ AtRest
    /\ inst # None
    /\ inst.finalizer
    /\ obj' = inst
    /\ plan' = IF inst.deleting THEN CleanupPlan ELSE ApplyPlan(inst.spec)
    /\ UNCHANGED <<user, status, cluster, admission>>

Call(c) == plan # <<>> /\ Head(plan) = c
Done == plan' = Tail(plan) /\ obj' = IF Tail(plan) = <<>> THEN None ELSE obj
Stop == plan' = <<>> /\ obj' = None
Give(condition) == status' = condition /\ Stop

Apply(p, content) ==
    /\ Done
    /\ objs' = [objs EXCEPT ![p] = content]
    /\ UNCHANGED <<user, status, pod, volume, scimVolume, admission>>

HashOfName(config) == build_config({})
desired_hash(config) == config

ApplyChild ==
    \/ Call("config") /\ Apply("config", build_config(obj.spec.extra_config))
    \/ Call("sts") /\ Apply("sts", desired_hash(build_config(obj.spec.extra_config)))
    \/ \E p \in {"service", "scimSts", "scimService"} : Call(p) /\ Apply(p, "present")
    \/ Call("token") /\ Apply("token", "present")
    \/ Call("save") /\ Apply("key", "present")
    \/ Call("dropScimSts") /\ Apply("scimSts", None)
    \/ Call("dropScimService") /\ Apply("scimService", None)
    \/ Call("dropToken") /\ Apply("token", None)

(* readyReplicas does not tell a pod of this configuration from the one before. *)
Up == pod # None /\ pod.ready
CheckReady ==
    /\ Call("ready")
    /\ IF Up THEN Done /\ UNCHANGED status ELSE Give(Condition(FALSE, "StatefulSetNotReady"))
    /\ UNCHANGED <<user, cluster, admission>>

(* `headscale apikeys create`, in the pod; the key is saved by another call. *)
MintAlways ==
    /\ Call("key")
    /\ IF ~Up THEN Give(Condition(FALSE, "ReconcileFailed")) /\ UNCHANGED volume
       ELSE /\ plan' = <<"save">> \o Tail(plan)
            /\ UNCHANGED obj
            /\ volume' = [volume EXCEPT !.keys = @ + 1]
            /\ UNCHANGED status
    /\ UNCHANGED <<user, objs, pod, scimVolume, admission>>
ensure_api_key ==
    /\ Call("key")
    /\ \/ objs["key"] # None /\ Done /\ UNCHANGED <<status, volume>>
       \/ /\ objs["key"] = None
          /\ ~Up
          /\ Give(Condition(FALSE, "ReconcileFailed"))
          /\ UNCHANGED volume
       \/ /\ objs["key"] = None
          /\ Up
          /\ plan' = <<"save">> \o Tail(plan)
          /\ UNCHANGED obj
          /\ volume' = [volume EXCEPT !.keys = @ + 1]
          /\ UNCHANGED status
    /\ UNCHANGED <<user, objs, pod, scimVolume, admission>>

(* The guard stands here, behind the pieces and the key. *)
sync_policy ==
    /\ Call("policy")
    /\ \/ ScimConflict(obj.spec) /\ Give(Condition(FALSE, "ScimPolicyConflict")) /\ UNCHANGED volume
       \/ /\ ~ScimConflict(obj.spec)
          /\ ~Up
          /\ Give(Condition(FALSE, "ReconcileFailed"))
          /\ UNCHANGED volume
       \/ /\ ~ScimConflict(obj.spec)
          /\ Up
          /\ volume' = [volume EXCEPT !.policy = obj.spec.policy]
          /\ Done
          /\ UNCHANGED status
    /\ UNCHANGED <<user, objs, pod, scimVolume, admission>>

DropVolume(c) ==
    /\ Call(c)
    /\ Done
    /\ IF c = "dropVolume"
       THEN /\ volume' = IF volume = None THEN None ELSE [volume EXCEPT !.going = TRUE]
            /\ UNCHANGED scimVolume
       ELSE /\ scimVolume' = IF scimVolume = None THEN None ELSE "going"
            /\ UNCHANGED volume
    /\ UNCHANGED <<user, status, objs, pod, admission>>

ReportReady ==
    /\ Call("status")
    /\ status' = Condition(TRUE, "StatefulSetReady")
    /\ Done
    /\ UNCHANGED <<user, cluster, admission>>

apply_external ==
    /\ Call("probe")
    /\ \/ ExternalConflict(obj.spec) /\ Give(Condition(FALSE, "ExternalSpecConflict")) /\ UNCHANGED faults
       \/ /\ ~ExternalConflict(obj.spec)
          /\ \/ Give(Condition(TRUE, "ExternalReachable")) /\ UNCHANGED faults
             \/ Give(Condition(FALSE, "ExternalUnreachable")) /\ Fault
    /\ UNCHANGED <<user, cluster, review, litter>>

AskToUnfinalize ==
    /\ Call("unfinalize")
    /\ review["operator"] = None
    /\ Submit("operator", inst.spec)
    /\ UNCHANGED <<user, status, cluster, plan, obj, faults>>

(* A patch that is denied, or whose instance has changed, is tried again. *)
Patched ==
    LET r == review["operator"] IN
        /\ Consume("operator")
        /\ Stop
        /\ IF r.phase = "allowed" /\ inst # None /\ inst.spec = r.spec
           THEN IF plan = <<>>
                THEN /\ inst' = [inst EXCEPT !.finalizer = TRUE]
                     /\ UNCHANGED status
                ELSE inst' = None /\ status' = None
           ELSE UNCHANGED <<inst, status>>
Finalize ==
    /\ Answered("operator")
    /\ Patched
    /\ UNCHANGED <<bypassed, lives, edits, cluster, faults>>

(* A call fails, and the error is reported if that works; or the operator stops. *)
Fail ==
    /\ plan # <<>>
    /\ review["operator"] = None
    /\ Fault
    /\ Stop
    /\ \/ UNCHANGED status
       \/ /\ FailureReason(Head(plan)) # None
          /\ status' = Condition(FALSE, FailureReason(Head(plan)))
    /\ UNCHANGED <<user, cluster, review, litter>>

-----------------------------------------------------------------------------
(* The user. *)

(* A name is used again when all that bore it is gone: see the README for what
   happens otherwise. *)
Vacant == objs = Nothing /\ pod = None

Store(s) ==
    IF inst # None
    THEN /\ inst' = [inst EXCEPT !.spec = s,
                        !.generation = IF s = inst.spec THEN @ ELSE @ + 1]
         /\ UNCHANGED lives
    ELSE /\ Vacant
         /\ inst' = [spec |-> s, generation |-> 1, deleting |-> FALSE, finalizer |-> FALSE]
         /\ lives' = lives + 1

Request ==
    /\ edits < MaxEdits
    /\ edits' = edits + 1
    /\ inst = None => Vacant
    /\ \E s \in Specs : Submit("user", s)
    /\ UNCHANGED <<inst, bypassed, lives, status, cluster, plan, obj, faults>>

Stored ==
    /\ Answered("user")
    /\ Consume("user")
    /\ IF review["user"].phase = "allowed" /\ (inst # None \/ Vacant)
       THEN Store(review["user"].spec)
       ELSE UNCHANGED <<inst, lives>>
    /\ UNCHANGED <<bypassed, edits, status, cluster, plan, obj, faults>>

(* While there is no webhook configuration.  One that fits might as well have
   been asked about. *)
Bypass ==
    /\ edits < MaxEdits
    /\ edits' = edits + 1
    /\ review["user"] = None
    /\ bypassed' = TRUE
    /\ \E s \in Specs : ~Fits(s) /\ Store(s)
    /\ UNCHANGED <<status, cluster, plan, obj, admission>>

Delete ==
    /\ edits < MaxEdits
    /\ edits' = edits + 1
    /\ inst # None
    /\ ~inst.deleting
    /\ IF inst.finalizer
       THEN inst' = [inst EXCEPT !.deleting = TRUE] /\ UNCHANGED status
       ELSE inst' = None /\ status' = None
    /\ UNCHANGED <<bypassed, lives, cluster, plan, obj, admission>>

-----------------------------------------------------------------------------
(* The cluster. *)

(* The configuration is mounted as it is when the pod starts. *)
StartPod ==
    /\ pod = None
    /\ objs["sts"] # None
    /\ objs["config"] # None
    /\ volume # None => ~volume.going
    /\ pod' = [config |-> objs["config"], hash |-> objs["sts"], ready |-> FALSE]
    /\ volume' = IF volume = None THEN [going |-> FALSE, policy |-> None, keys |-> 0] ELSE volume
    /\ UNCHANGED <<objs, scimVolume>>

PodReady ==
    /\ pod # None
    /\ ~pod.ready
    /\ Configtest(pod.config)
    /\ pod' = [pod EXCEPT !.ready = TRUE]
    /\ UNCHANGED <<objs, volume, scimVolume>>

(* A StatefulSet replaces a pod that is not of its template, when that is ready:
   one that never is has to be deleted by hand. *)
RollPod ==
    /\ pod # None
    /\ \/ objs["sts"] = None
       \/ pod.ready /\ pod.hash # objs["sts"]
    /\ pod' = None
    /\ UNCHANGED <<objs, volume, scimVolume>>

BindScim ==
    /\ objs["scimSts"] # None
    /\ scimVolume = None
    /\ scimVolume' = "bound"
    /\ UNCHANGED <<objs, pod, volume>>

ReleaseVolume ==
    /\ pod = None
    /\ volume # None
    /\ volume.going
    /\ volume' = None
    /\ UNCHANGED <<objs, pod, scimVolume>>

ReleaseScimVolume ==
    /\ objs["scimSts"] = None
    /\ scimVolume = "going"
    /\ scimVolume' = None
    /\ UNCHANGED <<objs, pod, volume>>

(* All carry an owner reference.  It matters when a StatefulSet goes, for it may
   start pods until then. *)
Running == {"sts", "scimSts"}
Collect ==
    /\ inst = None
    /\ \E gone \in {{"sts"}, {"scimSts"}, Pieces \ Running} :
        /\ gone \cap Present # {}
        /\ objs' = [p \in Pieces |-> IF p \in gone THEN None ELSE objs[p]]
    /\ UNCHANGED <<pod, volume, scimVolume>>

Cluster ==
    /\ StartPod \/ PodReady \/ RollPod \/ BindScim \/ ReleaseVolume \/ ReleaseScimVolume \/ Collect
    /\ UNCHANGED <<admission, user, status, plan, obj>>

PodDies ==
    /\ pod # None
    /\ pod' = None
    /\ Fault
    /\ UNCHANGED <<review, litter, user, status, objs, volume, scimVolume, plan, obj>>

-----------------------------------------------------------------------------
Init ==
    /\ AdmissionInit
    /\ inst = None
    /\ status = None
    /\ bypassed = FALSE
    /\ lives = 0
    /\ objs = Nothing
    /\ pod = None
    /\ volume = None
    /\ scimVolume = None
    /\ plan = <<>>
    /\ obj = None
    /\ edits = 0

Reconcile ==
    \/ Adopt \/ Begin \/ ApplyChild \/ CheckReady \/ ensure_api_key \/ sync_policy
    \/ DropVolume("dropVolume") \/ DropVolume("dropScimVolume")
    \/ ReportReady \/ apply_external \/ AskToUnfinalize \/ Finalize

Webhook(r) == Handle(r) /\ UNCHANGED <<user, status, cluster, plan, obj>>
Dropped == (\E r \in Reviewers : Abandon(r)) /\ UNCHANGED <<user, status, cluster, plan, obj>>

Next ==
    \/ Reconcile
    \/ Fail
    \/ \E r \in Reviewers : Webhook(r)
    \/ Dropped
    \/ Request \/ Stored \/ Bypass \/ Delete
    \/ Cluster
    \/ PodDies

Spec == Init /\ [][Next]_vars

(* Whoever has something to do does it: the controller, the webhook for each
   request, the API server with the answer, and each part of the cluster. *)
FairSpec ==
    /\ Spec
    /\ WF_vars(Reconcile)
    /\ \A r \in Reviewers : WF_vars(Webhook(r))
    /\ WF_vars(Stored)
    /\ WF_vars(StartPod /\ Cluster)
    /\ WF_vars(PodReady /\ Cluster)
    /\ WF_vars(RollPod /\ Cluster)
    /\ WF_vars(BindScim /\ Cluster)
    /\ WF_vars(ReleaseVolume /\ Cluster)
    /\ WF_vars(ReleaseScimVolume /\ Cluster)
    /\ WF_vars(Collect /\ Cluster)

-----------------------------------------------------------------------------
(* Properties. *)

Observed == inst # None /\ status # None /\ status.generation = inst.generation

(* Ready, for the generation that it observed, says that all is there that this
   spec asks for and nothing of what it does not, and that no guard was passed
   by a spec that went around the webhook. *)
ReadyHonest ==
    Observed /\ status.ready /\ ~inst.deleting =>
        /\ ~ScimConflict(inst.spec) /\ ~ExternalConflict(inst.spec)
        /\ ~inst.spec.external =>
            /\ Present = IF inst.spec.scim THEN Pieces ELSE Headscale
            /\ objs["config"] = build_config(inst.spec.extra_config)
            /\ volume # None
            /\ volume.policy = inst.spec.policy

(* Whatever the user sets, headscale runs with the operator's own keys; and as
   long as nobody goes around the webhook, it is never given a configuration that
   it would refuse, and no reconcile finds a conflict. *)
GuardsHold ==
    /\ objs["config"] # None => \A k \in Pinned : objs["config"][k] = "operator"
    /\ ~bypassed =>
        /\ objs["config"] # None => Configtest(objs["config"])
        /\ status # None => status.reason \notin {"ScimPolicyConflict", "ExternalSpecConflict"}

(* An API key of a hundred years is made once in an instance's life, and again
   only if the reconcile failed before it was saved. *)
KeysAccounted == volume # None => volume.keys <= lives + faults

(* Every ConfigMap of a configtest is deleted, unless that failed. *)
LitterAccounted == litter <= faults

(* The SCIM pod, which takes its environment from both Secrets, is not started
   before they exist. *)
ScimEquipped ==
    [][objs["scimSts"] = None /\ objs'["scimSts"] # None => {"key", "token"} \subseteq Present]_vars

(* A pod whose configuration headscale refuses is not replaced; nor is one that
   was started between the two calls that a change of the configuration takes,
   if the change is taken back. *)
Stuck == pod # None /\ (~Configtest(pod.config) \/ pod.config # pod.hash)

(* An instance that is left alone with a good spec becomes ready, and headscale
   and its policy are what the spec says. *)
Converges ==
    <>[](inst # None /\ ~inst.deleting /\ Fits(inst.spec) /\ ~Stuck =>
            /\ Observed
            /\ status.ready
            /\ ~inst.spec.external =>
                /\ pod # None
                /\ pod.config = build_config(inst.spec.extra_config)
                /\ volume.policy = inst.spec.policy)

(* SCIM that is switched off leaves nothing, its database neither. *)
ScimLeavesNothing ==
    <>[](inst # None /\ ~inst.deleting /\ Fits(inst.spec) /\ ~Stuck /\ ~inst.spec.external
            /\ ~inst.spec.scim => Present \cap Scim = {} /\ scimVolume = None)

(* An instance that is deleted goes, with all that it owns, unless its spec is
   one that the webhook would deny: it then denies the removal of the finalizer. *)
Vanishes ==
    <>[](/\ inst # None => ~inst.deleting \/ ~Fits(inst.spec)
         /\ inst = None => objs = Nothing /\ pod = None)

=============================================================================
