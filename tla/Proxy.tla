-------------------------------- MODULE Proxy --------------------------------
(***************************************************************************)
(* One proxy (operator/src/controllers/proxy): an Ingress or Service that  *)
(* should be reachable on the tailnet of a HeadscaleInstance, the          *)
(* Kubernetes objects the operator keeps for it, the pod they give rise to *)
(* and the pod's registration as a headscale node.                         *)
(*                                                                         *)
(* A reconcile runs through the stages of `stage`, one for each call that  *)
(* reads or changes what the pod, headscale or a user may change too:      *)
(*                                                                         *)
(*   retarget .. dropState   reset_if_retargeted, rotate_stale_auth_key    *)
(*   ensure, save            ensure_auth_key                               *)
(*   state, sts              ensure_state_secret, apply_proxy_statefulset  *)
(*   teardown .. release     deregister_and_cleanup, release of the parent *)
(*                                                                         *)
(* It is started by a watch event (`queued`): a change of the parent, of a *)
(* Secret, or of the StatefulSet, whose status follows the pod.            *)
(*                                                                         *)
(* The pod (tailscale's containerboot), headscale's registration and the   *)
(* kubelet are external.  Time passes as keys, windows and nodes expire.   *)
(***************************************************************************)
EXTENDS Naturals

CONSTANTS
    Refs,       \* HeadscaleInstances
    KeyIds,     \* pre-auth keys; an id that nothing refers to is reused
    NodeIds,    \* node ids of each headscale; as above
    Reusable,   \* auth-key-reusable
    MaxEdits,   \* changes of the parent's headscale-ref, claims and releases
    MaxFaults,  \* failed calls, operator restarts, and what befalls a node
    None

(* The parent is deleted, handed to another deployment, or in a namespace that
   is excluded; or its config annotation, headscale-ref and all, is removed. *)
Exits == {"released", "unannotated"}

ASSUME ProxyConstants ==
    /\ None \notin Refs \cup KeyIds \cup NodeIds \cup Exits
    /\ Refs \cap Exits = {}
    /\ Reusable \in BOOLEAN
    /\ MaxEdits \in Nat
    /\ MaxFaults \in Nat

VARIABLES
    target,    \* the parent's headscale-ref, or how it ceased to want a proxy of us
    finalizer, \* the parent carries our finalizer
    config,    \* the config Secret: a key, and whether its window has elapsed
    state,     \* the state Secret: headscale_ref, device_id, and tailscaled's identity
    sts,       \* the StatefulSet, by the instance it logs in to
    pod,       \* its pod
    keys,      \* pre-auth keys of the headscales
    nodes,     \* their nodes for this proxy
    stage,     \* stage of the reconcile
    aim,       \* the headscale-ref it works for
    seen,      \* the node it has read from the state Secret
    kept,      \* the config Secret it has read
    plan,      \* the reset it has decided on
    queued,    \* a reconcile is due
    edits, faults

objects == <<config, state, sts>>
locals == <<aim, seen, kept, plan>>
vars == <<target, finalizer, objects, pod, keys, nodes, stage, locals, queued, edits, faults>>

Configs == [key : KeyIds, elapsed : BOOLEAN]
States == [ref : Refs, device : NodeIds \cup {None}, node : NodeIds \cup {None}]
Keys == [ref : Refs, expired : BOOLEAN, spent : BOOLEAN]
Rows == [expired : BOOLEAN, refused : {"no", "key", "identity"}]
Pods == [login : Refs, key : KeyIds \cup {None}, node : NodeIds \cup {None},
         status : {"created", "crashlooping", "running", "up"},
         written : BOOLEAN, exit : {"none", "before", "after"}]

ASSUME NoneIsNoObject == None \notin Configs \cup States \cup Keys \cup Rows \cup Pods

Stages == {"idle", "retarget", "forgetOld", "rotate", "getNode", "readConfig", "readPod",
           "window", "dropConfig", "dropState", "ensure", "save", "state", "sts",
           "teardown", "forget", "cleanup", "release"}

ProxyTypeOK ==
    /\ target \in Refs \cup Exits
    /\ finalizer \in BOOLEAN
    /\ config \in Configs \cup {None}
    /\ state \in States \cup {None}
    /\ sts \in Refs \cup {None}
    /\ pod \in Pods \cup {None}
    /\ keys \in [KeyIds -> Keys \cup {None}]
    /\ nodes \in [Refs -> [NodeIds -> Rows \cup {None}]]
    /\ stage \in Stages
    /\ aim \in Refs \cup Exits \cup {None}
    /\ seen \in [ref : Refs, node : NodeIds] \cup {None}
    /\ kept \in Configs \cup KeyIds \cup {None}
    /\ plan \in {"none", "retarget", "both", "config"}
    /\ queued \in BOOLEAN
    /\ edits \in 0 .. MaxEdits
    /\ faults \in 0 .. MaxFaults

-----------------------------------------------------------------------------
(* headscale and the pod, as the operator sees them. *)

Accepted(r, n) ==
    /\ n # None
    /\ nodes[r][n] # None
    /\ ~nodes[r][n].expired
    /\ nodes[r][n].refused = "no"

(* node.online *)
Online(r, n) == pod # None /\ pod.status = "up" /\ pod.login = r /\ pod.node = n

Usable(k, r) ==
    /\ keys[k] # None
    /\ keys[k].ref = r
    /\ ~keys[k].expired
    /\ Reusable \/ ~keys[k].spent

UnusedKeys ==
    KeyIds \ (  (IF config = None THEN {} ELSE {config.key})
          \cup (IF pod = None THEN {} ELSE {pod.key})
          \cup {kept})

UnusedNodes(r) ==
    {n \in NodeIds : nodes[r][n] = None}
        \ (  (IF state = None THEN {} ELSE {state.device, state.node})
        \cup (IF pod = None THEN {} ELSE {pod.node})
        \cup (IF seen = None THEN {} ELSE {seen.node}))

-----------------------------------------------------------------------------
(* Building blocks of the reconcile. *)

Goto(s) == stage' = s

Fault == faults < MaxFaults /\ faults' = faults + 1

Forget == aim' = None /\ seen' = None /\ kept' = None /\ plan' = "none"

(* The objects whose watch events requeue the parent. *)
Watched == <<target, objects, pod>>
Notified == queued' = (queued \/ Watched' # Watched)

(* The call at this stage fails: error_policy requeues the parent.  A restart
   of the operator reconciles every parent again. *)
Fail ==
    /\ stage # "idle"
    /\ Fault
    /\ Goto("idle")
    /\ Forget
    /\ queued' = TRUE
    /\ UNCHANGED <<target, finalizer, objects, pod, keys, nodes, edits>>

(* The finalizer is put on before apply runs. *)
Begin ==
    /\ stage = "idle"
    /\ queued
    /\ queued' = FALSE
    /\ \/ target \in Refs /\ finalizer' = TRUE /\ Goto("retarget")
       \/ target \in Exits /\ finalizer /\ Goto("teardown") /\ UNCHANGED finalizer
       \/ target \in Exits /\ ~finalizer /\ UNCHANGED <<stage, finalizer>>
    /\ aim' = target
    /\ UNCHANGED <<target, objects, pod, keys, nodes, seen, kept, plan, edits, faults>>

Known == IF state = None \/ state.device = None THEN None
         ELSE [ref |-> state.ref, node |-> state.device]

-----------------------------------------------------------------------------
(* reset_if_retargeted *)

Retarget ==
    /\ stage = "retarget"
    /\ IF state # None /\ state.ref # aim
       THEN /\ seen' = Known
            /\ plan' = "retarget"
            /\ Goto(IF Known = None THEN "dropConfig" ELSE "forgetOld")
       ELSE Goto("rotate") /\ UNCHANGED <<seen, plan>>
    /\ UNCHANGED <<target, finalizer, objects, pod, keys, nodes, aim, kept, edits, faults>>

ForgetOld ==
    /\ stage = "forgetOld"
    /\ nodes' = [nodes EXCEPT ![seen.ref][seen.node] = None]
    /\ Goto("dropConfig")
    /\ UNCHANGED <<target, finalizer, objects, pod, keys, locals, edits, faults>>

DropConfig ==
    /\ stage = "dropConfig"
    /\ config' = None
    /\ Goto(IF plan = "config" THEN "ensure" ELSE "dropState")
    /\ UNCHANGED <<target, finalizer, state, sts, pod, keys, nodes, locals, edits, faults>>

DropState ==
    /\ stage = "dropState"
    /\ state' = None
    /\ Goto(IF plan = "retarget" THEN "rotate" ELSE "ensure")
    /\ UNCHANGED <<target, finalizer, config, sts, pod, keys, nodes, locals, edits, faults>>

-----------------------------------------------------------------------------
(* rotate_stale_auth_key *)

Rotate ==
    /\ stage = "rotate"
    /\ seen' = Known
    /\ Goto(IF Known = None THEN "window" ELSE "getNode")
    /\ UNCHANGED <<target, finalizer, objects, pod, keys, nodes, aim, kept, plan, edits, faults>>

(* Decisions: what to drop, if anything. *)
Drop(p) == plan' = p /\ Goto("dropConfig")
Keep(next) == plan' = "none" /\ Goto(next)

(* The node is gone from the headscale of the reconcile, or has expired. *)
Lost(r, n) == nodes[r][n] = None \/ nodes[r][n].expired

GetNode ==
    /\ stage = "getNode"
    /\ IF Lost(aim, seen.node) THEN Drop("both")
       ELSE Keep(IF Online(aim, seen.node) THEN "ensure" ELSE "readConfig")
    /\ UNCHANGED <<target, finalizer, objects, pod, keys, nodes, aim, seen, kept, edits, faults>>

(* registration_refused *)
ReadConfig ==
    /\ stage = "readConfig"
    /\ kept' = config
    /\ Goto(IF config = None THEN "ensure" ELSE "readPod")
    /\ UNCHANGED <<target, finalizer, objects, pod, keys, nodes, aim, seen, plan, edits, faults>>

(* Variant: a proxy that died on a fresh key keeps its identity. *)
NeverReset == FALSE

(* The container exited after the current key was minted. *)
DiedOnKey == pod.exit = "after"

ReadPod ==
    /\ stage = "readPod"
    /\ LET crash_looping == pod # None /\ pod.status = "crashlooping"
       IN  \/ ~crash_looping /\ Keep("ensure")
           \/ crash_looping /\ kept.elapsed /\ Drop("config")
           \/ crash_looping /\ ~kept.elapsed /\ DiedOnKey /\ Drop("both")
           \/ crash_looping /\ ~kept.elapsed /\ ~DiedOnKey /\ Keep("ensure")
    /\ UNCHANGED <<target, finalizer, objects, pod, keys, nodes, aim, seen, kept, edits, faults>>

(* Never joined: the key goes once its window has elapsed. *)
Window ==
    /\ stage = "window"
    /\ IF config # None /\ config.elapsed THEN Drop("config") ELSE Keep("ensure")
    /\ UNCHANGED <<target, finalizer, objects, pod, keys, nodes, aim, seen, kept, edits, faults>>

-----------------------------------------------------------------------------
(* ensure_auth_key; a user that does not exist is one of the failures that
   requeue the parent. *)

Ensure ==
    /\ stage = "ensure"
    /\ \/ config # None /\ Goto("state") /\ UNCHANGED <<keys, kept>>
       \/ /\ config = None
          /\ \E k \in UnusedKeys :
                /\ keys' = [keys EXCEPT ![k] = [ref |-> aim, expired |-> FALSE, spent |-> FALSE]]
                /\ kept' = k
          /\ Goto("save")
    /\ UNCHANGED <<target, finalizer, objects, pod, nodes, aim, seen, plan, edits, faults>>

(* Variant: an empty key is saved. *)
SavedEmpty ==
    /\ config' = [key |-> None, elapsed |-> FALSE]
    /\ UNCHANGED pod

(* apply_config_secret; exits are dated from the creation of the Secret. *)
Saved ==
    /\ config' = [key |-> kept, elapsed |-> FALSE]
    /\ pod' = IF pod # None /\ pod.exit = "after" THEN [pod EXCEPT !.exit = "before"] ELSE pod

Save ==
    /\ stage = "save"
    /\ Saved
    /\ kept' = None
    /\ Goto("state")
    /\ UNCHANGED <<target, finalizer, state, sts, keys, nodes, aim, seen, plan, edits, faults>>

(* A Secret that cannot be saved takes its key with it, if that succeeds; the
   save may have happened although it reports an error. *)
SaveFails ==
    /\ stage = "save"
    /\ Fault
    /\ Saved \/ UNCHANGED <<config, pod>>
    /\ keys' \in {keys, [keys EXCEPT ![kept] = None]}
    /\ Goto("idle")
    /\ Forget
    /\ queued' = TRUE
    /\ UNCHANGED <<target, finalizer, state, sts, nodes, edits>>

EnsureState ==
    /\ stage = "state"
    /\ state' = IF state = None THEN [ref |-> aim, device |-> None, node |-> None]
                ELSE [state EXCEPT !.ref = aim]
    /\ Goto("sts")
    /\ UNCHANGED <<target, finalizer, config, sts, pod, keys, nodes, locals, edits, faults>>

ApplySts ==
    /\ stage = "sts"
    /\ sts' = aim
    /\ Goto("idle")
    /\ Forget
    /\ UNCHANGED <<target, finalizer, config, state, pod, keys, nodes, edits, faults>>

-----------------------------------------------------------------------------
(* deregister_and_cleanup, and the release of the parent that follows. *)

(* The node to delete.  Without a headscale-ref in the annotation the operator
   does not look for one. *)
Recorded == IF aim = "unannotated" THEN None ELSE Known

(* Variant: teardown insists on a state Secret. *)
TeardownWithState ==
    /\ stage = "teardown"
    /\ state # None
    /\ seen' = Recorded
    /\ Goto(IF Recorded = None THEN "cleanup" ELSE "forget")
    /\ UNCHANGED <<target, finalizer, objects, pod, keys, nodes, aim, kept, plan, edits, faults>>

Teardown ==
    /\ stage = "teardown"
    /\ seen' = Recorded
    /\ Goto(IF Recorded = None THEN "cleanup" ELSE "forget")
    /\ UNCHANGED <<target, finalizer, objects, pod, keys, nodes, aim, kept, plan, edits, faults>>

(* Variant: an error of DeleteNode is ignored. *)
ForgetNodeBestEffort ==
    /\ stage = "forget"
    /\ \/ nodes' = [nodes EXCEPT ![seen.ref][seen.node] = None] /\ UNCHANGED <<plan, faults>>
       \/ Fault /\ UNCHANGED <<nodes, plan>>
    /\ Goto("cleanup")
    /\ UNCHANGED <<target, finalizer, objects, pod, keys, aim, seen, kept, edits>>

(* Without a connection the node is orphaned, with an event that says so. *)
ForgetNode ==
    /\ stage = "forget"
    /\ \/ nodes' = [nodes EXCEPT ![seen.ref][seen.node] = None] /\ UNCHANGED <<seen, faults>>
       \/ Fault /\ seen' = None /\ UNCHANGED nodes
    /\ Goto("cleanup")
    /\ UNCHANGED <<target, finalizer, objects, pod, keys, aim, kept, plan, edits>>

(* cleanup_proxy_resources deletes what it can. *)
Cleanup ==
    /\ stage = "cleanup"
    /\ \/ config' = None /\ state' = None /\ sts' = None /\ UNCHANGED faults
       \/ Fault /\ config' \in {config, None} /\ state' \in {state, None} /\ sts' \in {sts, None}
    /\ Goto("release")
    /\ UNCHANGED <<target, finalizer, pod, keys, nodes, locals, edits>>

Release ==
    /\ stage = "release"
    /\ finalizer' = FALSE
    /\ Goto("idle")
    /\ Forget
    /\ UNCHANGED <<target, objects, pod, keys, nodes, edits, faults>>

-----------------------------------------------------------------------------
(* The pod. *)

operator == <<finalizer, stage, locals>>

Die == pod' = [pod EXCEPT !.status = "crashlooping", !.exit = "after"]

PodCreate ==
    /\ pod = None
    /\ sts # None
    /\ pod' = [login |-> sts, key |-> None, node |-> None, status |-> "created",
               written |-> FALSE, exit |-> "none"]
    /\ UNCHANGED <<target, operator, objects, keys, nodes, edits, faults>>

(* The kubelet resolves TS_AUTHKEY, and tailscaled loads its identity.  The
   backoff between restarts grows beyond what a reconcile takes; only so many
   restarts come in the middle of one. *)
PodStart ==
    /\ pod # None
    /\ \/ pod.status = "created" /\ UNCHANGED faults
       \/ pod.status = "crashlooping" /\ stage = "idle" /\ ~queued /\ UNCHANGED faults
       \/ pod.status = "crashlooping" /\ ~(stage = "idle" /\ ~queued) /\ Fault
    /\ config # None
    /\ state # None
    /\ pod' = [pod EXCEPT !.key = config.key, !.node = state.node,
                          !.status = "running", !.written = FALSE]
    /\ UNCHANGED <<target, operator, objects, keys, nodes, edits>>

(* It logs in with its identity, or with its key: as the node it was, unless
   that is what headscale objects to, or as a new one. *)
PodRegister ==
    /\ pod # None
    /\ pod.status = "running"
    /\ LET r == pod.login
           n == pod.node
           hasRow == n # None /\ nodes[r][n] # None
           new == UnusedNodes(r)
       IN  \/ /\ Accepted(r, n)
              /\ pod' = [pod EXCEPT !.status = "up"]
              /\ UNCHANGED <<state, keys, nodes>>
           \/ /\ ~Accepted(r, n) /\ hasRow /\ Usable(pod.key, r) /\ nodes[r][n].refused # "identity"
              /\ nodes' = [nodes EXCEPT ![r][n] = [expired |-> FALSE, refused |-> "no"]]
              /\ keys' = [keys EXCEPT ![pod.key].spent = TRUE]
              /\ pod' = [pod EXCEPT !.status = "up"]
              /\ UNCHANGED state
           \/ /\ ~hasRow /\ Usable(pod.key, r) /\ state # None /\ new # {}
              /\ LET m == CHOOSE x \in new : TRUE
                 IN  /\ nodes' = [nodes EXCEPT ![r][m] = [expired |-> FALSE, refused |-> "no"]]
                     /\ state' = [state EXCEPT !.node = m]
                     /\ pod' = [pod EXCEPT !.status = "up", !.node = m]
              /\ keys' = [keys EXCEPT ![pod.key].spent = TRUE]
           \/ /\ ~Accepted(r, n)
              /\ ~Usable(pod.key, r) \/ (hasRow /\ nodes[r][n].refused = "identity") \/ state = None
              /\ Die
              /\ UNCHANGED <<state, keys, nodes>>
    /\ UNCHANGED <<target, operator, config, sts, edits, faults>>

(* It records its device_id, once; it may not create the Secret. *)
PodWrite ==
    /\ pod # None
    /\ pod.status = "up"
    /\ ~pod.written
    /\ \/ state # None /\ state' = [state EXCEPT !.device = pod.node]
          /\ pod' = [pod EXCEPT !.written = TRUE]
       \/ state = None /\ Die /\ UNCHANGED state
    /\ UNCHANGED <<target, operator, config, sts, keys, nodes, edits, faults>>

PodLoses ==
    /\ pod # None
    /\ pod.status = "up"
    /\ ~Accepted(pod.login, pod.node)
    /\ Die
    /\ UNCHANGED <<target, operator, objects, keys, nodes, edits, faults>>

(* The StatefulSet was deleted, or rolls to another login server. *)
PodRemove ==
    /\ pod # None
    /\ sts # pod.login
    /\ pod' = None
    /\ UNCHANGED <<target, operator, objects, keys, nodes, edits, faults>>

(* The container is restarted for a reason of its own. *)
PodCrash ==
    /\ Fault
    /\ pod # None
    /\ pod.status \in {"running", "up"}
    /\ Die
    /\ UNCHANGED <<target, operator, objects, keys, nodes, edits>>

-----------------------------------------------------------------------------
(* Users, administrators of headscale, and time. *)

Edit ==
    /\ edits < MaxEdits
    /\ edits' = edits + 1
    /\ target' \in (Refs \cup Exits) \ {target}
    /\ UNCHANGED <<operator, objects, pod, keys, nodes, faults>>

(* A node is deleted, expires, or is refused from now on: for its spent key, or
   for what it is.  The latter happens to recorded nodes only: the operator
   looks for it nowhere else, and such a proxy would not recover. *)
Disturb ==
    /\ Fault
    /\ \E r \in Refs, n \in NodeIds :
        /\ nodes[r][n] # None
        /\ \E row \in {None, [expired |-> TRUE, refused |-> "no"]}
                        \cup {[expired |-> FALSE, refused |-> why] : why \in {"key", "identity"}} :
            /\ row # None /\ row.refused = "identity" => Known = [ref |-> r, node |-> n]
            /\ nodes' = [nodes EXCEPT ![r][n] = row]
    /\ UNCHANGED <<target, operator, objects, pod, keys, edits>>

(* A key expires; that is a fault if it could still have been used. *)
Useless(k) == keys[k] # None /\ (keys[k].spent \/ keys[k].ref # target)
ExpireKey(k) ==
    /\ keys[k] # None
    /\ ~keys[k].expired
    /\ \/ Useless(k) /\ UNCHANGED faults
       \/ ~Useless(k) /\ Fault
    /\ keys' = [keys EXCEPT ![k].expired = TRUE]
    /\ UNCHANGED <<target, operator, objects, pod, nodes, edits>>

(* The window of a Secret ends later than that of the key inside. *)
Elapse ==
    /\ config # None
    /\ ~config.elapsed
    /\ keys[config.key] # None => keys[config.key].expired
    /\ config' = [config EXCEPT !.elapsed = TRUE]
    /\ UNCHANGED <<target, operator, state, sts, pod, keys, nodes, queued, edits, faults>>

-----------------------------------------------------------------------------
Init ==
    /\ target \in Refs
    /\ finalizer = FALSE
    /\ config = None /\ state = None /\ sts = None /\ pod = None
    /\ keys = [k \in KeyIds |-> None]
    /\ nodes = [r \in Refs |-> [n \in NodeIds |-> None]]
    /\ stage = "idle"
    /\ aim = None /\ seen = None /\ kept = None /\ plan = "none"
    /\ queued = TRUE
    /\ edits = 0 /\ faults = 0

Reconcile ==
    \/ Begin
    \/ /\ \/ Retarget \/ ForgetOld \/ DropConfig \/ DropState
          \/ Rotate \/ GetNode \/ ReadConfig \/ ReadPod \/ Window
          \/ Ensure \/ Save \/ EnsureState \/ ApplySts
          \/ Teardown \/ ForgetNode \/ Cleanup \/ Release
       /\ Notified

PodRuns == (PodCreate \/ PodStart \/ PodRegister \/ PodWrite \/ PodLoses \/ PodRemove) /\ Notified

Passes == (\E k \in KeyIds : Useless(k) /\ ExpireKey(k)) /\ Notified

Environment ==
    \/ (PodCrash \/ Edit \/ Disturb \/ \E k \in KeyIds : ExpireKey(k)) /\ Notified
    \/ Elapse

Next == Reconcile \/ Fail \/ SaveFails \/ PodRuns \/ Environment

Spec == Init /\ [][Next]_vars

(* The controller takes what is queued, calls return, Kubernetes runs the pod
   and restarts it after its backoff, and time passes. *)
FairSpec ==
    /\ Spec
    /\ WF_vars(Reconcile)
    /\ WF_vars(PodRuns)
    /\ WF_vars(PodRemove /\ Notified)
    /\ WF_vars(Passes)
    /\ WF_vars(Elapse)

-----------------------------------------------------------------------------
(* Properties. *)

(* The proxy is on the tailnet of the instance that its parent refers to. *)
Serving ==
    /\ pod # None
    /\ pod.status = "up"
    /\ pod.login = target
    /\ Accepted(target, pod.node)

(* Once users, administrators and faults come to rest, a proxy that is wanted
   gets back on the tailnet and stays there, whatever happened to its node, its
   key, its Secrets or its pod (rotate_stale_auth_key, ensure_auth_key). *)
Recovers == <>[](target \in Refs => Serving)

(* A parent that wants no proxy is released, and what the proxy was made of is
   gone, except what a failed best-effort deletion has left. *)
Released == target \in Exits /\ ~finalizer /\ stage = "idle"
Releases == <>[](target \in Exits => Released /\ (faults = 0 => objects = <<None, None, None>> /\ pod = None))

(* The state Secret is the only record of a node's id: when teardown or a
   retarget deletes it, the node whose id they read in it is gone from its
   headscale, whichever calls failed and were retried before. *)
RecordOutlivesNode ==
    [][/\ state # None /\ state' = None
       /\ stage = "cleanup" \/ plan = "retarget"
       /\ seen # None
       => nodes[seen.ref][seen.node] = None]_vars

(* The removal of the config annotation deregisters the node on record before
   the record goes, like every other way of giving a proxy up. *)
DeregisteredBeforeRelease ==
    [][Cleanup /\ aim = "unannotated" /\ Known # None /\ state' = None
        => nodes[Known.ref][Known.node] = None]_vars
=============================================================================
