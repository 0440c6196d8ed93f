----------------------------- MODULE ProxyProofs -----------------------------
(***************************************************************************)
(* Theorems about one proxy, for any headscales, keys and nodes and any    *)
(* number of edits and faults.                                             *)
(***************************************************************************)
EXTENDS Proxy, TLAPS

-----------------------------------------------------------------------------
(* Type correctness, and what a stage knows: a reconcile that provisions works
   for an instance, one that deletes a node has read its id, and one that saves a
   key has minted it. *)
Provisioning == Stages \ {"idle", "teardown", "forget", "cleanup", "release"}

Staged ==
    /\ stage \in Provisioning => aim \in Refs
    /\ stage \in {"forgetOld", "forget"} => seen # None
    /\ stage = "save" => kept \in KeyIds

Typed == ProxyTypeOK /\ Staged

LEMMA TypedInit == Init => Typed
  <1> SUFFICES ASSUME Init PROVE Typed
    OBVIOUS
  <1>1. keys \in [KeyIds -> Keys \cup {None}] /\ nodes \in [Refs -> [NodeIds -> Rows \cup {None}]]
    BY DEF Init
  <1>2. 0 \in 0 .. MaxEdits /\ 0 \in 0 .. MaxFaults
    BY ProxyConstants
  <1> QED
    BY <1>1, <1>2 DEF Init, Typed, ProxyTypeOK, Staged, Provisioning, Stages

LEMMA NotifiedTypes == queued \in BOOLEAN /\ Notified => queued' \in BOOLEAN
  BY DEF Notified

LEMMA FaultTypes == faults \in 0 .. MaxFaults /\ Fault => faults' \in 0 .. MaxFaults
  BY ProxyConstants DEF Fault

LEMMA KnownTypes ==
    ASSUME ProxyTypeOK
    PROVE  Known \in [ref : Refs, node : NodeIds] \cup {None}
  BY DEF ProxyTypeOK, States, Known

(* The stages of a reconcile that provisions. *)
LEMMA TypedProvision ==
    ASSUME Typed, Notified,
           \/ Retarget \/ ForgetOld \/ DropConfig \/ DropState
           \/ Rotate \/ GetNode \/ ReadConfig \/ ReadPod \/ Window
           \/ Ensure \/ Save \/ EnsureState \/ ApplySts
    PROVE  Typed'
  <1> USE DEF Typed, ProxyTypeOK, Staged, Provisioning, Stages, objects, locals, Goto
  <1>1. queued' \in BOOLEAN
    BY NotifiedTypes
  <1>2. Known \in [ref : Refs, node : NodeIds] \cup {None}
    BY KnownTypes
  <1>3. CASE Retarget \/ Rotate
    BY <1>1, <1>2, <1>3 DEF Retarget, Rotate
  <1>4. CASE ForgetOld
    <2>1. nodes' \in [Refs -> [NodeIds -> Rows \cup {None}]]
      BY <1>4 DEF ForgetOld
    <2> QED
      BY <1>1, <1>4, <2>1 DEF ForgetOld
  <1>5. CASE DropConfig \/ DropState
    BY <1>1, <1>5 DEF DropConfig, DropState
  <1>6. CASE GetNode \/ ReadConfig \/ ReadPod \/ Window
    BY <1>1, <1>6 DEF GetNode, ReadConfig, ReadPod, Window, Drop, Keep
  <1>7. CASE Ensure
    <2>1. aim \in Refs
      BY <1>7 DEF Ensure
    <2>2. [ref |-> aim, expired |-> FALSE, spent |-> FALSE] \in Keys
      BY <2>1 DEF Keys
    <2>3. /\ keys' \in [KeyIds -> Keys \cup {None}]
          /\ (kept' = kept /\ stage' = "state") \/ kept' \in KeyIds
      BY <1>7, <2>2 DEF Ensure, UnusedKeys
    <2> QED
      BY <1>1, <1>7, <2>1, <2>3 DEF Ensure
  <1>8. CASE Save
    <2>1. config' \in Configs /\ pod' \in Pods \cup {None}
      BY <1>8 DEF Save, Saved, Configs, Pods
    <2> QED
      BY <1>1, <1>8, <2>1 DEF Save
  <1>9. CASE EnsureState
    <2>1. state' \in States
      BY <1>9 DEF EnsureState, States
    <2> QED
      BY <1>1, <1>9, <2>1 DEF EnsureState
  <1>10. CASE ApplySts
    BY <1>1, <1>10 DEF ApplySts, Forget
  <1> QED
    BY <1>3, <1>4, <1>5, <1>6, <1>7, <1>8, <1>9, <1>10

(* How a reconcile begins, fails, and gives the proxy up. *)
LEMMA TypedGivesUp ==
    ASSUME Typed,
           \/ Begin \/ Fail \/ SaveFails
           \/ (Teardown \/ ForgetNode \/ Cleanup \/ Release) /\ Notified
    PROVE  Typed'
  <1> USE DEF Typed, ProxyTypeOK, Staged, Provisioning, Stages, objects, locals, Goto
  <1>1. CASE Begin
    <2>0. /\ queued' = FALSE /\ aim' = target
          /\ UNCHANGED <<target, objects, pod, keys, nodes, seen, kept, plan, edits, faults>>
      BY <1>1 DEF Begin
    <2>1. \/ target \in Refs /\ finalizer' = TRUE /\ stage' = "retarget"
          \/ UNCHANGED finalizer /\ stage' = "teardown"
          \/ UNCHANGED finalizer /\ stage = "idle" /\ stage' = "idle"
      BY <1>1 DEF Begin
    <2>2. stage' \in Stages /\ finalizer' \in BOOLEAN /\ aim' \in Refs \cup Exits
      BY <2>0, <2>1
    <2>3. Staged'
      BY <2>0, <2>1
    <2> HIDE DEF Staged, Provisioning, Stages, Goto
    <2> QED
      BY <2>0, <2>2, <2>3
  <1>2. CASE Fail
    BY <1>2, FaultTypes DEF Fail, Forget
  <1>3. CASE SaveFails
    <2>1. config' \in Configs \cup {None}
      <3>1. [key |-> kept, elapsed |-> FALSE] \in Configs
        BY <1>3 DEF SaveFails, Configs
      <3> QED
        BY <1>3, <3>1 DEF SaveFails, Saved
    <2>2. pod' \in Pods \cup {None}
      <3>1. pod # None => [pod EXCEPT !.exit = "before"] \in Pods
        BY DEF Pods
      <3> QED
        BY <1>3, <3>1 DEF SaveFails, Saved
    <2>3. keys' \in [KeyIds -> Keys \cup {None}]
      BY <1>3 DEF SaveFails
    <2> QED
      BY <1>3, <2>1, <2>2, <2>3, FaultTypes DEF SaveFails, Forget
  <1>4. CASE Teardown /\ Notified
    <2>1. Recorded \in [ref : Refs, node : NodeIds] \cup {None}
      BY KnownTypes DEF Recorded
    <2> QED
      BY <1>4, <2>1, NotifiedTypes DEF Teardown
  <1>5. CASE ForgetNode /\ Notified
    <2>1. nodes' \in [Refs -> [NodeIds -> Rows \cup {None}]]
      BY <1>5 DEF ForgetNode
    <2> QED
      BY <1>5, <2>1, NotifiedTypes, FaultTypes DEF ForgetNode
  <1>6. CASE (Cleanup \/ Release) /\ Notified
    BY <1>6, NotifiedTypes, FaultTypes DEF Cleanup, Release, Forget
  <1> QED
    BY <1>1, <1>2, <1>3, <1>4, <1>5, <1>6

LEMMA DieTypes ==
    ASSUME pod \in Pods, Die
    PROVE  pod' \in Pods
  BY DEF Pods, Die

LEMMA SpentTypes ==
    ASSUME keys \in [KeyIds -> Keys \cup {None}], NEW k, NEW r, Usable(k, r),
           keys' = [keys EXCEPT ![k].spent = TRUE]
    PROVE  keys' \in [KeyIds -> Keys \cup {None}]
  BY DEF Keys, Usable

(* The pod.  What it does leaves the reconcile alone. *)
LEMMA TypedPod ==
    ASSUME Typed, PodRuns
    PROVE  Typed'
  <1> USE DEF Typed, ProxyTypeOK, Staged, objects, locals, operator
  <1>1. queued' \in BOOLEAN
    BY NotifiedTypes DEF PodRuns
  <1>2. CASE PodCreate \/ PodRemove
    <2>1. sts # None => [login |-> sts, key |-> None, node |-> None, status |-> "created",
                         written |-> FALSE, exit |-> "none"] \in Pods
      BY DEF Pods
    <2>2. pod' \in Pods \cup {None}
      BY <1>2, <2>1 DEF PodCreate, PodRemove
    <2> QED
      BY <1>1, <1>2, <2>2 DEF PodCreate, PodRemove
  <1>3. CASE PodStart
    <2>1. pod \in Pods /\ config \in Configs /\ state \in States
      BY <1>3 DEF PodStart
    <2>2. pod' \in Pods
      BY <1>3, <2>1 DEF PodStart, Pods, Configs, States
    <2>3. faults' \in 0 .. MaxFaults
      BY <1>3, FaultTypes DEF PodStart
    <2> QED
      BY <1>1, <1>3, <2>2, <2>3 DEF PodStart
  <1>4. CASE PodRegister
    <2> DEFINE r == pod.login
               n == pod.node
    <2>1. pod \in Pods /\ r \in Refs /\ n \in NodeIds \cup {None}
      BY <1>4 DEF PodRegister, Pods
    <2>2. CASE Accepted(r, n) /\ pod' = [pod EXCEPT !.status = "up"] /\ UNCHANGED <<state, keys, nodes>>
      <3>1. pod' \in Pods
        BY <2>1, <2>2 DEF Pods
      <3> QED
        BY <1>1, <1>4, <2>2, <3>1 DEF PodRegister
    <2>3. CASE /\ nodes' = [nodes EXCEPT ![r][n] = [expired |-> FALSE, refused |-> "no"]]
               /\ keys' = [keys EXCEPT ![pod.key].spent = TRUE]
               /\ Usable(pod.key, r)
               /\ pod' = [pod EXCEPT !.status = "up"]
               /\ UNCHANGED state
      <3>1. pod' \in Pods
        BY <2>1, <2>3 DEF Pods
      <3>2. nodes' \in [Refs -> [NodeIds -> Rows \cup {None}]]
        BY <2>1, <2>3 DEF Rows
      <3>3. keys' \in [KeyIds -> Keys \cup {None}]
        BY <2>3, SpentTypes
      <3>4. UNCHANGED <<target, operator, config, sts, edits, faults>>
        BY <1>4 DEF PodRegister
      <3> QED
        BY <1>1, <2>3, <3>1, <3>2, <3>3, <3>4
    <2>4. ASSUME NEW m \in UnusedNodes(r),
                 nodes' = [nodes EXCEPT ![r][m] = [expired |-> FALSE, refused |-> "no"]],
                 keys' = [keys EXCEPT ![pod.key].spent = TRUE],
                 Usable(pod.key, r), state # None,
                 state' = [state EXCEPT !.node = m],
                 pod' = [pod EXCEPT !.status = "up", !.node = m]
          PROVE  Typed'
      <3>1. m \in NodeIds
        BY DEF UnusedNodes
      <3>2. pod' \in Pods /\ state' \in States
        BY <2>1, <2>4, <3>1 DEF Pods, States
      <3>3. nodes' \in [Refs -> [NodeIds -> Rows \cup {None}]]
        BY <2>1, <2>4, <3>1 DEF Rows
      <3>4. keys' \in [KeyIds -> Keys \cup {None}]
        BY <2>4, SpentTypes
      <3>5. UNCHANGED <<target, operator, config, sts, edits, faults>>
        BY <1>4 DEF PodRegister
      <3> QED
        BY <1>1, <3>2, <3>3, <3>4, <3>5
    <2>5. CASE Die /\ UNCHANGED <<state, keys, nodes>>
      BY <1>1, <1>4, <2>1, <2>5, DieTypes DEF PodRegister
    <2> QED
      BY <1>4, <2>2, <2>3, <2>4, <2>5 DEF PodRegister
  <1>5. CASE PodWrite
    <2>1. pod \in Pods
      BY <1>5 DEF PodWrite
    <2>2. pod' \in Pods
      BY <1>5, <2>1, DieTypes DEF PodWrite, Pods
    <2>3. state' \in States \cup {None}
      BY <1>5, <2>1 DEF PodWrite, Pods, States
    <2> QED
      BY <1>1, <1>5, <2>2, <2>3 DEF PodWrite
  <1>6. CASE PodLoses
    BY <1>1, <1>6, DieTypes DEF PodLoses
  <1> QED
    BY <1>2, <1>3, <1>4, <1>5, <1>6 DEF PodRuns

(* Users, administrators and time. *)
LEMMA TypedEnvironment ==
    ASSUME Typed, Environment
    PROVE  Typed'
  <1> USE DEF Typed, ProxyTypeOK, Staged, objects, locals, operator
  <1>1. CASE PodCrash /\ Notified
    BY <1>1, NotifiedTypes, FaultTypes, DieTypes DEF PodCrash
  <1>2. CASE Edit /\ Notified
    BY <1>2, NotifiedTypes, ProxyConstants DEF Edit
  <1>3. CASE Disturb /\ Notified
    <2>1. [expired |-> TRUE, refused |-> "no"] \in Rows
      BY DEF Rows
    <2>2. \A why \in {"key", "identity"} : [expired |-> FALSE, refused |-> why] \in Rows
      BY DEF Rows
    <2>3. \E r \in Refs, n \in NodeIds, row \in Rows \cup {None} : nodes' = [nodes EXCEPT ![r][n] = row]
      BY <1>3, <2>1, <2>2 DEF Disturb
    <2>4. nodes' \in [Refs -> [NodeIds -> Rows \cup {None}]]
      BY <2>3
    <2> QED
      BY <1>3, <2>4, NotifiedTypes, FaultTypes DEF Disturb
  <1>4. ASSUME NEW k \in KeyIds, ExpireKey(k), Notified PROVE Typed'
    <2>1. keys' \in [KeyIds -> Keys \cup {None}]
      BY <1>4 DEF ExpireKey, Keys
    <2> QED
      BY <1>4, <2>1, NotifiedTypes, FaultTypes DEF ExpireKey
  <1>5. CASE Elapse
    <2>1. config' \in Configs
      BY <1>5 DEF Elapse, Configs
    <2> QED
      BY <1>5, <2>1 DEF Elapse
  <1> QED
    BY <1>1, <1>2, <1>3, <1>4, <1>5 DEF Environment

LEMMA TypedNext == Typed /\ [Next]_vars => Typed'
  <1>1. Typed /\ UNCHANGED vars => Typed'
    BY DEF vars, objects, locals, Typed, ProxyTypeOK, Staged
  <1> QED
    BY <1>1, TypedProvision, TypedGivesUp, TypedPod, TypedEnvironment DEF Next, Reconcile

(* Every variable keeps its type, and a reconcile that provisions works for an
   instance. *)
THEOREM ProxyTypes == Spec => []ProxyTypeOK
  <1>1. Typed => ProxyTypeOK
    BY DEF Typed
  <1> QED
    BY <1>1, TypedInit, TypedNext, PTL DEF Spec

-----------------------------------------------------------------------------
(* The record of a node's id. *)

Forgotten == seen # None => nodes[seen.ref][seen.node] = None

(* Where a reconcile is about to delete the record for good. *)
Dropping ==
    \/ stage = "cleanup"
    \/ plan = "retarget" /\ stage \in {"dropConfig", "dropState"}

Deregistered == Dropping => Forgotten

(* Nobody but the operator deletes a state Secret. *)
LEMMA RecordKept ==
    ASSUME Typed, [Next]_vars, state # None, state' = None
    PROVE  DropState \/ Cleanup
  <1> USE DEF objects, operator, Goto
  <1>1. state \in States /\ None \notin States
    BY NoneIsNoObject DEF Typed, ProxyTypeOK
  <1>2. CASE Reconcile
    <2>1. ~EnsureState
      <3>1. CASE EnsureState
        <4>1. state' = [state EXCEPT !.ref = aim] /\ aim \in Refs
          BY <1>1, <3>1 DEF EnsureState, Typed, Staged, Provisioning, Stages
        <4>2. state' \in States
          BY <1>1, <4>1 DEF States
        <4> QED
          BY <1>1, <4>2
      <3> QED
        BY <3>1
    <2> QED
      BY <1>2, <2>1
      DEF Reconcile, Begin, Retarget, ForgetOld, DropConfig, Rotate, GetNode, ReadConfig, ReadPod,
          Window, Ensure, Save, ApplySts, Teardown, ForgetNode, Release
  <1>3. CASE PodRuns
    <2>1. CASE PodRegister
      <3>1. \E m \in NodeIds : state' = [state EXCEPT !.node = m]
        BY <2>1 DEF PodRegister, UnusedNodes
      <3>2. state' \in States
        BY <1>1, <3>1 DEF States
      <3> QED
        BY <1>1, <3>2
    <2>2. CASE PodWrite
      <3>1. state' = [state EXCEPT !.device = pod.node] /\ pod \in Pods
        BY <2>2 DEF PodWrite, Typed, ProxyTypeOK
      <3>2. state' \in States
        BY <1>1, <3>1 DEF States, Pods
      <3> QED
        BY <1>1, <3>2
    <2> QED
      BY <1>3, <2>1, <2>2 DEF PodRuns, PodCreate, PodStart, PodLoses, PodRemove
  <1>4. CASE Fail \/ SaveFails \/ Environment \/ UNCHANGED vars
    BY <1>4 DEF Fail, SaveFails, Environment, PodCrash, Edit, Disturb, ExpireKey, Elapse, vars
  <1> QED
    BY <1>2, <1>3, <1>4 DEF Next

(* A node that is gone is not registered again under the id that the operator has
   read: headscale gives no id twice. *)
LEMMA GoneStays ==
    ASSUME Typed, Forgotten, PodRuns \/ Environment
    PROVE  Forgotten'
  <1> USE DEF operator, locals
  <1>1. UNCHANGED seen
    BY DEF PodRuns, PodCreate, PodStart, PodRegister, PodWrite, PodLoses, PodRemove,
           Environment, PodCrash, Edit, Disturb, ExpireKey, Elapse
  <1>2. seen # None => seen.ref \in Refs /\ seen.node \in NodeIds
    BY DEF Typed, ProxyTypeOK
  <1>3. nodes \in [Refs -> [NodeIds -> Rows \cup {None}]]
    BY DEF Typed, ProxyTypeOK
  <1>4. CASE UNCHANGED nodes
    BY <1>1, <1>4 DEF Forgotten
  <1>5. ASSUME NEW r \in Refs, NEW n \in NodeIds, NEW row,
               nodes' = [nodes EXCEPT ![r][n] = row],
               seen # None => r # seen.ref \/ n # seen.node
        PROVE  Forgotten'
    BY <1>1, <1>2, <1>3, <1>5 DEF Forgotten
  <1>6. CASE PodRegister
    <2>0. pod.login \in Refs /\ pod.node \in NodeIds \cup {None}
      BY <1>6 DEF PodRegister, Typed, ProxyTypeOK, Pods
    <2>1. \/ UNCHANGED nodes
          \/ pod.node # None /\ nodes[pod.login][pod.node] # None
             /\ nodes' = [nodes EXCEPT ![pod.login][pod.node] = [expired |-> FALSE, refused |-> "no"]]
          \/ \E m \in UnusedNodes(pod.login) :
                nodes' = [nodes EXCEPT ![pod.login][m] = [expired |-> FALSE, refused |-> "no"]]
      BY <1>6 DEF PodRegister
    <2>2. \A m \in UnusedNodes(pod.login) : m \in NodeIds /\ (seen # None => m # seen.node)
      BY DEF UnusedNodes
    <2>3. seen # None => nodes[seen.ref][seen.node] = None
      BY DEF Forgotten
    <2>4. CASE /\ pod.node # None /\ nodes[pod.login][pod.node] # None
               /\ nodes' = [nodes EXCEPT ![pod.login][pod.node] = [expired |-> FALSE, refused |-> "no"]]
      <3>1. seen # None => pod.login # seen.ref \/ pod.node # seen.node
        BY <2>3, <2>4
      <3> QED
        BY <1>5, <2>0, <2>4, <3>1
    <2>5. ASSUME NEW m \in UnusedNodes(pod.login),
                 nodes' = [nodes EXCEPT ![pod.login][m] = [expired |-> FALSE, refused |-> "no"]]
          PROVE  Forgotten'
      BY <1>5, <2>0, <2>2, <2>5
    <2> QED
      BY <1>4, <2>1, <2>4, <2>5
  <1>7. CASE Disturb
    <2>1. \E r \in Refs, n \in NodeIds : nodes[r][n] # None /\ \E row : nodes' = [nodes EXCEPT ![r][n] = row]
      BY <1>7 DEF Disturb
    <2> QED
      BY <1>5, <2>1 DEF Forgotten
  <1> QED
    BY <1>4, <1>6, <1>7
    DEF PodRuns, PodCreate, PodStart, PodWrite, PodLoses, PodRemove, Environment, PodCrash, Edit,
        ExpireKey, Elapse

LEMMA DeregisteredNext ==
    ASSUME Typed, Deregistered, [Next]_vars
    PROVE  Deregistered'
  <1> USE DEF Goto, operator, locals, objects
  <1>1. seen # None => seen.ref \in Refs /\ seen.node \in NodeIds
    BY DEF Typed, ProxyTypeOK
  <1>2. nodes \in [Refs -> [NodeIds -> Rows \cup {None}]]
    BY DEF Typed, ProxyTypeOK
  <1>3. CASE PodRuns \/ Environment
    <2>1. UNCHANGED <<stage, plan>>
      BY <1>3
      DEF PodRuns, PodCreate, PodStart, PodRegister, PodWrite, PodLoses, PodRemove,
          Environment, PodCrash, Edit, Disturb, ExpireKey, Elapse
    <2> QED
      BY <1>3, <2>1, GoneStays DEF Deregistered, Dropping
  <1>4. CASE ForgetOld \/ ForgetNode
    <2>1. seen # None
      BY <1>4 DEF ForgetOld, ForgetNode, Typed, Staged
    <2> QED
      BY <1>1, <1>2, <1>4, <2>1 DEF ForgetOld, ForgetNode, Deregistered, Forgotten
  <1>5. CASE Retarget \/ Teardown
    BY <1>5 DEF Retarget, Teardown, Deregistered, Dropping, Forgotten
  <1>6. CASE DropConfig
    BY <1>6 DEF DropConfig, Deregistered, Dropping, Forgotten
  <1>7. CASE GetNode \/ ReadPod \/ Window
    BY <1>7 DEF GetNode, ReadPod, Window, Drop, Keep, Deregistered, Dropping
  <1>8. CASE Begin \/ DropState \/ Rotate \/ ReadConfig \/ Ensure \/ Save \/ EnsureState \/ ApplySts
             \/ Cleanup \/ Release \/ Fail \/ SaveFails
    BY <1>8
    DEF Begin, DropState, Rotate, ReadConfig, Ensure, Save, EnsureState, ApplySts, Cleanup, Release,
        Fail, SaveFails, Deregistered, Dropping
  <1>9. CASE UNCHANGED vars
    BY <1>9 DEF vars, Deregistered, Dropping, Forgotten
  <1> QED
    BY <1>3, <1>4, <1>5, <1>6, <1>7, <1>8, <1>9 DEF Next, Reconcile

(* When teardown or a retarget deletes the record of a node's id, the node whose id
   they have read in it is gone, whatever failed and whatever pods, users and
   administrators did meanwhile. *)
THEOREM RecordAlwaysOutlivesNode == Spec => RecordOutlivesNode
  <1>1. Init => Deregistered
    BY DEF Init, Deregistered, Dropping
  <1>2. Typed /\ Deregistered /\ [Next]_vars =>
            [/\ state # None /\ state' = None
             /\ stage = "cleanup" \/ plan = "retarget"
             /\ seen # None
             => nodes[seen.ref][seen.node] = None]_vars
    BY RecordKept DEF DropState, Cleanup, Deregistered, Dropping, Forgotten
  <1>3. Typed /\ Deregistered /\ [Next]_vars => Deregistered'
    BY DeregisteredNext
  <1> QED
    BY <1>1, <1>2, <1>3, TypedInit, TypedNext, PTL DEF Spec, RecordOutlivesNode

-----------------------------------------------------------------------------
(* What a reconcile leaves behind *)

(* The operator has done all that it has been told of. *)
AtRest == stage = "idle" /\ ~queued

(* What the operator keeps for a proxy. *)
Provided ==
    /\ finalizer
    /\ config # None
    /\ state # None /\ state.ref = target
    /\ sts = target

Bare == objects = <<None, None, None>>

GivingUp == {"teardown", "forget", "cleanup", "release"}

(* What a reconcile works for has changed only if another one is due. *)
Heeds == stage # "idle" => (queued \/ aim = target)

Purposeful ==
    /\ stage # "idle" => finalizer
    /\ stage \in GivingUp => aim \in Exits

(* What the last stages of a reconcile have seen to. *)
Furnished ==
    /\ stage \in {"state", "sts"} => config # None
    /\ stage = "sts" => state # None /\ state.ref = aim
    /\ (AtRest /\ target \in Refs) => Provided

(* Without faults nothing is left of a proxy that is given up. *)
Stripped ==
    /\ (AtRest /\ target \in Exits) => ~finalizer
    /\ (faults = 0 /\ (stage = "release" \/ (stage = "idle" /\ ~finalizer))) => Bare

Resting == Heeds /\ Purposeful /\ Furnished /\ Stripped

(* An event that changes what the parent's reconcile is told of queues it. *)
LEMMA NotifiedQueues ==
    ASSUME Typed, Notified
    PROVE  /\ queued => queued'
           /\ ~queued' => UNCHANGED Watched
  BY DEF Notified

LEMMA HeedsNext ==
    ASSUME Typed, Heeds, [Next]_vars
    PROVE  Heeds'
  <1> USE DEF Heeds, objects, operator, locals, Goto, Watched
  <1>1. CASE Begin
    BY <1>1 DEF Begin
  <1>2. CASE Fail \/ SaveFails
    BY <1>2 DEF Fail, SaveFails
  <1>3. CASE /\ \/ Retarget \/ ForgetOld \/ DropConfig \/ DropState
                \/ Rotate \/ GetNode \/ ReadConfig \/ ReadPod \/ Window
                \/ Ensure \/ Save \/ EnsureState
                \/ Teardown \/ ForgetNode \/ Cleanup
             /\ Notified
    <2>1. stage # "idle" /\ UNCHANGED <<target, aim>>
      BY <1>3 DEF Retarget, ForgetOld, DropConfig, DropState, Rotate, GetNode, ReadConfig, ReadPod,
            Window, Ensure, Save, EnsureState, Teardown, ForgetNode, Cleanup
    <2> QED
      BY <1>3, <2>1, NotifiedQueues
  <1>4. CASE ApplySts \/ Release
    BY <1>4 DEF ApplySts, Release
  <1>5. CASE PodRuns \/ Environment
    <2>1. UNCHANGED <<stage, aim>>
      BY <1>5 DEF PodRuns, PodCreate, PodStart, PodRegister, PodWrite, PodLoses, PodRemove,
            Environment, PodCrash, Edit, Disturb, ExpireKey, Elapse
    <2>2. Notified \/ UNCHANGED <<target, queued>>
      BY <1>5 DEF PodRuns, Environment, Elapse
    <2> QED
      BY <2>1, <2>2, NotifiedQueues
  <1>6. CASE UNCHANGED vars
    BY <1>6 DEF vars
  <1> QED
    BY <1>1, <1>2, <1>3, <1>4, <1>5, <1>6 DEF Next, Reconcile

LEMMA PurposefulNext ==
    ASSUME Typed, Purposeful, [Next]_vars
    PROVE  Purposeful'
  <1> USE DEF Purposeful, GivingUp, objects, operator, locals, Goto
  <1>1. CASE Begin
    BY <1>1 DEF Begin
  <1>2. CASE Fail \/ SaveFails \/ ApplySts \/ Release
    BY <1>2 DEF Fail, SaveFails, ApplySts, Release
  <1>3. CASE \/ Retarget \/ ForgetOld \/ DropConfig \/ DropState
             \/ Rotate \/ GetNode \/ ReadConfig \/ ReadPod \/ Window
             \/ Ensure \/ Save \/ EnsureState
    BY <1>3 DEF Retarget, ForgetOld, DropConfig, DropState, Rotate, GetNode, ReadConfig, ReadPod,
          Window, Ensure, Save, EnsureState, Drop, Keep
  <1>4. CASE Teardown \/ ForgetNode \/ Cleanup
    BY <1>4 DEF Teardown, ForgetNode, Cleanup
  <1>5. CASE PodRuns \/ Environment
    BY <1>5 DEF PodRuns, PodCreate, PodStart, PodRegister, PodWrite, PodLoses, PodRemove,
          Environment, PodCrash, Edit, Disturb, ExpireKey, Elapse
  <1>6. CASE UNCHANGED vars
    BY <1>6 DEF vars
  <1> QED
    BY <1>1, <1>2, <1>3, <1>4, <1>5, <1>6 DEF Next, Reconcile

(* What the pod and others do to the objects: a Secret's window elapses, and the
   pod writes to the state Secret, whose headscale_ref it leaves alone. *)
LEMMA ObjectsKept ==
    ASSUME Typed, PodRuns \/ Environment
    PROVE  /\ UNCHANGED <<stage, finalizer, aim, sts>>
           /\ faults' = 0 => faults = 0
           /\ config' = None <=> config = None
           /\ state' = None <=> state = None
           /\ state # None => state'.ref = state.ref
           /\ ~queued' => ~queued /\ UNCHANGED target
  <1> USE DEF Typed, ProxyTypeOK, objects, operator, locals
  <1>1. UNCHANGED <<stage, finalizer, aim, sts>> /\ (faults' = 0 => faults = 0)
    BY ProxyConstants
    DEF PodRuns, PodCreate, PodStart, PodRegister, PodWrite, PodLoses, PodRemove, Fault,
        Environment, PodCrash, Edit, Disturb, ExpireKey, Elapse
  <1>2. config' = None <=> config = None
    <2>1. CASE Elapse
      <3>1. config \in Configs /\ config' \in Configs
        BY <2>1 DEF Elapse, Configs
      <3> QED
        BY <3>1, NoneIsNoObject
    <2> QED
      BY <2>1 DEF PodRuns, PodCreate, PodStart, PodRegister, PodWrite, PodLoses, PodRemove,
          Environment, PodCrash, Edit, Disturb, ExpireKey
  <1>3. /\ state' = None <=> state = None
        /\ state # None => state'.ref = state.ref
    <2>1. CASE UNCHANGED state
      BY <2>1
    <2>2. ASSUME NEW m \in NodeIds \cup {None}, state # None,
                 state' = [state EXCEPT !.node = m] \/ state' = [state EXCEPT !.device = m]
          PROVE  state' # None /\ state'.ref = state.ref
      <3>1. state' \in States /\ state'.ref = state.ref
        BY <2>2 DEF States
      <3> QED
        BY <3>1, NoneIsNoObject
    <2>3. CASE PodRegister
      <3>1. \/ UNCHANGED state
            \/ state # None /\ \E m \in NodeIds : state' = [state EXCEPT !.node = m]
        BY <2>3 DEF PodRegister, UnusedNodes
      <3> QED
        BY <2>1, <2>2, <3>1
    <2>4. CASE PodWrite
      <3>1. pod.node \in NodeIds \cup {None}
        BY <2>4 DEF PodWrite, Pods
      <3> QED
        BY <2>1, <2>2, <2>4, <3>1 DEF PodWrite
    <2> QED
      BY <2>1, <2>3, <2>4 DEF PodRuns, PodCreate, PodStart, PodLoses, PodRemove,
          Environment, PodCrash, Edit, Disturb, ExpireKey, Elapse
  <1>4. ~queued' => ~queued /\ UNCHANGED target
    <2>1. Notified \/ UNCHANGED <<target, queued>>
      BY DEF PodRuns, Environment, Elapse
    <2> QED
      BY <2>1, NotifiedQueues DEF Watched
  <1> QED
    BY <1>1, <1>2, <1>3, <1>4

LEMMA FurnishedNext ==
    ASSUME Typed, Heeds, Purposeful, Furnished, [Next]_vars
    PROVE  Furnished'
  <1> USE DEF objects, operator, locals, Goto, AtRest
  <1>1. CASE Begin
    BY <1>1, ProxyConstants DEF Begin, Furnished, Purposeful
  <1>2. CASE Fail \/ SaveFails
    BY <1>2 DEF Fail, SaveFails, Furnished
  <1>3. CASE \/ Retarget \/ ForgetOld \/ DropConfig \/ DropState
             \/ Rotate \/ GetNode \/ ReadConfig \/ ReadPod \/ Window
    BY <1>3 DEF Retarget, ForgetOld, DropConfig, DropState, Rotate, GetNode, ReadConfig, ReadPod,
          Window, Drop, Keep, Furnished
  <1>4. CASE Ensure
    BY <1>4 DEF Ensure, Furnished
  <1>5. CASE Save
    <2>1. config' \in Configs
      BY <1>5 DEF Save, Saved, Configs, Typed, Staged
    <2> QED
      BY <1>5, <2>1, NoneIsNoObject DEF Save, Furnished
  <1>6. CASE EnsureState
    <2>1. state' \in States /\ state'.ref = aim
      BY <1>6 DEF EnsureState, States, Typed, ProxyTypeOK, Staged, Provisioning, Stages
    <2> QED
      BY <1>6, <2>1, NoneIsNoObject DEF EnsureState, Furnished
  <1>7. CASE ApplySts /\ Notified
    <2>1. /\ config' # None
          /\ state' # None /\ state'.ref = aim
          /\ sts' = aim
          /\ finalizer'
      BY <1>7 DEF ApplySts, Furnished, Purposeful
    <2>2. ~queued' => aim = target'
      BY <1>7, NotifiedQueues DEF ApplySts, Heeds
    <2> QED
      BY <1>7, <2>1, <2>2 DEF ApplySts, Furnished, Provided
  <1>8. CASE Teardown \/ ForgetNode \/ Cleanup
    BY <1>8 DEF Teardown, ForgetNode, Cleanup, Furnished
  <1>9. CASE Release /\ Notified
    <2>1. ~queued' => target' \in Exits
      BY <1>9, NotifiedQueues DEF Release, Heeds, Purposeful, GivingUp
    <2> QED
      BY <1>9, <2>1, ProxyConstants DEF Release, Furnished
  <1>10. CASE PodRuns \/ Environment
    BY <1>10, ObjectsKept DEF Furnished, Provided
  <1>11. CASE UNCHANGED vars
    BY <1>11 DEF vars, Furnished, Provided
  <1> QED
    BY <1>1, <1>2, <1>3, <1>4, <1>5, <1>6, <1>7, <1>8, <1>9, <1>10, <1>11 DEF Next, Reconcile

LEMMA StrippedNext ==
    ASSUME Typed, Heeds, Purposeful, Stripped, [Next]_vars
    PROVE  Stripped'
  <1> USE DEF objects, operator, locals, Goto, AtRest, Bare
  <1>1. CASE Begin
    BY <1>1, ProxyConstants DEF Begin, Stripped
  <1>2. CASE Fail \/ SaveFails
    <2>1. faults' # 0
      BY <1>2 DEF Fail, SaveFails, Fault, Typed, ProxyTypeOK
    <2> QED
      BY <1>2, <2>1 DEF Fail, SaveFails, Stripped
  <1>3. CASE \/ Retarget \/ ForgetOld \/ DropConfig \/ DropState
             \/ Rotate \/ GetNode \/ ReadConfig \/ ReadPod \/ Window
             \/ Ensure \/ Save \/ EnsureState
    BY <1>3 DEF Retarget, ForgetOld, DropConfig, DropState, Rotate, GetNode, ReadConfig, ReadPod,
          Window, Ensure, Save, EnsureState, Drop, Keep, Stripped
  <1>4. CASE ApplySts /\ Notified
    <2>1. finalizer' /\ aim \in Refs
      BY <1>4 DEF ApplySts, Purposeful, Typed, Staged, Provisioning, Stages
    <2>2. ~queued' => aim = target'
      BY <1>4, NotifiedQueues DEF ApplySts, Heeds
    <2> QED
      BY <1>4, <2>1, <2>2, ProxyConstants DEF ApplySts, Stripped
  <1>5. CASE Teardown \/ ForgetNode
    BY <1>5 DEF Teardown, ForgetNode, Stripped
  <1>6. CASE Cleanup
    <2>1. faults' = 0 => config' = None /\ state' = None /\ sts' = None
      BY <1>6 DEF Cleanup, Fault, Typed, ProxyTypeOK
    <2> QED
      BY <1>6, <2>1 DEF Cleanup, Stripped
  <1>7. CASE Release
    BY <1>7 DEF Release, Stripped
  <1>8. CASE PodRuns \/ Environment
    BY <1>8, ObjectsKept DEF Stripped
  <1>9. CASE UNCHANGED vars
    BY <1>9 DEF vars, Stripped
  <1> QED
    BY <1>1, <1>2, <1>3, <1>4, <1>5, <1>6, <1>7, <1>8, <1>9 DEF Next, Reconcile

LEMMA RestingAlways == Spec => [](Typed /\ Resting)
  <1>1. Init => Resting
    BY ProxyConstants
    DEF Init, Resting, Heeds, Purposeful, GivingUp, Furnished, Stripped, AtRest, Bare, objects
  <1>2. Typed /\ Resting /\ [Next]_vars => Resting'
    BY HeedsNext, PurposefulNext, FurnishedNext, StrippedNext DEF Resting
  <1> QED
    BY <1>1, <1>2, TypedInit, TypedNext, PTL DEF Spec

(* The safety core of Releases.  When the operator has done all that it has been
   told of, a parent that wants no proxy is released; if no call has failed,
   nothing is left of the proxy's objects.  That a write to a Secret or a change
   of the parent in the middle of a teardown is not lost is what it takes. *)
THEOREM ReleasedAtRest ==
    Spec => []((AtRest /\ target \in Exits) => Released /\ (faults = 0 => Bare))
  <1>1. Resting => ((AtRest /\ target \in Exits) => Released /\ (faults = 0 => Bare))
    BY DEF Resting, Stripped, Released, AtRest
  <1> QED
    BY <1>1, RestingAlways, PTL

(* The operator's part of Recovers.  When it has done all that it has been told
   of, a parent that wants a proxy has the finalizer, both Secrets, the state
   Secret for the instance it refers to, and a StatefulSet that logs in there,
   whatever failed, was retargeted or was deleted for a rotation before. *)
THEOREM ProvidedAtRest ==
    Spec => []((AtRest /\ target \in Refs) => Provided)
  <1>1. Resting => ((AtRest /\ target \in Refs) => Provided)
    BY DEF Resting, Furnished
  <1> QED
    BY <1>1, RestingAlways, PTL

=============================================================================
