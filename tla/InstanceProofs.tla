--------------------------- MODULE InstanceProofs ---------------------------
(***************************************************************************)
(* Theorems about a HeadscaleInstance, for every set of specs and policies *)
(* and any number of requests and faults.                                  *)
(***************************************************************************)
EXTENDS Instance, PlanTheorems

-----------------------------------------------------------------------------
(* Type correctness.  Generations and lives are bounded because each takes a
   request of the user, the one that the webhook still looks at included; and a
   call that runs in the pod finds the volume that the pod has mounted. *)
Pending == IF review["user"] = None THEN 0 ELSE 1

Counted ==
    /\ lives + Pending <= edits
    /\ inst # None => inst.generation + Pending <= edits

Backed ==
    /\ plan # <<>> => obj # None
    /\ pod # None => volume # None

Typed == InstanceTypeOK /\ Counted /\ Backed

LEMMA PlanTypes ==
    /\ CleanupPlan \in Seq(Calls)
    /\ \A s \in HeadscaleInstanceSpec : ApplyPlan(s) \in Seq(Calls)
  <1>1. CleanupPlan \in Seq(Calls)
    BY DEF CleanupPlan, Calls
  <1>2. /\ ensure_headscale \in Seq(Calls)
        /\ ensure_scim \in Seq(Calls)
        /\ delete_scim_if_exists \in Seq(Calls)
        /\ <<"probe">> \in Seq(Calls)
        /\ <<"ready", "key", "policy">> \in Seq(Calls)
        /\ <<"status">> \in Seq(Calls)
    BY DEF ensure_headscale, ensure_scim, delete_scim_if_exists, Calls, Pieces, Headscale, Scim
  <1>3. \A p, q \in Seq(Calls) : p \o q \in Seq(Calls)
    OBVIOUS
  <1>4. ASSUME NEW s \in HeadscaleInstanceSpec PROVE ApplyPlan(s) \in Seq(Calls)
    <2> DEFINE scim == IF s.scim THEN ensure_scim ELSE delete_scim_if_exists
    <2>1. scim \in Seq(Calls)
      BY <1>2
    <2> HIDE DEF scim
    <2>2. ensure_headscale \o <<"ready", "key", "policy">> \o scim \o <<"status">> \in Seq(Calls)
      BY <1>2, <1>3, <2>1
    <2> QED
      BY <1>2, <2>2 DEF ApplyPlan, scim
  <1> QED
    BY <1>1, <1>4

LEMMA ConfigTypes ==
    \A e \in SUBSET Keys : build_config(e) \in Configs
  BY DEF Configs

(* A child that is applied is one of the pieces, with a content of its kind. *)
LEMMA ChildTypes ==
    ASSUME Typed, ApplyChild
    PROVE  /\ \E p \in Pieces, content \in Configs \cup {None, "present"} :
                /\ Apply(p, content)
                /\ p \in Hashed => content \in Configs \cup {None}
                /\ p \notin Hashed => content \in {None, "present"}
  <1>1. plan # <<>> /\ obj \in HeadscaleInstances
    BY DEF ApplyChild, Call, Typed, Backed, InstanceTypeOK
  <1>2. build_config(obj.spec.extra_config) \in Configs
    BY <1>1, ConfigTypes DEF HeadscaleInstances, HeadscaleInstanceSpec
  <1> QED
    BY <1>2 DEF ApplyChild, desired_hash, Hashed, Pieces, Headscale, Scim

(* What the webhook does to a request, and to the counters of its module. *)
LEMMA HandleTypes ==
    ASSUME AdmissionTypeOK, NEW r \in Reviewers, Handle(r) \/ Abandon(r)
    PROVE  /\ AdmissionTypeOK'
           /\ review[r] # None
           /\ \A other \in Reviewers \ {r} : review'[other] = review[other]
  <1>1. review[r] \in Review /\ review[r] # None
    BY DEF AdmissionTypeOK, Handle, CreateMap, CreateJob, Await, Clean, At, Abandon
  <1>2. PICK now \in Review : Become(r, now)
    BY <1>1 DEF Handle, CreateMap, CreateJob, Await, Clean, Abandon, Deny, Become, Review, Phases
  <1>3. /\ DOMAIN review' = Reviewers
        /\ \A x \in Reviewers : review'[x] = None \/ review'[x] \in Review
        /\ \A other \in Reviewers \ {r} : review'[other] = review[other]
    BY <1>2 DEF Become, AdmissionTypeOK
  <1>4. litter' \in Nat /\ faults' \in 0 .. MaxFaults
    BY AdmissionConstants
    DEF AdmissionTypeOK, Handle, CreateMap, CreateJob, Await, Clean, Abandon, Fault
  <1> QED
    BY <1>1, <1>3, <1>4 DEF AdmissionTypeOK

LEMMA SubmitTypes ==
    ASSUME AdmissionTypeOK, NEW r \in Reviewers, NEW s \in HeadscaleInstanceSpec, Submit(r, s)
    PROVE  /\ DOMAIN review' = Reviewers
           /\ \A x \in Reviewers : review'[x] = None \/ review'[x] \in Review
           /\ litter' = litter
           /\ \A other \in Reviewers \ {r} : review'[other] = review[other]
  BY DEF Submit, AdmissionTypeOK, Review, Phases, validate

LEMMA ConsumeTypes ==
    ASSUME AdmissionTypeOK, NEW r \in Reviewers, Consume(r)
    PROVE  /\ DOMAIN review' = Reviewers
           /\ \A x \in Reviewers : review'[x] = None \/ review'[x] \in Review
           /\ litter' = litter
           /\ review'[r] = None
           /\ \A other \in Reviewers \ {r} : review'[other] = review[other]
  BY DEF Consume, AdmissionTypeOK

LEMMA TypedInit == Init => Typed
  <1> SUFFICES ASSUME Init PROVE Typed
    OBVIOUS
  <1>1. AdmissionTypeOK /\ review["user"] = None
    BY AdmissionConstants DEF Init, AdmissionInit, AdmissionTypeOK, Reviewers
  <1>2. plan \in Seq(Calls) /\ plan = <<>>
    BY EmptySeq DEF Init
  <1>3. DOMAIN objs = Pieces /\ \A p \in Pieces : objs[p] = None
    BY DEF Init, Nothing
  <1>4. 0 \in 0 .. MaxEdits
    BY InstanceConstants
  <1>5. InstanceTypeOK
    BY <1>1, <1>2, <1>3, <1>4 DEF Init, InstanceTypeOK, Hashed, Pieces, Headscale
  <1>6. Counted /\ Backed
    BY <1>1 DEF Init, Counted, Backed, Pending
  <1> QED
    BY <1>5, <1>6 DEF Typed

(* A plan that goes on by one call, or is dropped. *)
LEMMA ProgressTypes ==
    ASSUME Typed, plan # <<>>, Done \/ Stop
    PROVE  /\ plan' \in Seq(Calls)
           /\ obj' = None \/ obj' \in HeadscaleInstances
           /\ plan' # <<>> => obj' # None
  BY Plans, EmptySeq DEF Typed, InstanceTypeOK, Backed, Done, Stop

(* The condition that a reconcile reports is about the generation it began with. *)
LEMMA ConditionTypes ==
    ASSUME Typed, plan # <<>>
    PROVE  \A ready \in BOOLEAN, reason \in Reasons : Condition(ready, reason) \in Conditions
  <1>1. obj \in HeadscaleInstances
    BY DEF Typed, InstanceTypeOK, Backed
  <1> QED
    BY <1>1 DEF Condition, Conditions, HeadscaleInstances

LEMMA FailureTypes ==
    \A c : FailureReason(c) \in {None, "ChildApplyFailed", "ReconcileFailed"}
  <1> SUFFICES ASSUME NEW c PROVE FailureReason(c) \in {None, "ChildApplyFailed", "ReconcileFailed"}
    OBVIOUS
  <1>1. CASE c \in {"config", "service", "sts"}
    BY <1>1 DEF FailureReason, Scim
  <1>2. CASE c \in {"key", "save", "policy"} \cup Scim
    BY <1>2 DEF FailureReason, Scim
  <1>3. CASE c \in {"dropScimSts", "dropScimService", "dropToken"}
    BY <1>3 DEF FailureReason, Scim
  <1>4. CASE c = "dropScimVolume"
    BY <1>4 DEF FailureReason, Scim
  <1> QED
    BY <1>1, <1>2, <1>3, <1>4 DEF FailureReason

(* What a step of the controller may report. *)
LEMMA ReportTypes ==
    ASSUME Typed, plan # <<>>
    PROVE  /\ Condition(FALSE, "StatefulSetNotReady") \in Conditions
           /\ Condition(FALSE, "ReconcileFailed") \in Conditions
           /\ Condition(FALSE, "ChildApplyFailed") \in Conditions
           /\ Condition(FALSE, "ScimPolicyConflict") \in Conditions
           /\ Condition(FALSE, "ExternalSpecConflict") \in Conditions
           /\ Condition(FALSE, "ExternalUnreachable") \in Conditions
           /\ Condition(TRUE, "ExternalReachable") \in Conditions
           /\ Condition(TRUE, "StatefulSetReady") \in Conditions
  BY ConditionTypes DEF Reasons

(* A spec that is stored takes a generation, or a life. *)
LEMMA StoreTypes ==
    ASSUME Typed, NEW s \in HeadscaleInstanceSpec, Store(s),
           lives + 1 <= edits', inst # None => inst.generation + 1 <= edits', edits' \in 0 .. MaxEdits
    PROVE  /\ inst' \in HeadscaleInstances
           /\ inst'.generation <= edits'
           /\ lives' \in 0 .. MaxEdits
           /\ lives' <= edits'
           /\ inst # None => inst'.finalizer = inst.finalizer
  <1>1. lives \in Nat /\ lives \in 0 .. MaxEdits /\ MaxEdits \in Nat /\ edits' \in Nat /\ edits' <= MaxEdits
    BY InstanceConstants DEF Typed, InstanceTypeOK
  <1>2. CASE inst = None
    <2>1. lives' = lives + 1 /\ inst' = [spec |-> s, generation |-> 1, deleting |-> FALSE, finalizer |-> FALSE]
      BY <1>2 DEF Store
    <2>2. 1 \in Generations /\ 1 <= edits' /\ lives' \in 0 .. MaxEdits /\ lives' <= edits'
      BY <1>1, <2>1 DEF Generations
    <2>3. inst' \in HeadscaleInstances /\ inst'.generation = 1
      BY <2>1, <2>2 DEF HeadscaleInstances
    <2> QED
      BY <1>2, <2>2, <2>3
  <1>3. CASE inst # None
    <2> DEFINE g == IF s = inst.spec THEN inst.generation ELSE inst.generation + 1
    <2>1. inst \in HeadscaleInstances
      BY <1>3 DEF Typed, InstanceTypeOK
    <2>2. inst.generation \in Nat /\ 1 <= inst.generation
      BY <1>1, <2>1 DEF HeadscaleInstances, Generations
    <2>3. g \in Generations /\ g <= edits'
      BY <1>1, <1>3, <2>2 DEF Generations
    <2>4. inst' = [inst EXCEPT !.spec = s, !.generation = g] /\ lives' = lives
      BY <1>3 DEF Store
    <2> HIDE DEF g
    <2>5. inst' \in HeadscaleInstances /\ inst'.generation = g /\ inst'.finalizer = inst.finalizer
      BY <2>1, <2>3, <2>4 DEF HeadscaleInstances
    <2>6. lives <= edits'
      BY <1>1
    <2> QED
      BY <1>1, <2>3, <2>4, <2>5, <2>6
  <1> QED
    BY <1>2, <1>3

(* Steps of the controller. *)
LEMMA TypedReconcile ==
    ASSUME Typed, Reconcile \/ Fail
    PROVE  Typed'
  <1> USE DEF admission, user, cluster
  <1>0. /\ inst # None => inst \in HeadscaleInstances /\ inst.spec \in HeadscaleInstanceSpec
        /\ "operator" \in Reviewers /\ "user" \in Reviewers /\ "operator" # "user"
        /\ AdmissionTypeOK
    BY DEF Typed, InstanceTypeOK, HeadscaleInstances, Reviewers
  <1>1. CASE Adopt
    <2>1. Submit("operator", inst.spec) /\ UNCHANGED faults /\ inst # None
      BY <1>1 DEF Adopt
    <2>2. AdmissionTypeOK' /\ review'["user"] = review["user"]
      BY <1>0, <2>1, SubmitTypes DEF AdmissionTypeOK
    <2> QED
      BY <1>1, <2>2 DEF Adopt, Typed, InstanceTypeOK, Counted, Backed, Pending
  <1>2. CASE Begin
    <2>1. plan' \in Seq(Calls) /\ obj' = inst /\ inst # None /\ inst.finalizer
      BY <1>0, <1>2, PlanTypes DEF Begin
    <2> QED
      BY <1>0, <1>2, <2>1 DEF Begin, Typed, InstanceTypeOK, AdmissionTypeOK, Counted, Backed, Pending
  <1>3. CASE ApplyChild
    <2>1. PICK p \in Pieces, content \in Configs \cup {None, "present"} :
            /\ Apply(p, content)
            /\ p \in Hashed => content \in Configs \cup {None}
            /\ p \notin Hashed => content \in {None, "present"}
      BY <1>3, ChildTypes
    <2>2. DOMAIN objs = Pieces /\ plan # <<>>
      BY <1>3 DEF ApplyChild, Call, Typed, InstanceTypeOK
    <2>3. /\ DOMAIN objs' = Pieces
          /\ \A q \in Pieces : objs'[q] = IF q = p THEN content ELSE objs[q]
      BY <2>1, <2>2 DEF Apply
    <2>4. /\ \A q \in Hashed : objs'[q] = None \/ objs'[q] \in Configs
          /\ \A q \in Pieces \ Hashed : objs'[q] \in {None, "present"}
      BY <2>1, <2>3 DEF Typed, InstanceTypeOK, Hashed, Pieces, Headscale
    <2>5. Done
      BY <2>1 DEF Apply
    <2> QED
      BY <2>1, <2>2, <2>3, <2>4, <2>5, ProgressTypes
      DEF Apply, Typed, InstanceTypeOK, AdmissionTypeOK, Counted, Backed, Pending
  <1>4. CASE CheckReady
    <2>1. plan # <<>> /\ (Done \/ Stop)
      BY <1>4 DEF CheckReady, Call, Give
    <2>2. status' = status \/ status' \in Conditions
      BY <1>4, <2>1, ReportTypes DEF CheckReady, Give
    <2> QED
      BY <1>4, <2>1, <2>2, ProgressTypes
      DEF CheckReady, Typed, InstanceTypeOK, AdmissionTypeOK, Counted, Backed, Pending
  <1>5. CASE ensure_api_key
    <2>1. plan # <<>> /\ Len(plan) >= 1
      BY <1>5, Plans DEF ensure_api_key, Call, Typed, InstanceTypeOK
    <2>2. status' = status \/ status' \in Conditions
      BY <1>5, <2>1, ReportTypes DEF ensure_api_key, Give
    <2>3. CASE Done \/ Stop
      <3>1. volume' = volume \/ (volume \in Volumes /\ volume' = [volume EXCEPT !.keys = @ + 1])
        BY <1>5 DEF ensure_api_key, Up, Typed, InstanceTypeOK, Backed
      <3>2. volume' = volume \/ volume' \in Volumes
        BY <3>1 DEF Volumes
      <3>3. volume # None => volume' # None
        BY <3>1, <3>2, NoneIsNothing
      <3> QED
        BY <1>5, <2>1, <2>2, <2>3, <3>2, <3>3, ProgressTypes
        DEF ensure_api_key, Typed, InstanceTypeOK, AdmissionTypeOK, Counted, Backed, Pending
    <2>4. CASE Up /\ plan' = <<"save">> \o Tail(plan) /\ volume' = [volume EXCEPT !.keys = @ + 1] /\ UNCHANGED obj
      <3>1. volume \in Volumes
        BY <2>4 DEF Up, Typed, InstanceTypeOK, Backed
      <3>2. volume' \in Volumes /\ volume' # None
        BY <2>4, <3>1, NoneIsNothing DEF Volumes
      <3>3. Tail(plan) \in Seq(Calls) /\ <<"save">> \in Seq(Calls)
        BY <2>1, Plans DEF Typed, InstanceTypeOK, Calls
      <3>4. plan' \in Seq(Calls)
        BY <2>4, <3>3
      <3> QED
        BY <1>5, <2>1, <2>2, <2>4, <3>2, <3>4
        DEF ensure_api_key, Typed, InstanceTypeOK, AdmissionTypeOK, Counted, Backed, Pending
    <2> QED
      BY <1>5, <2>3, <2>4 DEF ensure_api_key, Give
  <1>6. CASE sync_policy
    <2>1. plan # <<>> /\ (Done \/ Stop)
      BY <1>6 DEF sync_policy, Call, Give
    <2>2. status' = status \/ status' \in Conditions
      BY <1>6, <2>1, ReportTypes DEF sync_policy, Give
    <2>3. obj.spec.policy \in Policies \cup {None}
      BY <2>1 DEF Typed, Backed, InstanceTypeOK, HeadscaleInstances, HeadscaleInstanceSpec
    <2>4. volume' = volume \/ (volume \in Volumes /\ volume' = [volume EXCEPT !.policy = obj.spec.policy])
      BY <1>6 DEF sync_policy, Up, Typed, InstanceTypeOK, Backed
    <2>5. volume' = volume \/ (volume' \in Volumes /\ volume' # None)
      BY <2>3, <2>4, NoneIsNothing DEF Volumes
    <2> QED
      BY <1>6, <2>1, <2>2, <2>5, ProgressTypes
      DEF sync_policy, Typed, InstanceTypeOK, AdmissionTypeOK, Counted, Backed, Pending
  <1>7. ASSUME NEW c, DropVolume(c) PROVE Typed'
    <2>1. plan # <<>> /\ Done
      BY <1>7 DEF DropVolume, Call
    <2>2. volume' = volume \/ (volume \in Volumes /\ volume' = [volume EXCEPT !.going = TRUE])
      BY <1>7 DEF DropVolume, Typed, InstanceTypeOK
    <2>3. volume' = volume \/ (volume' \in Volumes /\ volume' # None)
      BY <2>2, NoneIsNothing DEF Volumes
    <2>4. scimVolume' \in {None, "bound", "going"}
      BY <1>7 DEF DropVolume, Typed, InstanceTypeOK
    <2> QED
      BY <1>7, <2>1, <2>3, <2>4, ProgressTypes
      DEF DropVolume, Typed, InstanceTypeOK, AdmissionTypeOK, Counted, Backed, Pending
  <1>8. CASE ReportReady
    <2>1. plan # <<>> /\ Done
      BY <1>8 DEF ReportReady, Call
    <2>2. status' \in Conditions
      BY <1>8, <2>1, ReportTypes DEF ReportReady
    <2> QED
      BY <1>8, <2>1, <2>2, ProgressTypes
      DEF ReportReady, Typed, InstanceTypeOK, AdmissionTypeOK, Counted, Backed, Pending
  <1>9. CASE apply_external
    <2>1. plan # <<>> /\ Stop
      BY <1>9 DEF apply_external, Call, Give
    <2>2. status' \in Conditions
      BY <1>9, <2>1, ReportTypes DEF apply_external, Give
    <2>3. UNCHANGED faults \/ Fault
      BY <1>9 DEF apply_external
    <2>4. faults' \in 0 .. MaxFaults
      BY <1>0, <2>3, AdmissionConstants DEF Fault, AdmissionTypeOK
    <2> QED
      BY <1>9, <2>1, <2>2, <2>4, ProgressTypes
      DEF apply_external, Typed, InstanceTypeOK, AdmissionTypeOK, Counted, Backed, Pending
  <1>10. CASE AskToUnfinalize
    <2>1. Submit("operator", inst.spec) /\ UNCHANGED faults /\ inst # None
      BY <1>10 DEF AskToUnfinalize, Call, Typed, InstanceTypeOK
    <2>2. AdmissionTypeOK' /\ review'["user"] = review["user"]
      BY <1>0, <2>1, SubmitTypes DEF AdmissionTypeOK
    <2> QED
      BY <1>10, <2>2 DEF AskToUnfinalize, Typed, InstanceTypeOK, Counted, Backed, Pending
  <1>11. CASE Finalize
    <2>1. Consume("operator") /\ Stop /\ UNCHANGED <<bypassed, lives, edits, cluster, faults>>
      BY <1>11 DEF Finalize, Patched
    <2>2. AdmissionTypeOK' /\ review'["user"] = review["user"]
      BY <1>0, <2>1, ConsumeTypes DEF AdmissionTypeOK
    <2>3. \/ UNCHANGED <<inst, status>>
          \/ inst # None /\ inst' = [inst EXCEPT !.finalizer = TRUE] /\ UNCHANGED status
          \/ inst' = None /\ status' = None
      BY <1>11 DEF Finalize, Patched
    <2>4. inst' = None \/ (inst' \in HeadscaleInstances /\ inst # None /\ inst'.generation = inst.generation)
      <3>1. CASE inst # None /\ inst' = [inst EXCEPT !.finalizer = TRUE]
        <4>1. inst \in HeadscaleInstances
          BY <1>0, <3>1
        <4> QED
          BY <3>1, <4>1 DEF HeadscaleInstances
      <3> QED
        BY <1>0, <2>3, <3>1
    <2>5. status' = None \/ status' \in Conditions
      BY <2>3 DEF Typed, InstanceTypeOK
    <2>6. plan' = <<>> /\ plan' \in Seq(Calls) /\ obj' = None
      BY <2>1, EmptySeq DEF Stop
    <2> QED
      BY <2>1, <2>2, <2>4, <2>5, <2>6
      DEF Typed, InstanceTypeOK, Counted, Backed, Pending
  <1>12. CASE Fail
    <2>1. plan # <<>> /\ Stop
      BY <1>12 DEF Fail
    <2>2. FailureReason(Head(plan)) \in {None, "ChildApplyFailed", "ReconcileFailed"}
      BY FailureTypes
    <2>3. status' = status \/ status' \in Conditions
      BY <1>12, <2>1, <2>2, ReportTypes DEF Fail
    <2>4. faults' \in 0 .. MaxFaults
      BY <1>0, <1>12, AdmissionConstants DEF Fail, Fault, AdmissionTypeOK
    <2> QED
      BY <1>12, <2>1, <2>3, <2>4, ProgressTypes
      DEF Fail, Typed, InstanceTypeOK, AdmissionTypeOK, Counted, Backed, Pending
  <1> QED
    BY <1>1, <1>2, <1>3, <1>4, <1>5, <1>6, <1>7, <1>8, <1>9, <1>10, <1>11, <1>12 DEF Reconcile

(* Steps of the webhook, the user and the cluster. *)
LEMMA TypedOthers ==
    ASSUME Typed,
           \/ \E r \in Reviewers : Webhook(r)
           \/ Dropped \/ Request \/ Stored \/ Bypass \/ Delete \/ Cluster \/ PodDies
           \/ UNCHANGED vars
    PROVE  Typed'
  <1> USE DEF admission, user, cluster
  <1>0. /\ inst # None => inst \in HeadscaleInstances /\ inst.generation \in Generations
        /\ "operator" \in Reviewers /\ "user" \in Reviewers /\ "operator" # "user"
        /\ AdmissionTypeOK
        /\ MaxEdits \in Nat /\ edits \in Nat /\ edits <= MaxEdits /\ lives \in Nat
    BY InstanceConstants DEF Typed, InstanceTypeOK, HeadscaleInstances, Reviewers
  <1>1. ASSUME NEW r \in Reviewers, Handle(r) \/ Abandon(r),
               UNCHANGED <<user, status, cluster, plan, obj>>
        PROVE  Typed'
    <2>1. AdmissionTypeOK' /\ review[r] # None /\ \A x \in Reviewers \ {r} : review'[x] = review[x]
      BY <1>0, <1>1, HandleTypes
    <2>2. review["user"] = None => review'["user"] = None
      BY <1>0, <2>1
    <2>3. Counted'
      BY <1>0, <1>1, <2>2 DEF Typed, Counted, Pending, Generations
    <2> QED
      BY <1>1, <2>1, <2>3 DEF Typed, InstanceTypeOK, Backed
  <1>2. CASE Request
    <2>1. PICK s \in Specs : Submit("user", s)
      BY <1>2 DEF Request
    <2>2. AdmissionTypeOK' /\ review["user"] = None
      BY <1>0, <1>2, <2>1, SubmitTypes, AdmissionConstants DEF Request, Submit, AdmissionTypeOK
    <2>3. edits' = edits + 1 /\ edits' \in 0 .. MaxEdits
      BY <1>0, <1>2 DEF Request
    <2>4. Counted'
      BY <1>0, <1>2, <2>2, <2>3 DEF Request, Typed, Counted, Pending, Generations
    <2> QED
      BY <1>2, <2>2, <2>3, <2>4 DEF Request, Typed, InstanceTypeOK, Backed
  <1>3. CASE Stored
    <2>1. /\ Consume("user") /\ UNCHANGED <<bypassed, edits, status, cluster, plan, obj, faults>>
          /\ review["user"] # None
      BY <1>3 DEF Stored, Answered
    <2>2. AdmissionTypeOK' /\ review'["user"] = None
      BY <1>0, <2>1, ConsumeTypes DEF AdmissionTypeOK
    <2>3. lives + 1 <= edits /\ (inst # None => inst.generation + 1 <= edits)
      BY <2>1 DEF Typed, Counted, Pending
    <2>4. CASE Store(review["user"].spec)
      <3>1. review["user"].spec \in HeadscaleInstanceSpec
        BY <1>0, <2>1 DEF AdmissionTypeOK, Review
      <3>2. /\ inst' \in HeadscaleInstances /\ inst'.generation <= edits'
            /\ lives' \in 0 .. MaxEdits /\ lives' <= edits'
            /\ inst # None => inst'.finalizer = inst.finalizer
        BY <1>0, <2>1, <2>3, <2>4, <3>1, StoreTypes
      <3>3. inst' # None /\ inst'.generation \in Nat /\ lives' \in Nat
        BY <3>2, NoneIsNothing DEF HeadscaleInstances, Generations
      <3>4. Counted'
        BY <2>2, <3>2, <3>3 DEF Counted, Pending
      <3> QED
        BY <2>1, <2>2, <3>2, <3>3, <3>4 DEF Typed, InstanceTypeOK, Backed
    <2>5. CASE UNCHANGED <<inst, lives>>
      <3>1. Counted'
        BY <1>0, <2>1, <2>2, <2>3, <2>5 DEF Counted, Pending, Generations
      <3> QED
        BY <2>1, <2>2, <2>5, <3>1 DEF Typed, InstanceTypeOK, Backed
    <2> QED
      BY <1>3, <2>4, <2>5 DEF Stored
  <1>4. CASE Bypass
    <2>1. PICK s \in Specs : Store(s)
      BY <1>4 DEF Bypass
    <2>2. /\ edits' = edits + 1 /\ edits' \in 0 .. MaxEdits
          /\ review["user"] = None /\ UNCHANGED <<status, cluster, plan, obj, admission>> /\ bypassed'
      BY <1>0, <1>4 DEF Bypass
    <2>3. lives + 1 <= edits' /\ (inst # None => inst.generation + 1 <= edits')
      <3>1. lives <= edits /\ (inst # None => inst.generation \in Nat /\ inst.generation <= edits)
        BY <1>0, <2>2 DEF Typed, Counted, Pending, Generations
      <3> QED
        BY <1>0, <2>2, <3>1
    <2>4. /\ inst' \in HeadscaleInstances /\ inst'.generation <= edits'
          /\ lives' \in 0 .. MaxEdits /\ lives' <= edits'
          /\ inst # None => inst'.finalizer = inst.finalizer
      BY <2>1, <2>2, <2>3, StoreTypes, AdmissionConstants
    <2>5. inst' # None /\ inst'.generation \in Nat /\ lives' \in Nat
      BY <2>4, NoneIsNothing DEF HeadscaleInstances, Generations
    <2>6. Counted'
      BY <2>2, <2>4, <2>5 DEF Counted, Pending
    <2> QED
      BY <1>4, <2>2, <2>4, <2>5, <2>6 DEF Bypass, Typed, InstanceTypeOK, AdmissionTypeOK, Backed
  <1>5. CASE Delete
    <2>1. /\ edits' = edits + 1 /\ edits' \in 0 .. MaxEdits
          /\ inst # None /\ UNCHANGED <<bypassed, lives, cluster, plan, obj, admission>>
      BY <1>0, <1>5 DEF Delete
    <2>2. CASE inst.finalizer
      <3>1. inst \in HeadscaleInstances /\ inst' = [inst EXCEPT !.deleting = TRUE] /\ UNCHANGED status
        BY <1>0, <1>5, <2>1, <2>2 DEF Delete
      <3>2. inst' \in HeadscaleInstances /\ inst'.generation = inst.generation /\ inst'.finalizer
        BY <2>2, <3>1 DEF HeadscaleInstances
      <3>3. inst' # None
        BY <3>2, NoneIsNothing
      <3>4. Counted'
        BY <1>0, <2>1, <3>2 DEF Typed, Counted, Pending, Generations
      <3> QED
        BY <2>1, <3>1, <3>2, <3>3, <3>4 DEF Typed, InstanceTypeOK, AdmissionTypeOK, Backed
    <2>3. CASE ~inst.finalizer
      <3>1. inst' = None /\ status' = None /\ plan = <<>>
        BY <1>5, <2>3 DEF Delete, Typed, InstanceTypeOK
      <3>2. Counted'
        BY <1>0, <2>1, <3>1 DEF Typed, Counted, Pending
      <3> QED
        BY <2>1, <3>1, <3>2 DEF Typed, InstanceTypeOK, AdmissionTypeOK, Backed
    <2> QED
      BY <2>2, <2>3
  <1>6. CASE Cluster
    <2>0. UNCHANGED <<admission, user, status, plan, obj>>
      BY <1>6 DEF Cluster
    <2>1. /\ DOMAIN objs' = Pieces
          /\ \A p \in Pieces : objs'[p] = objs[p] \/ objs'[p] = None
      BY <1>6 DEF Cluster, StartPod, PodReady, RollPod, BindScim, ReleaseVolume, ReleaseScimVolume,
                  Collect, Typed, InstanceTypeOK
    <2>2. /\ \A p \in Hashed : objs'[p] = None \/ objs'[p] \in Configs
          /\ \A p \in Pieces \ Hashed : objs'[p] \in {None, "present"}
      BY <2>1 DEF Typed, InstanceTypeOK, Hashed, Pieces, Headscale
    <2>3. pod' = None \/ pod' \in Pods
      <3>1. CASE StartPod
        BY <3>1 DEF StartPod, Pods, Typed, InstanceTypeOK, Hashed
      <3>2. CASE PodReady
        BY <3>2 DEF PodReady, Pods, Typed, InstanceTypeOK
      <3> QED
        BY <1>6, <3>1, <3>2
        DEF Cluster, RollPod, BindScim, ReleaseVolume, ReleaseScimVolume, Collect, Typed, InstanceTypeOK
    <2>4. /\ volume' = None \/ volume' \in Volumes
          /\ pod' # None => volume' # None
      <3>1. CASE StartPod
        <4>1. [going |-> FALSE, policy |-> None, keys |-> 0] \in Volumes
          BY DEF Volumes
        <4> QED
          BY <3>1, <4>1, NoneIsNothing DEF StartPod, Typed, InstanceTypeOK
      <3> QED
        BY <1>6, <3>1
        DEF Cluster, PodReady, RollPod, BindScim, ReleaseVolume, ReleaseScimVolume, Collect,
            Typed, InstanceTypeOK, Backed
    <2>5. scimVolume' \in {None, "bound", "going"}
      BY <1>6
      DEF Cluster, StartPod, PodReady, RollPod, BindScim, ReleaseVolume, ReleaseScimVolume, Collect,
          Typed, InstanceTypeOK
    <2> QED
      BY <2>0, <2>1, <2>2, <2>3, <2>4, <2>5
      DEF Typed, InstanceTypeOK, AdmissionTypeOK, Counted, Backed, Pending
  <1>7. CASE PodDies
    <2>1. faults' \in 0 .. MaxFaults
      BY <1>0, <1>7, AdmissionConstants DEF PodDies, Fault, AdmissionTypeOK
    <2> QED
      BY <1>7, <2>1 DEF PodDies, Typed, InstanceTypeOK, AdmissionTypeOK, Counted, Backed, Pending
  <1>8. CASE UNCHANGED vars
    BY <1>8 DEF vars, Typed, InstanceTypeOK, AdmissionTypeOK, Counted, Backed, Pending
  <1> QED
    BY <1>1, <1>2, <1>3, <1>4, <1>5, <1>6, <1>7, <1>8 DEF Webhook, Dropped

LEMMA TypedNext == Typed /\ [Next]_vars => Typed'
  BY TypedReconcile, TypedOthers DEF Next

(* Every variable has its type, and no reconcile is under way for an instance
   that is gone or that has no finalizer. *)
THEOREM InstanceTypes == Spec => []InstanceTypeOK
  <1>1. Typed => InstanceTypeOK
    BY DEF Typed
  <1> QED
    BY <1>1, TypedInit, TypedNext, PTL DEF Spec

-----------------------------------------------------------------------------
(* ConfigMaps that a configtest leaves behind. *)

(* Only the webhook leaves one, and only at a fault; a fault that somebody else
   meets leaves none. *)
LEMMA LitterNext ==
    ASSUME Typed, LitterAccounted, [Next]_vars
    PROVE  LitterAccounted'
  <1> USE DEF LitterAccounted
  <1>0. litter \in Nat /\ faults \in Nat
    BY AdmissionConstants DEF Typed, InstanceTypeOK, AdmissionTypeOK
  <1>1. ASSUME NEW r \in Reviewers, Handle(r) \/ Abandon(r) PROVE LitterAccounted'
    BY <1>0, <1>1 DEF Handle, CreateMap, CreateJob, Await, Clean, Abandon, Fault
  <1>2. CASE UNCHANGED litter /\ (UNCHANGED faults \/ Fault)
    BY <1>0, <1>2 DEF Fault
  <1>3. CASE Reconcile
    BY <1>2, <1>3
    DEF Reconcile, Adopt, Submit, Begin, ApplyChild, Apply, CheckReady, ensure_api_key, sync_policy,
        DropVolume, ReportReady, apply_external, AskToUnfinalize, Finalize, Patched, Consume, admission
  <1>4. CASE Fail \/ Request \/ Stored \/ Bypass \/ Delete \/ Cluster \/ PodDies \/ UNCHANGED vars
    BY <1>2, <1>4
    DEF Fail, Request, Submit, Stored, Consume, Bypass, Delete, Cluster, PodDies, admission, vars
  <1> QED
    BY <1>1, <1>3, <1>4 DEF Next, Webhook, Dropped

(* Every ConfigMap of a configtest is deleted, but for one fault each at most:
   a Job that could not be created, a request that was given up while its
   ConfigMap was there, or a delete that failed. *)
THEOREM LitterAlwaysAccounted == Spec => []LitterAccounted
  <1>1. Init => LitterAccounted
    BY DEF Init, AdmissionInit, LitterAccounted
  <1> QED
    BY <1>1, TypedInit, TypedNext, LitterNext, PTL DEF Spec

-----------------------------------------------------------------------------
(* The order of a reconcile.  Every call has a rank, and a plan makes its calls
   by rank: so what has to come before the call that is next is behind it.  Only
   a mint puts a call into a plan, at its head. *)
Rank ==
    [c \in Calls |->
        CASE c = "probe" -> 0 [] c = "config" -> 1 [] c = "service" -> 2 [] c = "sts" -> 3
          [] c = "ready" -> 4 [] c = "key" -> 5 [] c = "save" -> 6 [] c = "policy" -> 7
          [] c = "token" -> 8 [] c = "scimSts" -> 9 [] c = "scimService" -> 10
          [] c = "dropScimSts" -> 11 [] c = "dropScimService" -> 12 [] c = "dropToken" -> 13
          [] c = "dropVolume" -> 14 [] c = "dropScimVolume" -> 15
          [] c = "status" -> 16 [] OTHER -> 17]

Ranked(p) ==
    \A i, j \in 1 .. Len(p) : i < j => Rank[p[i]] < Rank[p[j]] /\ p[j] # "save"

LEMMA RankedTail ==
    ASSUME NEW p \in Seq(Calls), p # <<>>, Ranked(p)
    PROVE  Ranked(Tail(p))
  <1>1. /\ Len(p) \in Nat /\ Len(Tail(p)) = Len(p) - 1
        /\ \A i \in 1 .. Len(Tail(p)) : Tail(p)[i] = p[i + 1]
    BY Plans
  <1> SUFFICES ASSUME NEW i \in 1 .. Len(Tail(p)), NEW j \in 1 .. Len(Tail(p)), i < j
               PROVE  Rank[Tail(p)[i]] < Rank[Tail(p)[j]] /\ Tail(p)[j] # "save"
    BY DEF Ranked
  <1>2. i + 1 \in 1 .. Len(p) /\ j + 1 \in 1 .. Len(p) /\ i + 1 < j + 1
    BY <1>1
  <1> QED
    BY <1>1, <1>2 DEF Ranked

(* What is behind the head of a plan. *)
LEMMA RankedHead ==
    ASSUME NEW p \in Seq(Calls), p # <<>>, Ranked(p), NEW c \in Calls, Rank[c] <= Rank[Head(p)]
    PROVE  ~Ahead(Tail(p), c)
  <1>1. /\ Head(p) = p[1] /\ Len(p) \in Nat /\ Len(p) >= 1 /\ Len(Tail(p)) = Len(p) - 1
        /\ \A i \in 1 .. Len(Tail(p)) : Tail(p)[i] = p[i + 1]
        /\ Head(p) \in Calls
    BY Plans
  <1>2. \A x \in Calls : Rank[x] \in Nat
    BY DEF Rank
  <1> SUFFICES ASSUME NEW i \in 1 .. Len(Tail(p)), Tail(p)[i] = c PROVE FALSE
    BY DEF Ahead
  <1>3. 1 \in 1 .. Len(p) /\ i + 1 \in 1 .. Len(p) /\ 1 < i + 1 /\ p[i + 1] = c
    BY <1>1
  <1>4. Rank[p[1]] < Rank[c]
    BY <1>3 DEF Ranked
  <1> QED
    BY <1>1, <1>2, <1>4

(* A mint's plan. *)
LEMMA RankedSave ==
    ASSUME NEW p \in Seq(Calls), p # <<>>, Ranked(p), Head(p) = "key"
    PROVE  LET q == <<"save">> \o Tail(p) IN
            /\ Ranked(q)
            /\ Head(q) = "save"
            /\ \A c : Ahead(q, c) <=> c = "save" \/ Ahead(Tail(p), c)
  <1> DEFINE q == <<"save">> \o Tail(p)
  <1>1. /\ Head(p) = p[1] /\ Len(p) \in Nat /\ Len(p) >= 1 /\ Len(Tail(p)) = Len(p) - 1
        /\ \A i \in 1 .. Len(Tail(p)) : Tail(p)[i] = p[i + 1]
        /\ Tail(p) \in Seq(Calls)
    BY Plans
  <1>2. /\ Len(q) = Len(p)
        /\ q[1] = "save" /\ Head(q) = "save"
        /\ \A i \in 2 .. Len(p) : q[i] = p[i]
    BY <1>1
  <1>3. \A x \in Calls : Rank[x] \in Nat /\ (Rank[x] > Rank["key"] /\ x # "save" => Rank[x] > Rank["save"])
    BY DEF Rank, Calls, Pieces, Headscale, Scim
  <1>4. \A i \in 1 .. Len(p) : p[i] \in Calls
    BY ElementOfSeq
  <1> HIDE DEF q
  <1>5. ASSUME NEW i \in 1 .. Len(q), NEW j \in 1 .. Len(q), i < j
        PROVE  Rank[q[i]] < Rank[q[j]] /\ q[j] # "save"
    <2>1. i \in 1 .. Len(p) /\ j \in 1 .. Len(p) /\ j \in 2 .. Len(p) /\ 1 \in 1 .. Len(p) /\ q[j] = p[j]
      BY <1>1, <1>2, <1>5
    <2>2. Rank[p[i]] < Rank[p[j]] /\ p[j] # "save"
      BY <1>5, <2>1 DEF Ranked
    <2>3. CASE i = 1
      BY <1>1, <1>2, <1>3, <1>4, <2>1, <2>2, <2>3
    <2>4. CASE i # 1
      <3>1. i \in 2 .. Len(p)
        BY <2>1, <2>4
      <3> QED
        BY <1>2, <2>1, <2>2, <3>1
    <2> QED
      BY <2>3, <2>4
  <1>6. ASSUME NEW c PROVE Ahead(q, c) <=> c = "save" \/ Ahead(Tail(p), c)
    <2>1. ASSUME NEW i \in 1 .. Len(q), q[i] = c, i # 1 PROVE Ahead(Tail(p), c)
      <3>1. i - 1 \in 1 .. Len(Tail(p)) /\ Tail(p)[i - 1] = c
        BY <1>1, <1>2, <2>1
      <3> QED
        BY <3>1 DEF Ahead
    <2>2. ASSUME NEW i \in 1 .. Len(Tail(p)), Tail(p)[i] = c PROVE Ahead(q, c)
      <3>1. i + 1 \in 1 .. Len(q) /\ i + 1 \in 2 .. Len(p) /\ q[i + 1] = c
        BY <1>1, <1>2, <2>2
      <3> QED
        BY <3>1 DEF Ahead
    <2>3. 1 \in 1 .. Len(q)
      BY <1>1, <1>2
    <2> QED
      BY <1>2, <2>1, <2>2, <2>3 DEF Ahead
  <1> QED
    BY <1>2, <1>5, <1>6 DEF Ranked, q

(* The calls of a reconcile, by the instance it began with. *)
Drops == {"dropScimSts", "dropScimService", "dropToken"}
ManagedCalls == Headscale \cup {"ready", "save", "policy", "status"}
CallsOf(o) ==
    IF o.deleting THEN {"dropVolume", "dropScimVolume", "unfinalize"}
    ELSE IF o.spec.external THEN {"probe"}
    ELSE ManagedCalls \cup IF o.spec.scim THEN Scim ELSE Drops \cup {"dropScimVolume"}

(* Two plans, one after the other. *)
LEMMA RankedConcat ==
    ASSUME NEW p \in Seq(Calls), NEW q \in Seq(Calls), Ranked(p), Ranked(q),
           \A c, d : Ahead(p, c) /\ Ahead(q, d) => Rank[c] < Rank[d] /\ d # "save"
    PROVE  /\ p \o q \in Seq(Calls)
           /\ Ranked(p \o q)
           /\ \A c : Ahead(p \o q, c) <=> Ahead(p, c) \/ Ahead(q, c)
  <1> DEFINE r == p \o q
  <1>1. /\ Len(p) \in Nat /\ Len(q) \in Nat /\ Len(r) = Len(p) + Len(q) /\ r \in Seq(Calls)
        /\ \A i \in 1 .. Len(p) : r[i] = p[i]
        /\ \A i \in 1 .. Len(q) : r[Len(p) + i] = q[i]
    OBVIOUS
  <1> HIDE DEF r
  <1>2. ASSUME NEW i \in 1 .. Len(r), ~(i <= Len(p))
        PROVE  i - Len(p) \in 1 .. Len(q) /\ r[i] = q[i - Len(p)]
    <2> DEFINE k == i - Len(p)
    <2>1. k \in 1 .. Len(q) /\ i = Len(p) + k
      BY <1>1, <1>2
    <2> QED
      BY <1>1, <2>1
  <1>3. ASSUME NEW i \in 1 .. Len(r), i <= Len(p)
        PROVE  i \in 1 .. Len(p) /\ r[i] = p[i]
    BY <1>1, <1>3
  <1>4. ASSUME NEW i \in 1 .. Len(r), NEW j \in 1 .. Len(r), i < j
        PROVE  Rank[r[i]] < Rank[r[j]] /\ r[j] # "save"
    <2>1. CASE j <= Len(p)
      BY <1>1, <1>3, <1>4, <2>1 DEF Ranked
    <2>2. CASE i <= Len(p) /\ ~(j <= Len(p))
      <3>1. Ahead(p, r[i]) /\ Ahead(q, r[j])
        BY <1>2, <1>3, <2>2 DEF Ahead
      <3> QED
        BY <3>1
    <2>3. CASE ~(i <= Len(p))
      <3>1. ~(j <= Len(p))
        BY <1>1, <1>4, <2>3
      <3>2. i - Len(p) < j - Len(p)
        BY <1>1, <1>4
      <3> QED
        BY <1>2, <2>3, <3>1, <3>2 DEF Ranked
    <2> QED
      BY <2>1, <2>2, <2>3
  <1>5. ASSUME NEW c PROVE Ahead(r, c) <=> Ahead(p, c) \/ Ahead(q, c)
    <2>1. Ahead(r, c) => Ahead(p, c) \/ Ahead(q, c)
      BY <1>2, <1>3 DEF Ahead
    <2>2. \A i \in 1 .. Len(p) : i \in 1 .. Len(r)
      BY <1>1
    <2>3. \A i \in 1 .. Len(q) : Len(p) + i \in 1 .. Len(r)
      BY <1>1
    <2> QED
      BY <1>1, <2>1, <2>2, <2>3 DEF Ahead
  <1> QED
    BY <1>1, <1>4, <1>5 DEF Ranked, r

(* What a reconcile begins with makes its calls by rank, and has all of them
   ahead but the one that saves a key that is not minted yet. *)
LEMMA BeginPlan ==
    ASSUME NEW o \in HeadscaleInstances
    PROVE  LET p == IF o.deleting THEN CleanupPlan ELSE ApplyPlan(o.spec) IN
            /\ p # <<>>
            /\ Ranked(p)
            /\ \A c : Ahead(p, c) <=> c \in CallsOf(o) \ {"save"}
  <1> DEFINE first == ensure_headscale
             second == <<"ready", "key", "policy">>
             last == <<"status">>
  <1>1. CASE o.deleting
    <2>1. Len(CleanupPlan) = 3 /\ CleanupPlan # <<>>
      BY DEF CleanupPlan
    <2>2. Ranked(CleanupPlan)
      BY <2>1 DEF CleanupPlan, Ranked, Rank, Calls
    <2>3. \A c : Ahead(CleanupPlan, c) <=> c \in {"dropVolume", "dropScimVolume", "unfinalize"}
      BY <2>1 DEF CleanupPlan, Ahead
    <2> QED
      BY <1>1, <2>1, <2>2, <2>3 DEF CallsOf
  <1>2. CASE ~o.deleting /\ o.spec.external
    <2>1. ApplyPlan(o.spec) = <<"probe">>
      BY <1>2 DEF ApplyPlan
    <2>2. Ranked(<<"probe">>) /\ \A c : Ahead(<<"probe">>, c) <=> c = "probe"
      BY DEF Ranked, Ahead
    <2> QED
      BY <1>2, <2>1, <2>2 DEF CallsOf
  <1>3. CASE ~o.deleting /\ ~o.spec.external
    <2> DEFINE third == IF o.spec.scim THEN ensure_scim ELSE delete_scim_if_exists
               rest == IF o.spec.scim THEN Scim ELSE Drops \cup {"dropScimVolume"}
    <2>1. /\ first \in Seq(Calls) /\ Ranked(first)
          /\ \A c : Ahead(first, c) <=> c \in {"config", "service", "sts"}
      BY DEF ensure_headscale, Ranked, Ahead, Rank, Calls, Pieces, Headscale
    <2>2. /\ second \in Seq(Calls) /\ Ranked(second)
          /\ \A c : Ahead(second, c) <=> c \in {"ready", "key", "policy"}
      BY DEF Ranked, Ahead, Rank, Calls, Pieces, Headscale
    <2>3. /\ third \in Seq(Calls) /\ Ranked(third)
          /\ \A c : Ahead(third, c) <=> c \in rest
      <3>1. /\ ensure_scim \in Seq(Calls) /\ Ranked(ensure_scim)
            /\ \A c : Ahead(ensure_scim, c) <=> c \in Scim
        BY DEF ensure_scim, Ranked, Ahead, Rank, Calls, Pieces, Scim
      <3>2. /\ delete_scim_if_exists \in Seq(Calls) /\ Ranked(delete_scim_if_exists)
            /\ \A c : Ahead(delete_scim_if_exists, c) <=> c \in Drops \cup {"dropScimVolume"}
        BY DEF delete_scim_if_exists, Ranked, Ahead, Rank, Calls, Drops
      <3> QED
        BY <3>1, <3>2
    <2>4. /\ last \in Seq(Calls) /\ Ranked(last)
          /\ \A c : Ahead(last, c) <=> c = "status"
      BY DEF Ranked, Ahead, Calls
    <2>5. ApplyPlan(o.spec) = first \o second \o third \o last
      BY <1>3 DEF ApplyPlan
    <2>6. \A c \in {"config", "service", "sts"}, d \in {"ready", "key", "policy"} \cup rest \cup {"status"} :
            Rank[c] < Rank[d] /\ d # "save"
      BY DEF Rank, Calls, Pieces, Headscale, Scim, Drops
    <2>7. \A c \in {"ready", "key", "policy"}, d \in rest \cup {"status"} : Rank[c] < Rank[d] /\ d # "save"
      BY DEF Rank, Calls, Pieces, Headscale, Scim, Drops
    <2>8. \A c \in rest : Rank[c] < Rank["status"]
      BY DEF Rank, Calls, Pieces, Headscale, Scim, Drops
    <2>9. ManagedCalls = {"config", "service", "sts"} \cup {"ready", "key", "policy"} \cup {"save", "status"}
      BY DEF ManagedCalls, Headscale
    <2>10. "save" \notin rest
      BY DEF Scim, Drops
    <2> HIDE DEF first, second, third, last, rest
    <2>11. /\ first \o second \in Seq(Calls) /\ Ranked(first \o second)
           /\ \A c : Ahead(first \o second, c) <=> c \in {"config", "service", "sts"} \cup {"ready", "key", "policy"}
      BY <2>1, <2>2, <2>6, RankedConcat
    <2>12. /\ first \o second \o third \in Seq(Calls) /\ Ranked(first \o second \o third)
           /\ \A c : Ahead(first \o second \o third, c) <=>
                c \in {"config", "service", "sts"} \cup {"ready", "key", "policy"} \cup rest
      BY <2>3, <2>6, <2>7, <2>11, RankedConcat
    <2>13. /\ Ranked(first \o second \o third \o last)
           /\ \A c : Ahead(first \o second \o third \o last, c) <=>
                c \in {"config", "service", "sts"} \cup {"ready", "key", "policy"} \cup rest \cup {"status"}
      BY <2>4, <2>6, <2>7, <2>8, <2>12, RankedConcat
    <2>14. CallsOf(o) \ {"save"} = {"config", "service", "sts"} \cup {"ready", "key", "policy"} \cup rest \cup {"status"}
      BY <1>3, <2>9, <2>10 DEF CallsOf, rest
    <2>15. Ahead(ApplyPlan(o.spec), "status")
      BY <2>5, <2>13
    <2>16. ApplyPlan(o.spec) # <<>>
      BY <2>15, EmptySeq DEF Ahead
    <2> QED
      BY <1>3, <2>5, <2>13, <2>14, <2>16
  <1> QED
    BY <1>1, <1>2, <1>3

-----------------------------------------------------------------------------
(* What a step may change. *)

(* The steps of the user that store a spec, those that mark an instance or let it
   go, and all others. *)
LEMMA InstNext ==
    ASSUME Typed, [Next]_vars
    PROVE  /\ inst # None /\ inst' # None =>
                /\ inst.generation <= inst'.generation
                /\ inst.generation = inst'.generation => inst.spec = inst'.spec
                /\ inst.deleting => inst'.deleting
           /\ inst = None /\ inst' # None =>
                /\ UNCHANGED <<status, cluster, plan, obj>>
                /\ pod = None
                /\ plan = <<>>
           /\ inst # None /\ inst' = None => status' = None /\ plan' = <<>>
  <1> USE DEF admission, user, cluster
  <1>0. /\ inst # None => inst \in HeadscaleInstances /\ inst.generation \in Nat
        /\ inst = None => plan = <<>>
        /\ plan = <<>> \/ inst.finalizer
    BY InstanceConstants DEF Typed, InstanceTypeOK, HeadscaleInstances, Generations
  <1>1. ASSUME UNCHANGED inst PROVE inst = None <=> inst' = None
    BY <1>1
  <1>2. ASSUME NEW s, Store(s), UNCHANGED <<status, cluster, plan, obj>>, inst' # None
        PROVE  /\ inst # None =>
                    /\ inst.generation <= inst'.generation
                    /\ inst.generation = inst'.generation => inst.spec = inst'.spec
                    /\ inst.deleting => inst'.deleting
               /\ inst = None => pod = None
    <2>1. CASE inst = None
      BY <1>2, <2>1 DEF Store, Vacant
    <2>2. CASE inst # None /\ s = inst.spec
      <3>1. inst' = [inst EXCEPT !.spec = s, !.generation = inst.generation]
        BY <1>2, <2>2 DEF Store
      <3> QED
        BY <1>0, <2>2, <3>1 DEF HeadscaleInstances
    <2>3. CASE inst # None /\ s # inst.spec
      <3>1. inst' = [inst EXCEPT !.spec = s, !.generation = inst.generation + 1]
        BY <1>2, <2>3 DEF Store
      <3>2. inst'.generation = inst.generation + 1 /\ inst'.deleting = inst.deleting
        BY <1>0, <2>3, <3>1 DEF HeadscaleInstances
      <3> QED
        BY <1>0, <2>3, <3>2
    <2> QED
      BY <2>1, <2>2, <2>3
  <1>3. CASE Stored
    <2>1. CASE UNCHANGED inst
      BY <1>0, <1>1, <1>3, <2>1 DEF Stored
    <2>2. CASE Store(review["user"].spec)
      <3>1. inst' # None
        <4>1. review["user"].spec \in HeadscaleInstanceSpec
          BY <1>3 DEF Stored, Answered, Typed, InstanceTypeOK, AdmissionTypeOK, Review, Reviewers
        <4>2. review["user"] # None /\ edits' = edits /\ edits \in 0 .. MaxEdits
          BY <1>3 DEF Stored, Answered, Typed, InstanceTypeOK
        <4>3. lives + 1 <= edits' /\ (inst # None => inst.generation + 1 <= edits')
          BY <4>2 DEF Typed, Counted, Pending
        <4> QED
          BY <2>2, <4>1, <4>2, <4>3, StoreTypes, NoneIsNothing
      <3> QED
        BY <1>0, <1>2, <1>3, <2>2, <3>1 DEF Stored
    <2> QED
      BY <1>3, <2>1, <2>2 DEF Stored
  <1>4. CASE Bypass
    <2>1. PICK s \in Specs : Store(s)
      BY <1>4 DEF Bypass
    <2>2. inst' # None
      <3>1. s \in HeadscaleInstanceSpec
        BY AdmissionConstants
      <3>2. lives \in Nat /\ edits \in Nat /\ edits' \in 0 .. MaxEdits /\ edits' = edits + 1
        BY <1>4, InstanceConstants DEF Bypass, Typed, InstanceTypeOK
      <3>3. lives <= edits /\ (inst # None => inst.generation <= edits)
        BY <1>0, <1>4, <3>2 DEF Bypass, Typed, Counted, Pending
      <3>4. lives + 1 <= edits' /\ (inst # None => inst.generation + 1 <= edits')
        BY <1>0, <3>2, <3>3
      <3> QED
        BY <2>1, <3>1, <3>2, <3>4, StoreTypes, NoneIsNothing
    <2> QED
      BY <1>0, <1>2, <1>4, <2>1, <2>2 DEF Bypass
  <1>5. CASE Delete
    <2>1. inst # None /\ UNCHANGED <<cluster, plan, obj>>
      BY <1>5 DEF Delete
    <2>2. CASE inst.finalizer
      <3>1. inst' = [inst EXCEPT !.deleting = TRUE]
        BY <1>5, <2>2 DEF Delete
      <3>2. inst' \in HeadscaleInstances /\ inst'.generation = inst.generation /\ inst'.deleting /\ inst'.spec = inst.spec
        BY <1>0, <2>1, <3>1 DEF HeadscaleInstances
      <3> QED
        BY <1>0, <2>1, <3>2, NoneIsNothing
    <2>3. CASE ~inst.finalizer
      BY <1>0, <1>5, <2>1, <2>3 DEF Delete
    <2> QED
      BY <2>2, <2>3
  <1>6. CASE Finalize
    <2>1. plan' = <<>> /\ UNCHANGED <<bypassed, lives, edits, cluster, faults>>
      BY <1>6 DEF Finalize, Patched, Stop
    <2>2. CASE UNCHANGED <<inst, status>>
      BY <1>0, <2>1, <2>2
    <2>3. CASE inst # None /\ inst' = [inst EXCEPT !.finalizer = TRUE]
      <3>1. inst' \in HeadscaleInstances /\ inst'.generation = inst.generation
            /\ inst'.deleting = inst.deleting /\ inst'.spec = inst.spec
        BY <1>0, <2>3 DEF HeadscaleInstances
      <3>2. inst' # None /\ inst.generation \in Nat
        BY <1>0, <2>3, <3>1, NoneIsNothing
      <3>3. inst.generation <= inst'.generation
        BY <3>1, <3>2
      <3> QED
        BY <2>3, <3>1, <3>2, <3>3
    <2>4. CASE inst # None /\ inst' = None /\ status' = None
      BY <2>1, <2>4
    <2> QED
      BY <1>6, <2>2, <2>3, <2>4 DEF Finalize, Patched
  <1>7. CASE UNCHANGED inst
    BY <1>0, <1>7
  <1>8. CASE Adopt \/ Begin \/ ApplyChild \/ CheckReady \/ ensure_api_key \/ sync_policy
             \/ (\E c : DropVolume(c)) \/ ReportReady \/ apply_external \/ AskToUnfinalize \/ Fail
    BY <1>7, <1>8
    DEF Adopt, Begin, ApplyChild, Apply, CheckReady, ensure_api_key, sync_policy,
        DropVolume, ReportReady, apply_external, AskToUnfinalize, Fail
  <1>9. CASE (\E r \in Reviewers : Webhook(r)) \/ Dropped \/ Request \/ Cluster \/ PodDies \/ UNCHANGED vars
    BY <1>7, <1>9 DEF Webhook, Dropped, Request, Cluster, PodDies, vars
  <1> QED
    BY <1>3, <1>4, <1>5, <1>6, <1>8, <1>9 DEF Next, Reconcile

(* Steps other than the controller's leave its plan alone, and as long as there is
   an instance what it made as well; a volume goes only when it was dropped. *)
Elsewhere ==
    \/ \E r \in Reviewers : Webhook(r)
    \/ Dropped \/ Request \/ Stored \/ Bypass \/ Delete \/ Cluster \/ PodDies
    \/ UNCHANGED vars

LEMMA ElsewhereNext ==
    ASSUME Elsewhere
    PROVE  /\ UNCHANGED <<plan, obj>>
           /\ inst # None => UNCHANGED objs
           /\ volume # None /\ ~volume.going => UNCHANGED volume
           /\ status' = status \/ status' = None
  <1> USE DEF admission, user, cluster
  <1>1. CASE Cluster
    BY <1>1 DEF Cluster, StartPod, PodReady, RollPod, BindScim, ReleaseVolume, ReleaseScimVolume, Collect
  <1>2. CASE Delete
    BY <1>2 DEF Delete
  <1>3. CASE (\E r \in Reviewers : Webhook(r)) \/ Dropped \/ Request \/ Stored \/ Bypass \/ PodDies \/ UNCHANGED vars
    BY <1>3 DEF Webhook, Dropped, Request, Stored, Bypass, PodDies, vars
  <1> QED
    BY <1>1, <1>2, <1>3 DEF Elsewhere

(* A call of the controller: it goes on by one, puts a save first, or gives up. *)
Mint ==
    /\ Call("key")
    /\ Up
    /\ plan' = <<"save">> \o Tail(plan)
    /\ obj' = obj
    /\ volume' = [volume EXCEPT !.keys = @ + 1]
    /\ UNCHANGED <<inst, bypassed, lives, status, objs, pod, scimVolume, admission>>

LEMMA ReconcileNext ==
    ASSUME Reconcile \/ Fail
    PROVE  \/ Begin
           \/ Mint
           \/ plan # <<>> /\ Done
           \/ plan' = <<>>
           \/ UNCHANGED <<user, status, cluster, plan, obj>>
  BY DEF Reconcile, Adopt, ApplyChild, Apply, CheckReady, ensure_api_key, sync_policy, DropVolume,
         ReportReady, apply_external, AskToUnfinalize, Finalize, Patched, Fail, Call, Give, Stop,
         Mint, admission, user, cluster

(* A plan makes calls of its instance's kind, by rank. *)
Orderly ==
    plan # <<>> =>
        /\ Ranked(plan)
        /\ \A c : Ahead(plan, c) => c \in CallsOf(obj)

LEMMA OrderlyNext ==
    ASSUME Typed, Orderly, [Next]_vars
    PROVE  Orderly'
  <1> USE DEF admission, user, cluster
  <1> SUFFICES ASSUME plan' # <<>>
               PROVE  Ranked(plan') /\ \A c : Ahead(plan', c) => c \in CallsOf(obj')
    BY DEF Orderly
  <1>0. plan \in Seq(Calls)
    BY DEF Typed, InstanceTypeOK
  <1>1. CASE Begin
    <2>1. inst \in HeadscaleInstances /\ obj' = inst
      BY <1>1 DEF Begin, Typed, InstanceTypeOK
    <2> QED
      BY <1>1, <2>1, BeginPlan DEF Begin
  <1>2. CASE Mint
    <2>1. plan # <<>> /\ Head(plan) = "key" /\ obj' = obj /\ plan' = <<"save">> \o Tail(plan)
      BY <1>2 DEF Mint, Call
    <2>2. /\ Ranked(plan')
          /\ \A c : Ahead(plan', c) <=> c = "save" \/ Ahead(Tail(plan), c)
      BY <1>0, <2>1, RankedSave DEF Orderly
    <2>3. Ahead(plan, "key")
      BY <1>0, <2>1, AheadTail
    <2>4. "save" \in CallsOf(obj)
      BY <2>1, <2>3 DEF Orderly, CallsOf, ManagedCalls, Headscale, Scim, Drops
    <2> QED
      BY <1>0, <2>1, <2>2, <2>4, AheadTail DEF Orderly
  <1>3. CASE plan # <<>> /\ Done
    <2>1. plan' = Tail(plan) /\ obj' = obj
      BY <1>3 DEF Done
    <2> QED
      BY <1>0, <1>3, <2>1, AheadTail, RankedTail DEF Orderly
  <1>4. CASE UNCHANGED <<plan, obj>>
    BY <1>4 DEF Orderly
  <1> QED
    BY <1>1, <1>2, <1>3, <1>4, ReconcileNext, ElsewhereNext DEF Next, Elsewhere

(* The instance that a reconcile began with is an earlier or the present state of
   the one there is, and so is the one that a condition is about. *)
Attached ==
    plan # <<>> =>
        /\ obj.generation <= inst.generation
        /\ obj.generation = inst.generation => obj.spec = inst.spec
        /\ obj.deleting => inst.deleting

Reported ==
    /\ inst = None => status = None
    /\ status # None =>
        /\ status.generation <= inst.generation
        /\ plan # <<>> => status.generation <= obj.generation

LEMMA AttachedNext ==
    ASSUME Typed, Attached, [Next]_vars
    PROVE  Attached'
  <1> USE DEF admission, user, cluster
  <1> SUFFICES ASSUME plan' # <<>>
               PROVE  /\ obj'.generation <= inst'.generation
                      /\ obj'.generation = inst'.generation => obj'.spec = inst'.spec
                      /\ obj'.deleting => inst'.deleting
    BY DEF Attached
  <1>1. Typed'
    BY TypedNext
  <1>2. /\ inst' # None /\ inst'.generation \in Nat
        /\ inst # None => inst.generation \in Nat
        /\ plan # <<>> => inst # None /\ obj \in HeadscaleInstances /\ obj.generation \in Nat
    BY <1>1, InstanceConstants DEF Typed, InstanceTypeOK, Backed, HeadscaleInstances, Generations
  <1>3. CASE Begin
    <2>1. obj' = inst' /\ inst' = inst
      BY <1>3 DEF Begin
    <2> QED
      BY <1>2, <2>1
  <1>4. CASE plan # <<>> /\ obj' = obj
    <2>1. /\ inst.generation <= inst'.generation
          /\ inst.generation = inst'.generation => inst.spec = inst'.spec
          /\ inst.deleting => inst'.deleting
      BY <1>2, <1>4, InstNext
    <2>2. obj'.generation <= inst'.generation
      BY <1>2, <1>4, <2>1 DEF Attached
    <2>3. obj'.generation = inst'.generation => obj.generation = inst.generation /\ inst.generation = inst'.generation
      BY <1>2, <1>4, <2>1 DEF Attached
    <2> QED
      BY <1>4, <2>1, <2>2, <2>3 DEF Attached
  <1> QED
    BY <1>3, <1>4, ReconcileNext, ElsewhereNext DEF Next, Elsewhere, Mint, Call, Done

(* Conditions are reported by a reconcile, about what it began with. *)
LEMMA StatusNext ==
    ASSUME [Next]_vars
    PROVE  \/ status' = status
           \/ status' = None
           \/ /\ plan # <<>>
              /\ inst' = inst
              /\ \E ready \in BOOLEAN : \E reason :
                    /\ status' = Condition(ready, reason)
                    /\ ready => ReportReady \/ (apply_external /\ ~ExternalConflict(obj.spec))
  <1> USE DEF admission, user, cluster
  <1>1. CASE Adopt \/ Begin \/ ApplyChild \/ ensure_api_key \/ (\E c : DropVolume(c)) \/ AskToUnfinalize
    BY <1>1 DEF Adopt, Begin, ApplyChild, Apply, ensure_api_key, DropVolume, AskToUnfinalize, Call, Give
  <1>2. CASE CheckReady \/ sync_policy \/ ReportReady \/ apply_external
    BY <1>2 DEF CheckReady, sync_policy, ReportReady, apply_external, Call, Give
  <1>3. CASE Finalize \/ Fail
    BY <1>3 DEF Finalize, Patched, Fail
  <1>4. CASE Elsewhere
    BY <1>4, ElsewhereNext
  <1> QED
    BY <1>1, <1>2, <1>3, <1>4 DEF Next, Reconcile, Elsewhere

LEMMA ReportedNext ==
    ASSUME Typed, Attached, Reported, [Next]_vars
    PROVE  Reported'
  <1>1. Typed'
    BY TypedNext
  <1>2. /\ inst # None => inst.generation \in Nat
        /\ inst' # None => inst'.generation \in Nat
        /\ plan # <<>> => inst # None /\ obj.generation \in Nat
        /\ plan' # <<>> => inst' # None
        /\ status # None => status.generation \in Nat
    BY <1>1, InstanceConstants
    DEF Typed, InstanceTypeOK, Backed, HeadscaleInstances, Conditions, Generations
  <1>3. CASE status' = None
    BY <1>3 DEF Reported
  <1>4. CASE status' = status /\ status # None
    <2>1. inst # None
      BY <1>4 DEF Reported
    <2>2. inst' # None
      BY <1>4, <2>1, InstNext
    <2>3. inst.generation <= inst'.generation
      BY <2>1, <2>2, InstNext
    <2>4. status.generation <= inst'.generation
      BY <1>2, <1>4, <2>1, <2>2, <2>3 DEF Reported
    <2>5. plan' # <<>> => obj' = inst \/ (plan # <<>> /\ obj' = obj)
      BY ReconcileNext, ElsewhereNext DEF Next, Elsewhere, Begin, Mint, Call, Done, vars
    <2>6. plan' # <<>> => status.generation <= obj'.generation
      BY <1>4, <2>5 DEF Reported
    <2> QED
      BY <1>4, <2>2, <2>4, <2>6 DEF Reported
  <1>5. CASE /\ plan # <<>>
             /\ inst' = inst
             /\ \E ready \in BOOLEAN : \E reason : status' = Condition(ready, reason)
    <2>1. status'.generation = obj.generation
      BY <1>5 DEF Condition
    <2>2. inst' # None /\ obj.generation <= inst'.generation
      BY <1>2, <1>5 DEF Attached
    <2>3. plan' # <<>> => obj' = obj \/ obj' = inst
      BY ReconcileNext, ElsewhereNext DEF Next, Elsewhere, Begin, Mint, Call, Done, vars
    <2>4. plan' # <<>> => obj.generation <= obj'.generation
      BY <1>2, <1>5, <2>2, <2>3
    <2> QED
      BY <2>1, <2>2, <2>4 DEF Reported
  <1> QED
    BY <1>3, <1>4, <1>5, StatusNext

(* A pod that serves an instance holds its volume, unless that was dropped. *)
Mounted == pod # None /\ inst # None /\ ~inst.deleting => ~volume.going

(* What becomes of a volume. *)
LEMMA VolumeNext ==
    ASSUME Typed, Orderly, Attached, [Next]_vars, volume # None, ~volume.going,
           inst # None, ~inst.deleting
    PROVE  /\ volume' # None
           /\ ~volume'.going
           /\ \/ volume'.policy = volume.policy
              \/ /\ Call("policy") /\ ~ScimConflict(obj.spec) /\ UNCHANGED <<inst, status>> /\ Done
                 /\ volume'.policy = obj.spec.policy
  <1> USE DEF admission, user, cluster
  <1>0. volume \in Volumes /\ plan \in Seq(Calls)
    BY DEF Typed, InstanceTypeOK
  <1>1. Typed'
    BY TypedNext
  <1>2. CASE UNCHANGED volume
    BY <1>2
  <1>3. CASE ensure_api_key
    <2>1. UNCHANGED volume \/ volume' = [volume EXCEPT !.keys = @ + 1]
      BY <1>3 DEF ensure_api_key
    <2>2. CASE volume' = [volume EXCEPT !.keys = @ + 1]
      <3>1. volume' \in Volumes /\ volume'.going = volume.going /\ volume'.policy = volume.policy
        BY <1>0, <2>2 DEF Volumes
      <3> QED
        BY <3>1, NoneIsNothing
    <2> QED
      BY <1>2, <2>1, <2>2
  <1>4. CASE sync_policy
    <2>1. CASE /\ Call("policy") /\ ~ScimConflict(obj.spec) /\ UNCHANGED <<inst, status>> /\ Done
               /\ volume' = [volume EXCEPT !.policy = obj.spec.policy]
      <3>1. obj.spec.policy \in Policies \cup {None}
        BY <2>1 DEF Call, Typed, InstanceTypeOK, Backed, HeadscaleInstances, HeadscaleInstanceSpec
      <3>2. volume' \in Volumes /\ volume'.going = volume.going /\ volume'.policy = obj.spec.policy
        BY <1>0, <2>1, <3>1 DEF Volumes
      <3> QED
        BY <2>1, <3>2, NoneIsNothing
    <2> QED
      BY <1>2, <1>4, <2>1 DEF sync_policy
  <1>5. ASSUME DropVolume("dropVolume") PROVE FALSE
    <2>1. plan # <<>> /\ Ahead(plan, "dropVolume")
      BY <1>0, <1>5, AheadTail DEF DropVolume, Call
    <2>2. obj.deleting
      BY <2>1 DEF Orderly, CallsOf, ManagedCalls, Headscale, Scim, Drops
    <2> QED
      BY <2>1, <2>2 DEF Attached
  <1>6. CASE DropVolume("dropScimVolume")
    BY <1>2, <1>6 DEF DropVolume
  <1>7. CASE Adopt \/ Begin \/ ApplyChild \/ CheckReady \/ ReportReady \/ apply_external
             \/ AskToUnfinalize \/ Finalize \/ Fail
    BY <1>2, <1>7 DEF Adopt, Begin, ApplyChild, Apply, CheckReady, ReportReady, apply_external,
                      AskToUnfinalize, Finalize, Fail
  <1>8. CASE Elsewhere
    BY <1>2, <1>8, ElsewhereNext
  <1> QED
    BY <1>3, <1>4, <1>5, <1>6, <1>7, <1>8 DEF Next, Reconcile, Elsewhere

LEMMA MountedNext ==
    ASSUME Typed, Orderly, Attached, Mounted, [Next]_vars
    PROVE  Mounted'
  <1> SUFFICES ASSUME pod' # None, inst' # None, ~inst'.deleting PROVE ~volume'.going
    BY DEF Mounted
  <1>1. (inst # None /\ ~inst.deleting) \/ (inst = None /\ pod = None /\ UNCHANGED pod)
    BY InstNext DEF cluster
  <1>2. CASE inst # None /\ ~inst.deleting /\ pod # None
    <2>1. volume # None /\ ~volume.going
      BY <1>2 DEF Typed, Backed, Mounted
    <2> QED
      BY <1>2, <2>1, VolumeNext
  <1>3. CASE pod = None
    <2>1. StartPod
      BY <1>3
      DEF Next, Reconcile, Adopt, Begin, ApplyChild, Apply, CheckReady, ensure_api_key, sync_policy,
          DropVolume, ReportReady, apply_external, AskToUnfinalize, Finalize, Fail, Webhook, Dropped,
          Request, Stored, Bypass, Delete, Cluster, PodReady, RollPod, BindScim, ReleaseVolume,
          ReleaseScimVolume, Collect, PodDies, vars, cluster
    <2> QED
      BY <2>1 DEF StartPod
  <1> QED
    BY <1>1, <1>2, <1>3

(* What a reconcile of a managed instance has behind it. *)
Wanted(s) == IF s.scim THEN Pieces ELSE Headscale

Dropping == [p \in Scim |->
    CASE p = "scimSts" -> "dropScimSts" [] p = "scimService" -> "dropScimService" [] OTHER -> "dropToken"]

Synced(s) == ~ScimConflict(s) /\ volume # None /\ ~volume.going /\ volume.policy = s.policy

Made ==
    plan # <<>> /\ ~obj.deleting /\ ~obj.spec.external =>
        /\ ~Ahead(plan, "config") => objs["config"] = build_config(obj.spec.extra_config)
        /\ \A p \in Wanted(obj.spec) \ {"key"} : ~Ahead(plan, p) => objs[p] # None
        /\ ~Ahead(plan, "key") /\ ~Ahead(plan, "save") => objs["key"] # None
        /\ ~obj.spec.scim => \A p \in Scim : ~Ahead(plan, Dropping[p]) => objs[p] = None
        /\ ~Ahead(plan, "policy") /\ ~inst.deleting => Synced(obj.spec)

(* What the head of a plan makes of the pieces. *)
Effect ==
    /\ Head(plan) = "config" => objs'["config"] = build_config(obj.spec.extra_config)
    /\ Head(plan) # "config" => objs'["config"] = objs["config"]
    /\ \A p \in Wanted(obj.spec) : p = Head(plan) \/ objs[p] # None => objs'[p] # None
    /\ Head(plan) \in {"key", "save"} => objs'["key"] # None
    /\ ~obj.spec.scim => \A p \in Scim : Dropping[p] = Head(plan) \/ objs[p] = None => objs'[p] = None

LEMMA ChildNext ==
    ASSUME Typed, Orderly, plan # <<>>, ~obj.deleting, ~obj.spec.external, ApplyChild
    PROVE  Effect
  <1> USE DEF admission, user, cluster
  <1>0. /\ plan \in Seq(Calls) /\ obj \in HeadscaleInstances
        /\ DOMAIN objs = Pieces
        /\ Ahead(plan, Head(plan))
        /\ Head(plan) \in ManagedCalls \cup (IF obj.spec.scim THEN Scim ELSE Drops \cup {"dropScimVolume"})
    <2>1. plan \in Seq(Calls) /\ obj \in HeadscaleInstances /\ DOMAIN objs = Pieces
      BY DEF Typed, InstanceTypeOK, Backed
    <2>2. Ahead(plan, Head(plan))
      BY <2>1, AheadTail
    <2> QED
      BY <2>1, <2>2 DEF Orderly, CallsOf
  <1>1. build_config(obj.spec.extra_config) # None /\ "present" # None
    <2>1. build_config(obj.spec.extra_config) \in Configs
      BY <1>0, ConfigTypes DEF HeadscaleInstances, HeadscaleInstanceSpec
    <2> QED
      BY <2>1, NoneIsNothing
  <1>2. \A p \in Scim : Dropping[p] \in Drops
    BY DEF Dropping, Drops
  <1>3. ASSUME NEW p \in Pieces, NEW content, Apply(p, content), Head(plan) = p \/ (Head(plan) = "save" /\ p = "key"),
               content # None, p = "config" => content = build_config(obj.spec.extra_config)
        PROVE  Effect
    <2>1. \A q \in Pieces : objs'[q] = IF q = p THEN content ELSE objs[q]
      BY <1>0, <1>3 DEF Apply
    <2>2. {"config", "key"} \subseteq Pieces /\ Scim \subseteq Pieces /\ Wanted(obj.spec) \subseteq Pieces /\ "save" \notin Pieces
      BY DEF Pieces, Headscale, Scim, Wanted
    <2>3. ~obj.spec.scim => p \notin Scim /\ Head(plan) \notin Drops
      BY <1>0, <1>3 DEF ManagedCalls, Pieces, Headscale, Scim, Drops
    <2> QED
      BY <1>2, <1>3, <2>1, <2>2, <2>3 DEF Effect
  <1>4. ASSUME NEW p \in Scim, Apply(p, None), Head(plan) = Dropping[p]
        PROVE  Effect
    <2>1. p \in Pieces /\ {"config", "key"} \cap Scim = {} /\ {"config", "key"} \subseteq Pieces
      BY <1>4 DEF Pieces, Headscale, Scim
    <2>2. \A q \in Pieces : objs'[q] = IF q = p THEN None ELSE objs[q]
      BY <1>0, <1>4, <2>1 DEF Apply
    <2>3. Head(plan) \in Drops /\ Head(plan) \notin Pieces /\ Head(plan) \notin {"config", "key", "save"}
      BY <1>2, <1>4 DEF Drops, Pieces, Headscale, Scim
    <2>4. ~obj.spec.scim
      BY <1>0, <2>3 DEF ManagedCalls, Headscale, Scim, Drops
    <2>5. Wanted(obj.spec) \subseteq Pieces \ Scim
      BY <2>4 DEF Wanted, Pieces, Headscale, Scim
    <2>6. \A q \in Scim : Dropping[q] = Dropping[p] => q = p
      BY DEF Dropping, Scim
    <2>7. Scim \subseteq Pieces
      BY DEF Pieces
    <2> QED
      BY <1>4, <2>1, <2>2, <2>3, <2>5, <2>6, <2>7 DEF Effect
  <1>5. /\ "config" \in Pieces /\ "sts" \in Pieces /\ "key" \in Pieces
        /\ {"service", "scimSts", "scimService", "token"} \subseteq Pieces
        /\ "scimSts" \in Scim /\ "scimService" \in Scim /\ "token" \in Scim
        /\ Dropping["scimSts"] = "dropScimSts" /\ Dropping["scimService"] = "dropScimService"
        /\ Dropping["token"] = "dropToken"
    BY DEF Pieces, Headscale, Scim, Dropping
  <1>6. CASE Call("config") /\ Apply("config", build_config(obj.spec.extra_config))
    <2>1. Head(plan) = "config"
      BY <1>6 DEF Call
    <2> QED
      BY <1>1, <1>3, <1>5, <1>6, <2>1
  <1>7. CASE Call("sts") /\ Apply("sts", desired_hash(build_config(obj.spec.extra_config)))
    <2>1. Head(plan) = "sts" /\ Apply("sts", build_config(obj.spec.extra_config))
      BY <1>7 DEF Call, desired_hash
    <2> QED
      BY <1>1, <1>3, <1>5, <2>1
  <1>8. ASSUME NEW p \in {"service", "scimSts", "scimService", "token"}, Call(p), Apply(p, "present")
        PROVE  Effect
    <2>1. Head(plan) = p /\ p \in Pieces /\ p # "config"
      BY <1>5, <1>8 DEF Call
    <2> QED
      BY <1>1, <1>3, <1>8, <2>1
  <1>9. CASE Call("save") /\ Apply("key", "present")
    <2>1. Head(plan) = "save"
      BY <1>9 DEF Call
    <2> QED
      BY <1>1, <1>3, <1>5, <1>9, <2>1
  <1>10. ASSUME NEW p \in Scim, Call(Dropping[p]), Apply(p, None) PROVE Effect
    <2>1. Head(plan) = Dropping[p]
      BY <1>10 DEF Call
    <2> QED
      BY <1>4, <1>10, <2>1
  <1> QED
    BY <1>5, <1>6, <1>7, <1>8, <1>9, <1>10 DEF ApplyChild

(* So does a call that changes no piece, if the reconcile goes on from it. *)
LEMMA PiecesNext ==
    ASSUME Typed, Orderly, plan # <<>>, ~obj.deleting, ~obj.spec.external,
           Reconcile, Done, plan' # <<>>
    PROVE  Effect
  <1> USE DEF admission, user, cluster
  <1>0. plan \in Seq(Calls)
    BY DEF Typed, InstanceTypeOK
  <1>1. \A p \in Scim : Dropping[p] \in Drops
    BY DEF Dropping, Drops
  <1>2. CASE ApplyChild
    BY <1>2, ChildNext
  <1>3. CASE UNCHANGED objs /\ Head(plan) \notin Pieces \cup Drops \cup {"save"}
    BY <1>1, <1>3 DEF Effect, Pieces, Headscale, Wanted
  <1>4. CASE UNCHANGED objs /\ Head(plan) = "key" /\ objs["key"] # None
    BY <1>1, <1>4 DEF Effect, Pieces, Headscale, Wanted, Drops
  <1>5. CASE ensure_api_key
    <2>1. plan' = Tail(plan) /\ Head(plan) = "key" /\ UNCHANGED objs
      BY <1>5 DEF ensure_api_key, Call, Done
    <2>2. <<"save">> \o Tail(plan) # Tail(plan)
      <3>1. Tail(plan) \in Seq(Calls)
        BY <1>0, Plans
      <3>2. Len(<<"save">> \o Tail(plan)) # Len(Tail(plan))
        BY <3>1
      <3> QED
        BY <3>2
    <2>3. objs["key"] # None
      BY <1>5, <2>1, <2>2 DEF ensure_api_key, Give, Stop
    <2> QED
      BY <1>4, <2>1, <2>3
  <1>6. CASE CheckReady \/ sync_policy \/ DropVolume("dropVolume") \/ DropVolume("dropScimVolume")
             \/ ReportReady \/ apply_external
    <2>1. UNCHANGED objs
      BY <1>6 DEF CheckReady, sync_policy, DropVolume, ReportReady, apply_external
    <2>2. Head(plan) \in {"ready", "policy", "dropVolume", "dropScimVolume", "status", "probe"}
      BY <1>6 DEF CheckReady, sync_policy, DropVolume, ReportReady, apply_external, Call
    <2>3. Head(plan) \notin Pieces \cup Drops \cup {"save"}
      BY <2>2 DEF Pieces, Headscale, Scim, Drops
    <2> QED
      BY <1>3, <2>1, <2>3
  <1>7. plan' # plan
    <2>1. Len(Tail(plan)) = Len(plan) - 1 /\ Len(plan) \in Nat
      BY <1>0, Plans
    <2>2. \A n \in Nat : n - 1 # n
      OBVIOUS
    <2>3. Tail(plan) # plan
      BY <2>1, <2>2
    <2> QED
      BY <2>3 DEF Done
  <1>8. ~Adopt /\ ~Begin /\ ~AskToUnfinalize /\ ~Finalize
    BY <1>7 DEF Adopt, Begin, AtRest, AskToUnfinalize, Finalize, Patched, Stop
  <1> QED
    BY <1>2, <1>5, <1>6, <1>8 DEF Reconcile

(* What a reconcile has behind it stays made until it ends. *)
LEMMA MadeNext ==
    ASSUME Typed, Orderly, Attached, Mounted, Made, [Next]_vars
    PROVE  Made'
  <1> USE DEF admission, user, cluster
  <1> SUFFICES ASSUME plan' # <<>>, ~obj'.deleting, ~obj'.spec.external PROVE Made'
    BY DEF Made
  <1>0. /\ Orderly' /\ plan \in Seq(Calls)
        /\ plan # <<>> => inst # None
        /\ inst # None /\ inst' # None /\ ~inst'.deleting => ~inst.deleting
        /\ inst' # None
    BY OrderlyNext, TypedNext, InstNext DEF Typed, InstanceTypeOK
  <1>1. CASE Begin
    <2>1. inst \in HeadscaleInstances /\ obj' = inst
      BY <1>1 DEF Begin, Typed, InstanceTypeOK
    <2>2. \A c : Ahead(plan', c) <=> c \in CallsOf(obj') \ {"save"}
      BY <1>1, <2>1, BeginPlan DEF Begin
    <2>3. \A c \in ManagedCalls \ {"save"} : Ahead(plan', c)
      BY <2>2 DEF CallsOf
    <2>4. \A p \in Wanted(obj'.spec) : Ahead(plan', p)
      BY <2>2 DEF CallsOf, Wanted, Pieces, ManagedCalls, Headscale, Scim
    <2>5. ~obj'.spec.scim => \A p \in Scim : Ahead(plan', Dropping[p])
      BY <2>2 DEF CallsOf, Dropping, Drops
    <2> QED
      BY <2>3, <2>4, <2>5 DEF Made, ManagedCalls, Headscale
  <1>2. CASE plan # <<>> /\ UNCHANGED <<plan, obj, objs>> /\ ~Mint
    <2>1. ~Ahead(plan, "policy") /\ ~inst'.deleting => Synced(obj.spec)'
      <3> SUFFICES ASSUME ~Ahead(plan, "policy"), ~inst'.deleting PROVE Synced(obj.spec)'
        OBVIOUS
      <3>1. Synced(obj.spec) /\ ~inst.deleting /\ inst # None
        BY <1>0, <1>2 DEF Made
      <3>2. ~Call("policy")
        BY <1>0, AheadTail DEF Call
      <3>3. Synced(obj.spec)'
        BY <1>2, <3>1, <3>2, VolumeNext DEF Synced
      <3> QED
        BY <3>3
    <2> QED
      BY <1>0, <1>2, <2>1 DEF Made
  <1>3. CASE Mint
    <2>1. plan # <<>> /\ Head(plan) = "key" /\ obj' = obj /\ plan' = <<"save">> \o Tail(plan) /\ UNCHANGED <<inst, objs>>
      BY <1>3 DEF Mint, Call
    <2>2. \A c : Ahead(plan', c) <=> c = "save" \/ Ahead(Tail(plan), c)
      BY <1>0, <2>1, RankedSave DEF Orderly
    <2>3. \A c : ~Ahead(plan', c) /\ c # "key" => ~Ahead(plan, c)
      BY <1>0, <2>1, <2>2, AheadTail
    <2>4. Ahead(plan', "save")
      BY <2>2
    <2>5. \A p \in Scim : Dropping[p] # "key"
      BY DEF Dropping
    <2>6. ~Ahead(plan, "policy") /\ ~inst.deleting => Synced(obj.spec)'
      BY <1>0, <2>1, VolumeNext DEF Made, Synced, Call
    <2> QED
      BY <2>1, <2>3, <2>4, <2>5, <2>6 DEF Made
  <1>4. CASE plan # <<>> /\ Done /\ Reconcile
    <2>1. plan' = Tail(plan) /\ obj' = obj
      BY <1>4 DEF Done
    <2>2. \A c : ~Ahead(plan', c) => c = Head(plan) \/ ~Ahead(plan, c)
      BY <1>0, <1>4, <2>1, AheadTail
    <2>3. Effect
      BY <1>4, <2>1, PiecesNext
    <2>4. ~Ahead(plan', "config") => objs'["config"] = build_config(obj'.spec.extra_config)
      BY <1>4, <2>1, <2>2, <2>3 DEF Made, Effect
    <2>5. \A p \in Wanted(obj'.spec) \ {"key"} : ~Ahead(plan', p) => objs'[p] # None
      BY <1>4, <2>1, <2>2, <2>3 DEF Made, Effect
    <2>6. ~Ahead(plan', "key") /\ ~Ahead(plan', "save") => objs'["key"] # None
      <3>1. "key" \in Wanted(obj.spec)
        BY DEF Wanted, Pieces, Headscale
      <3> QED
        BY <1>4, <2>1, <2>2, <2>3, <3>1 DEF Made, Effect
    <2>7. ~obj'.spec.scim => \A p \in Scim : ~Ahead(plan', Dropping[p]) => objs'[p] = None
      BY <1>4, <2>1, <2>2, <2>3 DEF Made, Effect
    <2>8. ~Ahead(plan', "policy") /\ ~inst'.deleting => Synced(obj.spec)'
      <3> SUFFICES ASSUME ~Ahead(plan', "policy"), ~inst'.deleting PROVE Synced(obj.spec)'
        OBVIOUS
      <3>1. inst # None /\ ~inst.deleting
        BY <1>0, <1>4
      <3>2. CASE ~Ahead(plan, "policy")
        BY <1>4, <2>1, <3>1, <3>2, VolumeNext DEF Made, Synced
      <3>3. CASE Head(plan) = "policy"
        <4>1. sync_policy
          BY <1>4, <2>1, <3>3, <1>0, Plans
          DEF Reconcile, Adopt, Begin, AtRest, ApplyChild, CheckReady, ensure_api_key, DropVolume,
              ReportReady, apply_external, AskToUnfinalize, Finalize, Patched, Stop, Call
        <4>2. ~ScimConflict(obj.spec) /\ Up /\ volume' = [volume EXCEPT !.policy = obj.spec.policy]
          BY <2>1, <4>1 DEF sync_policy, Give, Stop
        <4>3. volume \in Volumes /\ ~volume.going
          BY <3>1, <4>2 DEF Up, Mounted, Typed, InstanceTypeOK, Backed
        <4>4. obj.spec.policy \in Policies \cup {None}
          BY <1>4 DEF Typed, InstanceTypeOK, Backed, HeadscaleInstances, HeadscaleInstanceSpec
        <4>5. volume' \in Volumes /\ ~volume'.going /\ volume'.policy = obj.spec.policy
          BY <4>2, <4>3, <4>4 DEF Volumes
        <4> QED
          BY <2>1, <4>2, <4>5, NoneIsNothing DEF Synced
      <3> QED
        BY <2>2, <3>2, <3>3
    <2> QED
      BY <2>1, <2>4, <2>5, <2>6, <2>7, <2>8 DEF Made
  <1> QED
    <2>1. CASE Reconcile
      BY <1>1, <1>2, <1>3, <1>4, <2>1, ReconcileNext
    <2>2. CASE Fail
      BY <2>2 DEF Fail, Stop
    <2>3. CASE Elsewhere
      <3>1. UNCHANGED <<plan, obj>> /\ plan # <<>> /\ inst # None /\ UNCHANGED objs
        BY <1>0, <2>3, ElsewhereNext
      <3>2. ~Mint
        <4>1. Mint => Head(<<"save">> \o Tail(plan)) = "save"
          BY <1>0, <3>1, RankedSave DEF Orderly, Mint, Call
        <4> QED
          BY <3>1, <4>1 DEF Mint, Call
      <3> QED
        BY <1>2, <3>1, <3>2
    <2> QED
      BY <2>1, <2>2, <2>3 DEF Next, Elsewhere

-----------------------------------------------------------------------------
(* What Ready says, with what keeps it so: the volume that holds the policy is not
   about to go. *)
Honored(s) ==
    /\ ~ScimConflict(s)
    /\ ~ExternalConflict(s)
    /\ ~s.external =>
        /\ Present = Wanted(s)
        /\ objs["config"] = build_config(s.extra_config)
        /\ Synced(s)

Honest == Observed /\ status.ready /\ ~inst.deleting => Honored(inst.spec)

(* A reconcile of what Ready is about repeats what it says. *)
LEMMA HonoredNext ==
    ASSUME Typed, Orderly, Attached, [Next]_vars, inst # None, ~inst.deleting,
           NEW s, ~s.external, Honored(s), plan # <<>> => obj.spec = s /\ ~obj.deleting
    PROVE  Honored(s)'
  <1> USE DEF admission, user, cluster
  <1>0. /\ DOMAIN objs = Pieces /\ Wanted(s) \subseteq Pieces /\ "config" \in Pieces
        /\ Pieces \ Wanted(s) = IF s.scim THEN {} ELSE Scim
    BY DEF Typed, InstanceTypeOK, Wanted, Pieces, Headscale, Scim
  <1>1. Synced(s)'
    BY VolumeNext DEF Honored, Synced, Call
  <1>2. \A p \in Pieces : objs[p] # None <=> p \in Wanted(s)
    BY <1>0 DEF Honored, Present
  <1>3. /\ \A p \in Pieces : objs'[p] # None <=> p \in Wanted(s)
        /\ objs'["config"] = build_config(s.extra_config)
    <2>1. CASE ApplyChild
      <3>1. plan # <<>> /\ obj.spec = s /\ ~obj.deleting
        BY <2>1 DEF ApplyChild, Call
      <3>2. Effect
        BY <2>1, <3>1, ChildNext
      <3> QED
        BY <1>0, <1>2, <3>1, <3>2 DEF Effect, Honored
    <2>2. CASE UNCHANGED objs
      BY <1>2, <2>2 DEF Honored
    <2>3. CASE Elsewhere
      BY <2>2, <2>3, ElsewhereNext
    <2>4. CASE (Reconcile /\ ~ApplyChild) \/ Fail
      BY <2>2, <2>4 DEF Reconcile, Adopt, Begin, CheckReady, ensure_api_key, sync_policy, DropVolume,
                        ReportReady, apply_external, AskToUnfinalize, Finalize, Fail
    <2> QED
      BY <2>1, <2>3, <2>4 DEF Next, Elsewhere
  <1>4. Present' = Wanted(s)
    BY <1>0, <1>3 DEF Present
  <1> QED
    BY <1>1, <1>3, <1>4 DEF Honored

LEMMA HonestNext ==
    ASSUME Typed, Orderly, Attached, Reported, Made, Honest, [Next]_vars
    PROVE  Honest'
  <1> USE DEF admission, user, cluster
  <1> SUFFICES ASSUME Observed', status'.ready, ~inst'.deleting
               PROVE  Honored(inst.spec)'
    BY DEF Honest
  <1>0. inst' # None /\ status' # None /\ status'.generation = inst'.generation
    BY DEF Observed
  <1>1. Typed'
    BY TypedNext
  <1>2. /\ inst # None => inst.generation \in Nat
        /\ inst'.generation \in Nat
        /\ plan # <<>> => inst # None /\ obj.generation \in Nat
        /\ plan \in Seq(Calls)
    BY <1>0, <1>1, InstanceConstants
    DEF Typed, InstanceTypeOK, Backed, HeadscaleInstances, Generations
  <1>3. CASE status' = status
    <2>1. inst # None /\ status # None /\ status.generation <= inst.generation
      BY <1>0, <1>3 DEF Reported
    <2>2. inst.generation <= inst'.generation /\ ~inst.deleting
      BY <1>0, <2>1, InstNext
    <2>3. inst.generation = inst'.generation /\ status.generation = inst.generation
      BY <1>0, <1>2, <1>3, <2>1, <2>2
    <2>4. inst'.spec = inst.spec
      BY <1>0, <2>1, <2>3, InstNext
    <2>5. Honored(inst.spec)
      BY <1>3, <2>1, <2>2, <2>3 DEF Honest, Observed
    <2>6. CASE inst.spec.external
      BY <2>4, <2>5, <2>6 DEF Honored
    <2>7. CASE ~inst.spec.external
      <3>1. ASSUME plan # <<>> PROVE obj.spec = inst.spec /\ ~obj.deleting
        <4>1. status.generation <= obj.generation /\ obj.generation <= inst.generation
          BY <2>1, <3>1 DEF Reported, Attached
        <4>2. obj.generation = inst.generation
          BY <1>2, <2>3, <3>1, <4>1
        <4> QED
          BY <2>2, <3>1, <4>2 DEF Attached
      <3>2. PICK s : s = inst.spec
        OBVIOUS
      <3>3. Honored(s)'
        BY <2>1, <2>2, <2>5, <2>7, <3>1, <3>2, HonoredNext
      <3> QED
        BY <2>4, <3>2, <3>3 DEF Honored, Synced
    <2> QED
      BY <2>6, <2>7
  <1>4. ASSUME plan # <<>>, inst' = inst, status'.generation = obj.generation,
               ReportReady \/ (apply_external /\ ~ExternalConflict(obj.spec))
        PROVE  Honored(inst.spec)'
    <2>1. obj.spec = inst'.spec /\ ~obj.deleting
      BY <1>0, <1>4 DEF Attached
    <2>2. Ahead(plan, Head(plan)) /\ Head(plan) \in CallsOf(obj)
      BY <1>2, <1>4, AheadTail DEF Orderly
    <2>3. CASE apply_external /\ ~ExternalConflict(obj.spec)
      <3>1. obj.spec.external
        BY <2>1, <2>2, <2>3 DEF apply_external, Call, CallsOf, ManagedCalls, Headscale, Scim, Drops
      <3> QED
        BY <2>1, <2>3, <3>1 DEF Honored, ScimConflict
    <2>4. CASE ReportReady
      <3>1. Head(plan) = "status" /\ ~obj.spec.external /\ UNCHANGED <<objs, volume>>
        BY <2>1, <2>2, <2>4 DEF ReportReady, Call, CallsOf
      <3>2. \A c \in CallsOf(obj) : c \in Calls /\ Rank[c] <= Rank["status"]
        BY <2>1, <3>1 DEF CallsOf, ManagedCalls, Headscale, Scim, Drops, Calls, Pieces, Rank
      <3>3. \A c : Ahead(plan, c) => c = "status"
        BY <1>2, <1>4, <3>1, <3>2, AheadTail, RankedHead DEF Orderly
      <3>4. /\ objs["config"] = build_config(obj.spec.extra_config)
            /\ \A p \in Wanted(obj.spec) : objs[p] # None
            /\ ~obj.spec.scim => \A p \in Scim : objs[p] = None
            /\ Synced(obj.spec)
        <4>1. "status" \notin Pieces \cup {"save", "policy"} /\ \A p \in Scim : Dropping[p] # "status"
          BY DEF Pieces, Headscale, Scim, Dropping
        <4>2. {"config", "key"} \subseteq Pieces /\ Wanted(obj.spec) \subseteq Pieces
          BY DEF Pieces, Headscale, Wanted
        <4> QED
          BY <1>4, <2>1, <3>1, <3>3, <4>1, <4>2 DEF Made
      <3>5. Present = Wanted(obj.spec)
        BY <3>4 DEF Present, Wanted, Pieces
      <3>6. PICK s : s = obj.spec
        OBVIOUS
      <3>7. Present' = Present /\ (Synced(s) => Synced(s)')
        BY <3>1 DEF Present, Synced
      <3>8. Honored(s)'
        BY <3>1, <3>4, <3>5, <3>6, <3>7 DEF Honored, Synced, ExternalConflict
      <3> QED
        BY <2>1, <3>6, <3>8 DEF Honored, Synced
    <2> QED
      BY <1>4, <2>3, <2>4
  <1>5. CASE /\ plan # <<>>
             /\ inst' = inst
             /\ \E ready \in BOOLEAN : \E reason :
                   /\ status' = Condition(ready, reason)
                   /\ ready => ReportReady \/ (apply_external /\ ~ExternalConflict(obj.spec))
    <2>1. status'.generation = obj.generation /\ (ReportReady \/ (apply_external /\ ~ExternalConflict(obj.spec)))
      BY <1>5 DEF Condition
    <2> QED
      BY <1>4, <1>5, <2>1
  <1> QED
    BY <1>0, <1>3, <1>5, StatusNext

(* The invariant of a reconcile. *)
Reconciling == Typed /\ Orderly /\ Attached /\ Reported /\ Mounted /\ Made /\ Honest

LEMMA ReconcilingInit == Init => Reconciling
  BY TypedInit
  DEF Init, Reconciling, Orderly, Attached, Reported, Mounted, Made, Honest, Observed

LEMMA ReconcilingNext == Reconciling /\ [Next]_vars => Reconciling'
  BY TypedNext, OrderlyNext, AttachedNext, ReportedNext, MountedNext, MadeNext, HonestNext
  DEF Reconciling

(* When Ready is reported for the generation there is, all that this spec asks for
   is there and nothing that it does not, headscale has its policy, and no guard
   was passed, with every order of edits, reconciles that stop halfway and pods
   that die. *)
THEOREM ReadyIsHonest == Spec => []ReadyHonest
  <1>1. Reconciling => ReadyHonest
    BY DEF Reconciling, Honest, Honored, Synced, Wanted, ReadyHonest
  <1> QED
    BY <1>1, ReconcilingInit, ReconcilingNext, PTL DEF Spec

(* The reconcile that creates the SCIM StatefulSet has both Secrets behind it,
   and what it has made is still there. *)
LEMMA EquippedNext ==
    ASSUME Reconciling, [Next]_vars, objs["scimSts"] = None, objs'["scimSts"] # None
    PROVE  {"key", "token"} \subseteq Present
  <1> USE DEF admission, user, cluster
  <1>0. /\ DOMAIN objs = Pieces /\ plan \in Seq(Calls)
        /\ {"scimSts", "key", "token"} \subseteq Pieces
    BY DEF Reconciling, Typed, InstanceTypeOK, Pieces, Headscale, Scim
  <1>1. ApplyChild
    <2>1. CASE Cluster
      BY <1>0, <2>1 DEF Cluster, StartPod, PodReady, RollPod, BindScim, ReleaseVolume, ReleaseScimVolume, Collect
    <2>2. CASE (Reconcile /\ ~ApplyChild) \/ Fail
      BY <2>2 DEF Reconcile, Adopt, Begin, CheckReady, ensure_api_key, sync_policy, DropVolume,
                  ReportReady, apply_external, AskToUnfinalize, Finalize, Fail
    <2>3. CASE (\E r \in Reviewers : Webhook(r)) \/ Dropped \/ Request \/ Stored \/ Bypass \/ Delete
               \/ PodDies \/ UNCHANGED vars
      BY <2>3 DEF Webhook, Dropped, Request, Stored, Bypass, Delete, PodDies, vars
    <2> QED
      BY <2>1, <2>2, <2>3 DEF Next
  <1>2. \A p \in Pieces : \A content : Apply(p, content) /\ p # "scimSts" => objs'["scimSts"] = objs["scimSts"]
    BY <1>0 DEF Apply
  <1>3. \A content : Apply("scimSts", content) => objs'["scimSts"] = content
    BY <1>0 DEF Apply
  <1>4. Call("scimSts")
    <2>1. {"config", "sts", "service", "scimService", "token", "key"} \subseteq Pieces
      BY DEF Pieces, Headscale, Scim
    <2> QED
      BY <1>1, <1>2, <1>3, <2>1 DEF ApplyChild
  <1>5. plan # <<>> /\ Head(plan) = "scimSts" /\ Ahead(plan, "scimSts") /\ "scimSts" \in CallsOf(obj)
    BY <1>0, <1>4, AheadTail DEF Call, Reconciling, Orderly
  <1>6. ~obj.deleting /\ ~obj.spec.external /\ obj.spec.scim
    BY <1>5 DEF CallsOf, ManagedCalls, Headscale, Scim, Drops
  <1>7. \A c \in {"key", "save", "token"} : c \in Calls /\ Rank[c] <= Rank["scimSts"] /\ c # "scimSts"
    BY DEF Rank, Calls, Pieces, Headscale, Scim
  <1>8. ~Ahead(plan, "key") /\ ~Ahead(plan, "save") /\ ~Ahead(plan, "token")
    BY <1>0, <1>5, <1>7, AheadTail, RankedHead DEF Reconciling, Orderly
  <1>9. objs["key"] # None /\ objs["token"] # None
    BY <1>0, <1>5, <1>6, <1>8 DEF Reconciling, Made, Wanted
  <1> QED
    BY <1>0, <1>9 DEF Present

(* When the SCIM StatefulSet is created, the API key and the token that its pod's
   environment names are there, whatever reconciles failed before. *)
THEOREM ScimIsEquipped == Spec => ScimEquipped
  <1>1. Reconciling /\ [Next]_vars =>
            [objs["scimSts"] = None /\ objs'["scimSts"] # None => {"key", "token"} \subseteq Present]_vars
    BY EquippedNext
  <1> QED
    BY <1>1, ReconcilingInit, ReconcilingNext, PTL DEF Spec, ScimEquipped

-----------------------------------------------------------------------------
(* API keys.  One is minted when none is saved: for the first time in a life, or
   after a save that was lost to a fault. *)
Asked == review["operator"] # None /\ plan # <<>> => Call("unfinalize")

Saving == plan # <<>> /\ Head(plan) = "save"

Unspent ==
    /\ inst # None => lives >= 1
    /\ volume # None /\ inst # None /\ objs["key"] = None /\ ~Saving
            => volume.keys + 1 <= lives + faults

Frugal == Unspent /\ KeysAccounted

Minting == Asked /\ Frugal

LEMMA AskedNext ==
    ASSUME Typed, Asked, [Next]_vars
    PROVE  Asked'
  <1> USE DEF admission, user, cluster, Asked
  <1>0. AdmissionTypeOK /\ "operator" \in Reviewers /\ "user" \in Reviewers
    BY DEF Typed, InstanceTypeOK, Reviewers
  <1>1. CASE plan' = <<>>
    BY <1>1
  <1>2. CASE UNCHANGED review /\ review["operator"] = None
    BY <1>2
  <1>3. CASE UNCHANGED plan /\ (review["operator"] = None => review'["operator"] = None)
    BY <1>3 DEF Call
  <1>4. CASE UNCHANGED plan /\ Call("unfinalize")
    BY <1>4 DEF Call
  <1>5. ASSUME Call("unfinalize"),
               ApplyChild \/ CheckReady \/ ensure_api_key \/ sync_policy
               \/ DropVolume("dropVolume") \/ DropVolume("dropScimVolume") \/ ReportReady \/ apply_external
        PROVE  FALSE
    BY <1>5 DEF ApplyChild, CheckReady, ensure_api_key, sync_policy, DropVolume, ReportReady, apply_external, Call
  <1>6. CASE ApplyChild \/ CheckReady \/ ensure_api_key \/ sync_policy
             \/ DropVolume("dropVolume") \/ DropVolume("dropScimVolume") \/ ReportReady \/ apply_external
    <2>1. UNCHANGED review /\ plan # <<>>
      BY <1>6 DEF ApplyChild, Apply, CheckReady, ensure_api_key, sync_policy, DropVolume, ReportReady,
                  apply_external, Call
    <2> QED
      BY <1>2, <1>5, <1>6, <2>1
  <1>7. CASE Begin
    BY <1>2, <1>7 DEF Begin, AtRest
  <1>8. CASE Adopt
    BY <1>1, <1>8 DEF Adopt, AtRest
  <1>9. CASE AskToUnfinalize
    BY <1>4, <1>9 DEF AskToUnfinalize
  <1>10. CASE Finalize \/ Fail
    BY <1>1, <1>10 DEF Finalize, Patched, Fail, Stop
  <1>11. ASSUME NEW r \in Reviewers, Handle(r) \/ Abandon(r), UNCHANGED plan PROVE Asked'
    BY <1>0, <1>3, <1>11, HandleTypes
  <1>12. CASE Request \/ Stored
    <2>1. review'["operator"] = review["operator"]
      BY <1>0, <1>12 DEF Request, Submit, Stored, Consume, AdmissionTypeOK
    <2> QED
      BY <1>3, <1>12, <2>1 DEF Request, Stored
  <1>13. CASE Bypass \/ Delete \/ Cluster \/ PodDies \/ UNCHANGED vars
    BY <1>3, <1>13 DEF Bypass, Delete, Cluster, PodDies, vars
  <1> QED
    BY <1>6, <1>7, <1>8, <1>9, <1>10, <1>11, <1>12, <1>13 DEF Next, Reconcile, Webhook, Dropped

LEMMA FrugalNext ==
    ASSUME Typed, Minting, [Next]_vars
    PROVE  Frugal'
  <1> USE DEF admission, user, cluster
  <1>0. /\ lives \in Nat /\ faults \in Nat /\ MaxEdits \in Nat
        /\ volume # None => volume \in Volumes /\ volume.keys \in Nat
        /\ plan # <<>> => inst # None
        /\ plan \in Seq(Calls) /\ DOMAIN objs = Pieces
        /\ "key" \in Pieces
    BY InstanceConstants, AdmissionConstants
    DEF Typed, InstanceTypeOK, AdmissionTypeOK, Volumes, Pieces, Headscale
  <1>1. Typed'
    BY TypedNext
  <1>2. faults' = faults \/ faults' = faults + 1
    BY DEF Next, Reconcile, Adopt, Begin, ApplyChild, Apply, CheckReady, ensure_api_key, sync_policy,
           DropVolume, ReportReady, apply_external, AskToUnfinalize, Finalize, Fail, Webhook, Handle,
           CreateMap, CreateJob, Await, Clean, Dropped, Abandon, Request, Stored, Bypass, Delete,
           Cluster, PodDies, Fault, vars
  <1>3. faults' \in Nat /\ faults <= faults'
    BY <1>0, <1>2
  <1>4. ASSUME UNCHANGED lives, inst' # None => inst # None,
               volume' # None => volume # None /\ volume'.keys = volume.keys,
               objs'["key"] = None /\ inst # None => objs["key"] = None,
               Saving => Saving' \/ objs'["key"] # None \/ inst' = None \/ faults' = faults + 1
        PROVE  Frugal'
    <2>1. KeysAccounted'
      BY <1>0, <1>3, <1>4 DEF Minting, Frugal, KeysAccounted
    <2>2. inst' # None => lives' >= 1
      BY <1>4 DEF Minting, Frugal, Unspent
    <2>3. ASSUME volume' # None, inst' # None, objs'["key"] = None, ~Saving'
          PROVE  volume'.keys + 1 <= lives' + faults'
      <3>1. CASE Saving
        <4>1. faults' = faults + 1 /\ volume.keys <= lives + faults
          BY <1>4, <2>3, <3>1 DEF Minting, Frugal, KeysAccounted
        <4> QED
          BY <1>0, <1>4, <2>3, <4>1
      <3>2. CASE ~Saving
        <4>1. volume.keys + 1 <= lives + faults
          BY <1>4, <2>3, <3>2 DEF Minting, Frugal, Unspent
        <4> QED
          BY <1>0, <1>3, <1>4, <2>3, <4>1
      <3> QED
        BY <3>1, <3>2
    <2> QED
      BY <2>1, <2>2, <2>3 DEF Frugal, Unspent
  <1>5. CASE Adopt \/ Begin \/ CheckReady \/ ReportReady \/ apply_external \/ AskToUnfinalize
    <2>1. UNCHANGED <<lives, inst, volume, objs>> /\ (Saving => Saving')
      BY <1>5 DEF Adopt, Begin, AtRest, CheckReady, ReportReady, apply_external, AskToUnfinalize, Call, Saving
    <2> QED
      BY <1>4, <2>1
  <1>6. CASE ApplyChild
    <2>1. UNCHANGED <<lives, inst, volume>>
      BY <1>6 DEF ApplyChild, Apply
    <2>2. Saving => objs'["key"] # None
      BY <1>0, <1>6, NoneIsNothing DEF ApplyChild, Apply, Call, Saving
    <2>3. objs'["key"] = None => objs["key"] = None
      BY <1>0, <1>6, NoneIsNothing DEF ApplyChild, Apply
    <2> QED
      BY <1>4, <2>1, <2>2, <2>3
  <1>7. CASE ensure_api_key
    <2>1. UNCHANGED <<lives, inst, objs, faults>> /\ Call("key") /\ ~Saving /\ inst # None
      BY <1>0, <1>7 DEF ensure_api_key, Call, Saving
    <2>2. CASE UNCHANGED volume
      BY <1>4, <2>1, <2>2
    <2>3. CASE objs["key"] = None /\ Up /\ plan' = <<"save">> \o Tail(plan) /\ volume' = [volume EXCEPT !.keys = @ + 1]
      <3>1. volume # None
        BY <2>3 DEF Up, Typed, Backed
      <3>2. volume'.keys = volume.keys + 1
        BY <1>0, <2>3, <3>1 DEF Volumes
      <3>3. volume.keys + 1 <= lives + faults /\ lives >= 1
        BY <2>1, <2>3, <3>1 DEF Minting, Frugal, Unspent
      <3>4. Saving'
        <4>1. Tail(plan) \in Seq(Calls)
          BY <1>0, <2>1, Plans DEF Call
        <4>2. <<"save">> \o Tail(plan) # <<>> /\ Head(<<"save">> \o Tail(plan)) = "save"
          BY <4>1
        <4> QED
          BY <2>3, <4>2 DEF Call, Saving
      <3> QED
        BY <2>1, <3>2, <3>3, <3>4 DEF Frugal, Unspent, KeysAccounted
    <2> QED
      BY <1>7, <2>2, <2>3 DEF ensure_api_key
  <1>8. CASE sync_policy \/ (\E c \in {"dropVolume", "dropScimVolume"} : DropVolume(c))
    <2>1. UNCHANGED <<lives, inst, objs>> /\ ~Saving
      BY <1>8 DEF sync_policy, DropVolume, Call, Saving
    <2>2. volume' # None => volume # None
      BY <1>8 DEF sync_policy, DropVolume, Up, Typed, Backed
    <2>3. volume' # None => volume'.keys = volume.keys
      BY <1>0, <1>8, <2>2 DEF sync_policy, DropVolume, Volumes
    <2> QED
      BY <1>4, <2>1, <2>2, <2>3
  <1>9. CASE Finalize
    <2>1. UNCHANGED <<lives, volume, objs>> /\ (inst' # None => inst # None) /\ ~Saving
      BY <1>9 DEF Finalize, Patched, Answered, Minting, Asked, Call, Saving
    <2> QED
      BY <1>4, <2>1
  <1>10. CASE Fail \/ PodDies
    <2>1. UNCHANGED <<lives, inst, volume, objs>> /\ faults' = faults + 1
      BY <1>10 DEF Fail, PodDies, Fault
    <2> QED
      BY <1>4, <2>1
  <1>11. CASE (\E r \in Reviewers : Webhook(r)) \/ Dropped \/ Request \/ Delete \/ UNCHANGED vars
    <2>1. UNCHANGED <<lives, volume, objs, plan>> /\ (inst' # None => inst # None)
      BY <1>11 DEF Webhook, Dropped, Request, Delete, vars
    <2> QED
      BY <1>4, <2>1 DEF Saving
  <1>12. CASE Stored \/ Bypass
    <2>1. UNCHANGED <<volume, objs, plan>>
      BY <1>12 DEF Stored, Bypass
    <2>2. (UNCHANGED lives /\ (inst' # None => inst # None)) \/ (lives' = lives + 1 /\ inst = None)
      BY <1>12 DEF Stored, Bypass, Store
    <2>3. CASE lives' = lives + 1
      <3>1. volume # None => volume.keys + 1 <= lives' + faults' /\ volume.keys <= lives' + faults'
        BY <1>0, <1>3, <2>3 DEF Minting, Frugal, KeysAccounted
      <3>2. lives' >= 1
        BY <1>0, <2>3
      <3> QED
        BY <2>1, <3>1, <3>2 DEF Frugal, Unspent, KeysAccounted
    <2>4. CASE UNCHANGED lives /\ (inst' # None => inst # None)
      BY <1>4, <2>1, <2>4 DEF Saving
    <2> QED
      BY <2>2, <2>3, <2>4
  <1>13. CASE Cluster
    <2>1. UNCHANGED <<lives, inst, plan>> /\ (inst # None => UNCHANGED objs)
      BY <1>13 DEF Cluster, StartPod, PodReady, RollPod, BindScim, ReleaseVolume, ReleaseScimVolume, Collect
    <2>2. CASE volume' # None => volume # None /\ volume'.keys = volume.keys
      BY <1>4, <2>1, <2>2 DEF Saving
    <2>3. CASE volume' = [going |-> FALSE, policy |-> None, keys |-> 0]
      <3>1. volume'.keys = 0
        BY <2>3
      <3>2. inst' # None => lives' >= 1
        BY <2>1 DEF Minting, Frugal, Unspent
      <3>3. lives' \in Nat
        BY <1>0, <2>1
      <3> QED
        BY <1>3, <3>1, <3>2, <3>3 DEF Frugal, Unspent, KeysAccounted
    <2> QED
      BY <1>13, <2>2, <2>3
      DEF Cluster, StartPod, PodReady, RollPod, BindScim, ReleaseVolume, ReleaseScimVolume, Collect
  <1> QED
    BY <1>5, <1>6, <1>7, <1>8, <1>9, <1>10, <1>11, <1>12, <1>13 DEF Next, Reconcile

(* There are no more keys in a database than the instance has had lives, and one
   for each fault: a key is not minted again while the one before it is saved. *)
THEOREM KeysAlwaysAccounted == Spec => []KeysAccounted
  <1>1. Init => Minting
    BY DEF Init, Minting, Frugal, Asked, Unspent, KeysAccounted
  <1>2. Minting => KeysAccounted
    BY DEF Minting, Frugal
  <1>3. Typed /\ Minting /\ [Next]_vars => Minting'
    BY AskedNext, FrugalNext DEF Minting
  <1> QED
    BY <1>1, <1>2, <1>3, TypedInit, TypedNext, PTL DEF Spec

-----------------------------------------------------------------------------
(* The guards.  A request of the user is allowed when all checks have passed, and
   what a stage of the webhook has behind it is known of the spec. *)
Vetted ==
    LET r == review["user"] IN
    r # None =>
        /\ r.phase \notin {"allowed", "denied"} =>
              ~r.spec.external /\ ~ScimConflict(r.spec) /\ check_reserved_keys(r.spec.extra_config)
        /\ r.phase \in {"create_map", "create_job", "wait"} => r.verdict = "denied"
        /\ r.phase = "clean" /\ r.verdict = "allowed" => Configtest(build_config(r.spec.extra_config))
        /\ r.phase = "allowed" => Fits(r.spec)

Conflicts == {"ScimPolicyConflict", "ExternalSpecConflict"}

Guarded ==
    ~bypassed =>
        /\ inst # None => Fits(inst.spec)
        /\ plan # <<>> => Fits(obj.spec)
        /\ objs["config"] # None => Configtest(objs["config"])
        /\ status # None => status.reason \notin Conflicts

LEMMA VettedNext ==
    ASSUME Typed, Vetted, [Next]_vars
    PROVE  Vetted'
  <1> USE DEF admission, user, cluster
  <1>0. AdmissionTypeOK /\ "operator" \in Reviewers /\ "user" \in Reviewers /\ "operator" # "user"
    BY DEF Typed, InstanceTypeOK, Reviewers
  <1>1. CASE UNCHANGED review["user"]
    BY <1>1 DEF Vetted
  <1>2. ASSUME NEW s \in Specs, Submit("user", s) PROVE Vetted'
    <2>1. review'["user"] = [spec |-> s, phase |-> validate(s), map |-> FALSE, verdict |-> "denied"]
      BY <1>0, <1>2 DEF Submit, AdmissionTypeOK
    <2>2. /\ validate(s) \in {"allowed", "denied", "create_map"}
          /\ validate(s) = "allowed" => s.external /\ ~ExternalConflict(s)
          /\ validate(s) = "create_map" =>
                ~s.external /\ ~ScimConflict(s) /\ check_reserved_keys(s.extra_config)
      BY DEF validate
    <2>3. s.external => ~ScimConflict(s)
      BY DEF ScimConflict
    <2> QED
      BY <2>1, <2>2, <2>3 DEF Vetted, Fits
  <1>3. CASE Handle("user") \/ Abandon("user")
    <2> DEFINE r == review["user"]
               good == Configtest(build_config(r.spec.extra_config))
    <2>1. r \in Review /\ r # None
      BY <1>0, <1>3 DEF AdmissionTypeOK, Handle, CreateMap, CreateJob, Await, Clean, At, Abandon
    <2>2. \A now : Become("user", now) => review'["user"] = now
      BY <1>0 DEF Become, AdmissionTypeOK
    <2>3. CASE Deny("user")
      <3>1. review'["user"] = [r EXCEPT !.phase = "denied"]
        BY <2>2, <2>3 DEF Deny
      <3>2. review'["user"].phase = "denied"
        BY <2>1, <3>1 DEF Review
      <3> QED
        BY <3>2 DEF Vetted
    <2>4. CASE CreateMap("user") /\ ~Deny("user")
      <3>1. review'["user"] = [r EXCEPT !.phase = "create_job", !.map = TRUE] /\ r.phase = "create_map"
        BY <2>2, <2>4 DEF CreateMap, At
      <3>2. review'["user"].phase = "create_job" /\ review'["user"].spec = r.spec /\ review'["user"].verdict = r.verdict
        BY <2>1, <3>1 DEF Review
      <3> QED
        BY <2>1, <3>1, <3>2 DEF Vetted
    <2>5. CASE CreateJob("user") /\ ~Deny("user")
      <3>1. review'["user"] = [r EXCEPT !.phase = "wait"] /\ r.phase = "create_job"
        BY <2>2, <2>5 DEF CreateJob, At
      <3>2. review'["user"].phase = "wait" /\ review'["user"].spec = r.spec /\ review'["user"].verdict = r.verdict
        BY <2>1, <3>1 DEF Review
      <3> QED
        BY <2>1, <3>1, <3>2 DEF Vetted
    <2>6. CASE Await("user")
      <3>1. /\ r.phase = "wait"
            /\ \/ review'["user"] = [r EXCEPT !.phase = "clean", !.verdict = IF good THEN "allowed" ELSE "denied"]
               \/ review'["user"] = [r EXCEPT !.phase = "clean"]
        BY <2>2, <2>6 DEF Await, At
      <3>2. /\ review'["user"].phase = "clean"
            /\ review'["user"].spec = r.spec
            /\ review'["user"].verdict = r.verdict \/ review'["user"].verdict = IF good THEN "allowed" ELSE "denied"
        BY <2>1, <3>1 DEF Review
      <3>3. r.verdict = "denied"
        BY <2>1, <3>1 DEF Vetted
      <3> QED
        BY <2>1, <3>1, <3>2, <3>3 DEF Vetted
    <2>7. CASE Clean("user")
      <3>1. review'["user"] = [r EXCEPT !.phase = r.verdict, !.map = FALSE] /\ r.phase = "clean"
        BY <2>2, <2>7 DEF Clean, At
      <3>2. /\ review'["user"].phase = r.verdict
            /\ review'["user"].spec = r.spec
            /\ r.verdict \in {"allowed", "denied"}
        BY <2>1, <3>1 DEF Review
      <3>3. r.verdict = "allowed" => Fits(r.spec)
        BY <2>1, <3>1 DEF Vetted, Fits, ExternalConflict
      <3> QED
        BY <3>2, <3>3 DEF Vetted
    <2> QED
      BY <1>3, <2>3, <2>4, <2>5, <2>6, <2>7 DEF Handle, Abandon
  <1>4. CASE Handle("operator") \/ Abandon("operator")
    BY <1>0, <1>1, <1>4, HandleTypes
  <1>5. CASE Reconcile \/ Fail
    <2>1. UNCHANGED review \/ (\E s : Submit("operator", s)) \/ Consume("operator")
      BY <1>5 DEF Reconcile, Adopt, Begin, ApplyChild, Apply, CheckReady, ensure_api_key, sync_policy,
                  DropVolume, ReportReady, apply_external, AskToUnfinalize, Finalize, Patched, Fail
    <2>2. UNCHANGED review["user"]
      BY <1>0, <2>1 DEF Submit, Consume, AdmissionTypeOK
    <2> QED
      BY <1>1, <2>2
  <1>6. CASE Stored
    BY <1>0, <1>6, ConsumeTypes DEF Stored, Vetted
  <1>7. CASE Bypass \/ Delete \/ Cluster \/ PodDies \/ UNCHANGED vars
    BY <1>1, <1>7 DEF Bypass, Delete, Cluster, PodDies, vars
  <1>8. CASE Request
    BY <1>2, <1>8 DEF Request
  <1> QED
    BY <1>3, <1>4, <1>5, <1>6, <1>7, <1>8 DEF Next, Webhook, Dropped, Reviewers

(* An external instance that fits has no configuration of its own. *)
LEMMA FitsConfig ==
    ASSUME NEW s \in HeadscaleInstanceSpec, Fits(s)
    PROVE  Configtest(build_config(s.extra_config))
  <1>1. CASE s.external
    <2>1. s.extra_config = {}
      BY <1>1 DEF Fits, ExternalConflict
    <2>2. build_config({})["override_local_dns"] = "default"
      BY DEF build_config, Pinned, RESERVED_TOP_LEVEL, RESERVED_DNS_KEYS, Defaulted
    <2> QED
      BY <2>1, <2>2 DEF Configtest
  <1>2. CASE ~s.external
    BY <1>2 DEF Fits
  <1> QED
    BY <1>1, <1>2

LEMMA GuardedNext ==
    ASSUME Typed, Vetted, Guarded, [Next]_vars
    PROVE  Guarded'
  <1> USE DEF admission, user, cluster
  <1>0. /\ inst # None => inst \in HeadscaleInstances
        /\ plan # <<>> => obj \in HeadscaleInstances /\ obj.spec \in HeadscaleInstanceSpec
        /\ DOMAIN objs = Pieces /\ "config" \in Pieces
        /\ status # None => status \in Conditions
    BY DEF Typed, InstanceTypeOK, Backed, HeadscaleInstances, Pieces, Headscale
  <1>1. CASE bypassed'
    BY <1>1 DEF Guarded
  <1>2. ASSUME ~bypassed,
               inst' # None => (inst # None /\ inst'.spec = inst.spec) \/ Fits(inst'.spec),
               plan' # <<>> => (obj' = inst /\ inst # None) \/ (plan # <<>> /\ obj' = obj),
               objs'["config"] \in {objs["config"], None} \/ Configtest(objs'["config"]),
               status' \in {status, None} \/ status'.reason \notin Conflicts
        PROVE  Guarded'
    BY <1>2 DEF Guarded
  <1>3. CASE ~bypassed /\ (Reconcile \/ Fail)
    <2>1. inst' # None => inst # None /\ inst'.spec = inst.spec
      <3>1. UNCHANGED inst \/ inst' = None \/ (inst # None /\ inst' = [inst EXCEPT !.finalizer = TRUE])
        BY <1>3 DEF Reconcile, Adopt, Begin, ApplyChild, Apply, CheckReady, ensure_api_key, sync_policy,
                    DropVolume, ReportReady, apply_external, AskToUnfinalize, Finalize, Patched, Fail
      <3>2. CASE inst # None /\ inst' = [inst EXCEPT !.finalizer = TRUE]
        BY <1>0, <3>2 DEF HeadscaleInstances
      <3> QED
        BY <3>1, <3>2
    <2>2. plan' # <<>> => (obj' = inst /\ inst # None) \/ (plan # <<>> /\ obj' = obj)
      BY <1>3, ReconcileNext DEF Begin, Mint, Call, Done
    <2>3. objs'["config"] \in {objs["config"], None} \/ Configtest(objs'["config"])
      <3>1. CASE ApplyChild
        <4>1. Configtest(build_config(obj.spec.extra_config))
          BY <1>0, <1>3, <3>1, FitsConfig DEF ApplyChild, Call, Guarded
        <4>2. \A p, content : Apply(p, content) => objs'["config"] = IF p = "config" THEN content ELSE objs["config"]
          BY <1>0 DEF Apply
        <4> QED
          BY <3>1, <4>1, <4>2 DEF ApplyChild
      <3> QED
        BY <1>3, <3>1 DEF Reconcile, Adopt, Begin, CheckReady, ensure_api_key, sync_policy, DropVolume,
                          ReportReady, apply_external, AskToUnfinalize, Finalize, Fail
    <2>4. status' \in {status, None} \/ status'.reason \notin Conflicts
      <3>1. \A ready \in BOOLEAN, reason \in Reasons \ Conflicts : Condition(ready, reason).reason \notin Conflicts
        BY DEF Condition
      <3>2. /\ {"StatefulSetReady", "StatefulSetNotReady", "ChildApplyFailed"} \subseteq Reasons \ Conflicts
            /\ {"ReconcileFailed", "ExternalReachable", "ExternalUnreachable"} \subseteq Reasons \ Conflicts
        BY DEF Reasons, Conflicts
      <3>3. CASE sync_policy
        <4>1. ~ScimConflict(obj.spec)
          BY <1>3, <3>3 DEF sync_policy, Call, Guarded, Fits
        <4>2. status' = status \/ status' = Condition(FALSE, "ReconcileFailed")
          BY <3>3, <4>1 DEF sync_policy, Give
        <4> QED
          BY <3>1, <3>2, <4>2
      <3>4. CASE apply_external
        <4>1. ~ExternalConflict(obj.spec)
          BY <1>3, <3>4 DEF apply_external, Call, Guarded, Fits
        <4>2. status' = Condition(TRUE, "ExternalReachable") \/ status' = Condition(FALSE, "ExternalUnreachable")
          BY <3>4, <4>1 DEF apply_external, Give
        <4> QED
          BY <3>1, <3>2, <4>2
      <3>5. CASE Fail
        <4>1. status' = status \/ \E reason \in {"ChildApplyFailed", "ReconcileFailed"} : status' = Condition(FALSE, reason)
          BY <3>5, FailureTypes DEF Fail
        <4> QED
          BY <3>1, <3>2, <4>1
      <3>6. CASE CheckReady \/ ensure_api_key \/ ReportReady
        <4>1. \/ status' = status
              \/ status' = Condition(FALSE, "StatefulSetNotReady")
              \/ status' = Condition(FALSE, "ReconcileFailed")
              \/ status' = Condition(TRUE, "StatefulSetReady")
          BY <3>6 DEF CheckReady, ensure_api_key, ReportReady, Give
        <4> QED
          BY <3>1, <3>2, <4>1
      <3>7. CASE Adopt \/ Begin \/ ApplyChild \/ DropVolume("dropVolume") \/ DropVolume("dropScimVolume")
                 \/ AskToUnfinalize \/ Finalize
        BY <3>7 DEF Adopt, Begin, ApplyChild, Apply, DropVolume, AskToUnfinalize, Finalize, Patched
      <3> QED
        BY <1>3, <3>3, <3>4, <3>5, <3>6, <3>7 DEF Reconcile
    <2> QED
      BY <1>2, <1>3, <2>1, <2>2, <2>3, <2>4
  <1>4. CASE ~bypassed /\ Stored
    <2>1. UNCHANGED <<status, objs, plan, obj>>
      BY <1>4 DEF Stored
    <2>2. inst' # None => (inst # None /\ inst'.spec = inst.spec) \/ Fits(inst'.spec)
      <3>1. CASE UNCHANGED inst
        BY <3>1
      <3>2. CASE review["user"].phase = "allowed" /\ Store(review["user"].spec)
        <4>1. Fits(review["user"].spec)
          BY <1>4, <3>2 DEF Stored, Answered, Vetted
        <4>2. CASE inst = None
          <5>1. inst'.spec = review["user"].spec
            BY <3>2, <4>2 DEF Store
          <5> QED
            BY <4>1, <5>1
        <4>3. CASE inst # None
          <5>1. inst' = [inst EXCEPT !.spec = review["user"].spec,
                            !.generation = IF review["user"].spec = inst.spec THEN @ ELSE @ + 1]
            BY <3>2, <4>3 DEF Store
          <5>2. inst'.spec = review["user"].spec
            BY <1>0, <4>3, <5>1 DEF HeadscaleInstances
          <5> QED
            BY <4>1, <5>2
        <4> QED
          BY <4>2, <4>3
      <3> QED
        BY <1>4, <3>1, <3>2 DEF Stored
    <2> QED
      BY <1>2, <1>4, <2>1, <2>2
  <1>5. CASE ~bypassed /\ Delete
    <2>1. UNCHANGED <<objs, plan, obj>> /\ inst # None /\ status' \in {status, None}
      BY <1>5 DEF Delete
    <2>2. inst' = None \/ inst' = [inst EXCEPT !.deleting = TRUE]
      BY <1>5 DEF Delete
    <2>3. inst' # None => inst'.spec = inst.spec
      BY <1>0, <2>1, <2>2 DEF HeadscaleInstances
    <2> QED
      BY <1>2, <1>5, <2>1, <2>3
  <1>6. CASE ~bypassed /\ Cluster
    <2>1. UNCHANGED <<inst, status, plan, obj>>
      BY <1>6 DEF Cluster
    <2>2. objs'["config"] \in {objs["config"], None}
      BY <1>0, <1>6
      DEF Cluster, StartPod, PodReady, RollPod, BindScim, ReleaseVolume, ReleaseScimVolume, Collect
    <2> QED
      BY <1>2, <1>6, <2>1, <2>2
  <1>7. CASE ~bypassed /\ ((\E r \in Reviewers : Webhook(r)) \/ Dropped \/ Request \/ PodDies \/ UNCHANGED vars)
    <2>1. UNCHANGED <<inst, status, plan, obj, objs>>
      BY <1>7 DEF Webhook, Dropped, Request, PodDies, vars
    <2> QED
      BY <1>2, <1>7, <2>1
  <1>8. bypassed => bypassed' \/ ~bypassed
    <2>1. CASE Bypass
      BY <2>1 DEF Bypass
    <2>2. CASE ~Bypass
      BY <2>2 DEF Next, Reconcile, Adopt, Begin, ApplyChild, Apply, CheckReady, ensure_api_key, sync_policy,
                  DropVolume, ReportReady, apply_external, AskToUnfinalize, Finalize, Fail, Webhook,
                  Dropped, Request, Stored, Delete, Cluster, PodDies, vars
    <2> QED
      BY <2>1, <2>2
  <1> QED
    BY <1>1, <1>3, <1>4, <1>5, <1>6, <1>7, <1>8 DEF Next, Bypass

(* Whatever the user asks for, headscale runs with the operator's own keys; and
   unless a request went around the webhook, it is never given a configuration
   that it would refuse, and no reconcile stops at a conflict. *)
THEOREM GuardsAlwaysHold == Spec => []GuardsHold
  <1>1. Init => Vetted /\ Guarded
    BY DEF Init, AdmissionInit, Vetted, Guarded, Nothing, Pieces, Headscale, Reviewers
  <1>2. Typed /\ Guarded => GuardsHold
    <2>1. \A config \in Configs, k \in Pinned : config[k] = "operator"
      BY DEF Configs, build_config
    <2>2. Typed => objs["config"] = None \/ objs["config"] \in Configs
      BY DEF Typed, InstanceTypeOK, Hashed
    <2> QED
      BY <2>1, <2>2 DEF Guarded, GuardsHold, Conflicts
  <1> QED
    BY <1>1, <1>2, TypedInit, TypedNext, VettedNext, GuardedNext, PTL DEF Spec

-----------------------------------------------------------------------------
(* What Ready says of the pods and of the SCIM service's volume: the cluster acts
   on both by itself, after the controller's call. *)
Turned(s) ==
    /\ objs["sts"] = build_config(s.extra_config)
    /\ ~s.scim => scimVolume # "bound"

(* A volume that was dropped before the StatefulSet would be bound again. *)
Carried ==
    plan # <<>> /\ ~obj.deleting /\ ~obj.spec.external =>
        /\ ~Ahead(plan, "sts") => objs["sts"] = build_config(obj.spec.extra_config)
        /\ ~obj.spec.scim =>
            /\ Ahead(plan, "dropScimSts") => Ahead(plan, "dropScimVolume")
            /\ ~Ahead(plan, "dropScimVolume") => scimVolume # "bound"

Concluded == Observed /\ status.ready /\ ~inst.deleting /\ ~inst.spec.external => Turned(inst.spec)

(* Who makes the StatefulSet and who binds the volume. *)
LEMMA StsNext ==
    ASSUME Typed, inst # None, [Next]_vars
    PROVE  \/ objs'["sts"] = objs["sts"]
           \/ Call("sts") /\ objs'["sts"] = build_config(obj.spec.extra_config)
  <1> USE DEF admission, user, cluster
  <1>0. DOMAIN objs = Pieces /\ "sts" \in Pieces
    BY DEF Typed, InstanceTypeOK, Pieces, Headscale
  <1>1. CASE ApplyChild
    BY <1>0, <1>1 DEF ApplyChild, Apply, desired_hash
  <1>2. CASE Elsewhere
    BY <1>2, ElsewhereNext
  <1>3. CASE (Reconcile /\ ~ApplyChild) \/ Fail
    BY <1>3 DEF Reconcile, Adopt, Begin, CheckReady, ensure_api_key, sync_policy, DropVolume,
                ReportReady, apply_external, AskToUnfinalize, Finalize, Fail
  <1> QED
    BY <1>1, <1>2, <1>3 DEF Next, Elsewhere

LEMMA BoundNext ==
    ASSUME [Next]_vars
    PROVE  \/ UNCHANGED scimVolume
           \/ scimVolume' # "bound"
           \/ objs["scimSts"] # None /\ UNCHANGED <<plan, obj, inst, status>>
  <1> USE DEF admission, user, cluster
  <1>1. CASE Cluster
    BY <1>1, NoneIsNothing
    DEF Cluster, StartPod, PodReady, RollPod, BindScim, ReleaseVolume, ReleaseScimVolume, Collect
  <1>2. CASE Elsewhere /\ ~Cluster
    BY <1>2 DEF Elsewhere, Webhook, Dropped, Request, Stored, Bypass, Delete, PodDies, vars
  <1>3. CASE Reconcile \/ Fail
    BY <1>3, NoneIsNothing
    DEF Reconcile, Adopt, Begin, ApplyChild, Apply, CheckReady, ensure_api_key, sync_policy, DropVolume,
        ReportReady, apply_external, AskToUnfinalize, Finalize, Fail
  <1> QED
    BY <1>1, <1>2, <1>3 DEF Next, Elsewhere

LEMMA CarriedNext ==
    ASSUME Reconciling, Carried, [Next]_vars
    PROVE  Carried'
  <1> USE DEF admission, user, cluster
  <1> SUFFICES ASSUME plan' # <<>>, ~obj'.deleting, ~obj'.spec.external PROVE Carried'
    BY DEF Carried
  <1>0. /\ Typed /\ Orderly /\ Made /\ plan \in Seq(Calls)
        /\ plan # <<>> => inst # None
    BY DEF Reconciling, Typed, InstanceTypeOK
  <1>1. CASE Begin
    <2>1. inst \in HeadscaleInstances /\ obj' = inst
      BY <1>0, <1>1 DEF Begin, Typed, InstanceTypeOK
    <2>2. \A c : Ahead(plan', c) <=> c \in CallsOf(obj') \ {"save"}
      BY <1>1, <2>1, BeginPlan DEF Begin
    <2> QED
      BY <2>2 DEF Carried, CallsOf, ManagedCalls, Headscale, Drops
  <1>2. CASE Mint
    <2>1. plan # <<>> /\ Head(plan) = "key" /\ obj' = obj /\ plan' = <<"save">> \o Tail(plan)
          /\ UNCHANGED <<objs, scimVolume>>
      BY <1>2 DEF Mint, Call
    <2>2. \A c : Ahead(plan', c) <=> c = "save" \/ Ahead(Tail(plan), c)
      BY <1>0, <2>1, RankedSave DEF Orderly
    <2>3. \A c : c \notin {"key", "save"} => (Ahead(plan', c) <=> Ahead(plan, c))
      BY <1>0, <2>1, <2>2, AheadTail
    <2>4. Ahead(plan, "sts") <=> Ahead(plan', "sts")
      BY <2>3
    <2>5. \A c \in {"dropScimSts", "dropScimVolume"} : Ahead(plan, c) <=> Ahead(plan', c)
      BY <2>3
    <2> QED
      BY <2>1, <2>4, <2>5 DEF Carried
  <1>3. CASE plan # <<>> /\ Done
    <2>1. plan' = Tail(plan) /\ obj' = obj /\ inst # None
      BY <1>0, <1>3 DEF Done
    <2>2. \A c : Ahead(plan, c) <=> c = Head(plan) \/ Ahead(plan', c)
      BY <1>0, <1>3, <2>1, AheadTail
    <2>3. plan' # plan
      <3>1. Len(Tail(plan)) = Len(plan) - 1 /\ Len(plan) \in Nat
        BY <1>0, <1>3, Plans
      <3>2. \A n \in Nat : n - 1 # n
        OBVIOUS
      <3> QED
        BY <2>1, <3>1, <3>2
    <2>4. ~Ahead(plan', "sts") => objs'["sts"] = build_config(obj.spec.extra_config)
      <3> SUFFICES ASSUME ~Ahead(plan', "sts") PROVE objs'["sts"] = build_config(obj.spec.extra_config)
        OBVIOUS
      <3>1. CASE ~Ahead(plan, "sts")
        BY <1>0, <1>3, <2>1, <3>1, StsNext DEF Carried
      <3>2. CASE Head(plan) = "sts"
        <4>1. ApplyChild
          <5>1. ~Elsewhere
            BY <2>3, ElsewhereNext
          <5>2. ~Adopt /\ ~Begin /\ ~AskToUnfinalize /\ ~Finalize /\ ~Fail
            BY <1>3, <2>1, <2>3 DEF Adopt, Begin, AtRest, AskToUnfinalize, Finalize, Patched, Stop, Fail
          <5>3. ~(CheckReady \/ ensure_api_key \/ sync_policy \/ DropVolume("dropVolume")
                    \/ DropVolume("dropScimVolume") \/ ReportReady \/ apply_external)
            BY <3>2 DEF CheckReady, ensure_api_key, sync_policy, DropVolume, ReportReady, apply_external, Call
          <5> QED
            BY <5>1, <5>2, <5>3 DEF Next, Reconcile, Elsewhere
        <4>2. DOMAIN objs = Pieces /\ "sts" \in Pieces
          BY <1>0 DEF Typed, InstanceTypeOK, Pieces, Headscale
        <4> QED
          BY <3>2, <4>1, <4>2 DEF ApplyChild, Apply, Call, desired_hash
      <3> QED
        BY <2>2, <3>1, <3>2
    <2>5. ASSUME ~obj.spec.scim, Ahead(plan', "dropScimSts") PROVE Ahead(plan', "dropScimVolume")
      <3>1. Ahead(plan, "dropScimVolume")
        BY <1>3, <2>1, <2>2, <2>5 DEF Carried
      <3>2. Head(plan) # "dropScimVolume"
        <4>1. "dropScimSts" \in Calls /\ Rank["dropScimSts"] <= Rank["dropScimVolume"]
          BY DEF Calls, Rank
        <4> QED
          BY <1>0, <1>3, <2>1, <2>5, <4>1, RankedHead DEF Orderly
      <3> QED
        BY <2>2, <3>1, <3>2
    <2>6. ASSUME ~obj.spec.scim, ~Ahead(plan', "dropScimVolume") PROVE scimVolume' # "bound"
      <3>1. CASE ~Ahead(plan, "dropScimVolume")
        <4>1. scimVolume # "bound"
          BY <1>3, <2>1, <2>6, <3>1 DEF Carried
        <4> QED
          BY <2>3, <4>1, BoundNext
      <3>2. CASE Head(plan) = "dropScimVolume"
        <4>1. ~Elsewhere
          BY <2>3, ElsewhereNext
        <4>2. ~Adopt /\ ~Begin /\ ~AskToUnfinalize /\ ~Finalize /\ ~Fail
          BY <1>3, <2>1, <2>3 DEF Adopt, Begin, AtRest, AskToUnfinalize, Finalize, Patched, Stop, Fail
        <4>3. ~(ApplyChild \/ CheckReady \/ ensure_api_key \/ sync_policy \/ DropVolume("dropVolume")
                  \/ ReportReady \/ apply_external)
          BY <3>2 DEF ApplyChild, CheckReady, ensure_api_key, sync_policy, DropVolume, ReportReady,
                      apply_external, Call
        <4>4. DropVolume("dropScimVolume")
          BY <4>1, <4>2, <4>3 DEF Next, Reconcile, Elsewhere
        <4>5. scimVolume' \in {None, "going"}
          BY <4>4 DEF DropVolume
        <4> QED
          BY <4>5, NoneIsNothing
      <3> QED
        BY <2>2, <2>6, <3>1, <3>2
    <2> QED
      BY <2>1, <2>4, <2>5, <2>6 DEF Carried
  <1>4. CASE plan # <<>> /\ UNCHANGED <<plan, obj>> /\ ~Call("sts")
    <2>1. inst # None
      BY <1>0, <1>4
    <2>2. ~Ahead(plan, "sts") => objs'["sts"] = build_config(obj.spec.extra_config)
      BY <1>0, <1>4, <2>1, StsNext DEF Carried
    <2>3. ASSUME ~obj.spec.scim, ~Ahead(plan, "dropScimVolume") PROVE scimVolume' # "bound"
      <3>1. scimVolume # "bound" /\ ~Ahead(plan, "dropScimSts")
        BY <1>4, <2>3 DEF Carried
      <3>2. objs["scimSts"] = None
        <4>1. "scimSts" \in Scim /\ Dropping["scimSts"] = "dropScimSts"
          BY DEF Scim, Dropping
        <4> QED
          BY <1>0, <1>4, <2>3, <3>1, <4>1 DEF Made
      <3> QED
        BY <3>1, <3>2, BoundNext
    <2> QED
      BY <1>4, <2>2, <2>3 DEF Carried
  <1>5. ASSUME UNCHANGED plan, plan # <<>> PROVE ~Call("sts") \/ ~(Reconcile \/ Fail)
    <2>1. ASSUME Call("sts") PROVE ~Reconcile /\ ~Fail
      <3>1. ~ApplyChild
        <4>1. Len(Tail(plan)) = Len(plan) - 1 /\ Len(plan) \in Nat
          BY <1>0, <1>5, Plans
        <4>2. \A n \in Nat : n - 1 # n
          OBVIOUS
        <4>3. Tail(plan) # plan
          BY <4>1, <4>2
        <4> QED
          BY <1>5, <4>3 DEF ApplyChild, Apply, Done
      <3> QED
        BY <1>5, <2>1, <3>1
        DEF Reconcile, Adopt, Begin, AtRest, CheckReady, ensure_api_key, sync_policy, DropVolume,
            ReportReady, apply_external, AskToUnfinalize, Finalize, Patched, Stop, Fail, Call
    <2> QED
      BY <2>1
  <1>6. CASE Elsewhere
    <2>1. UNCHANGED <<plan, obj>> /\ plan # <<>> /\ inst # None /\ UNCHANGED objs
      BY <1>0, <1>6, ElsewhereNext
    <2>2. ASSUME ~obj.spec.scim, ~Ahead(plan, "dropScimVolume") PROVE scimVolume' # "bound"
      <3>1. scimVolume # "bound" /\ ~Ahead(plan, "dropScimSts")
        BY <2>1, <2>2 DEF Carried
      <3>2. objs["scimSts"] = None
        <4>1. "scimSts" \in Scim /\ Dropping["scimSts"] = "dropScimSts"
          BY DEF Scim, Dropping
        <4> QED
          BY <1>0, <2>1, <2>2, <3>1, <4>1 DEF Made
      <3> QED
        BY <3>1, <3>2, BoundNext
    <2> QED
      BY <2>1, <2>2 DEF Carried
  <1>7. CASE Reconcile \/ Fail
    <2>1. CASE UNCHANGED <<plan, obj>>
      BY <1>4, <1>5, <1>7, <2>1
    <2> QED
      BY <1>1, <1>2, <1>3, <1>7, <2>1, ReconcileNext
  <1> QED
    BY <1>6, <1>7 DEF Next, Elsewhere

LEMMA ConcludedNext ==
    ASSUME Reconciling, Carried, Concluded, [Next]_vars
    PROVE  Concluded'
  <1> USE DEF admission, user, cluster
  <1> SUFFICES ASSUME Observed', status'.ready, ~inst'.deleting, ~inst'.spec.external
               PROVE  Turned(inst.spec)'
    BY DEF Concluded
  <1>0. /\ inst' # None /\ status' # None /\ status'.generation = inst'.generation
        /\ Typed /\ Orderly /\ Attached /\ Reported /\ Made /\ Honest
    BY DEF Observed, Reconciling
  <1>1. Typed'
    BY <1>0, TypedNext
  <1>2. /\ inst # None => inst.generation \in Nat
        /\ inst'.generation \in Nat
        /\ plan # <<>> => inst # None /\ obj.generation \in Nat
        /\ plan \in Seq(Calls)
    BY <1>0, <1>1, InstanceConstants
    DEF Typed, InstanceTypeOK, Backed, HeadscaleInstances, Generations
  <1>3. CASE status' = status
    <2>1. inst # None /\ status # None /\ status.generation <= inst.generation
      BY <1>0, <1>3 DEF Reported
    <2>2. inst.generation <= inst'.generation /\ ~inst.deleting
      BY <1>0, <2>1, InstNext
    <2>3. inst.generation = inst'.generation /\ status.generation = inst.generation
      BY <1>0, <1>2, <1>3, <2>1, <2>2
    <2>4. inst'.spec = inst.spec
      BY <1>0, <2>1, <2>3, InstNext
    <2>5. Turned(inst.spec) /\ Honored(inst.spec)
      BY <1>0, <1>3, <2>1, <2>2, <2>3, <2>4 DEF Concluded, Honest, Observed
    <2>6. ASSUME Call("sts") PROVE obj.spec = inst.spec
      <3>1. status.generation <= obj.generation /\ obj.generation <= inst.generation /\ plan # <<>>
        BY <1>0, <2>1, <2>6 DEF Reported, Attached, Call
      <3>2. obj.generation = inst.generation
        BY <1>2, <2>3, <3>1
      <3> QED
        BY <1>0, <3>1, <3>2 DEF Attached
    <2>7. objs'["sts"] = build_config(inst.spec.extra_config)
      BY <1>0, <2>1, <2>5, <2>6, StsNext DEF Turned
    <2>8. ASSUME ~inst.spec.scim PROVE scimVolume' # "bound"
      <3>1. scimVolume # "bound"
        BY <2>5, <2>8 DEF Turned
      <3>2. objs["scimSts"] = None
        <4>1. Present = Headscale
          BY <2>4, <2>5, <2>8 DEF Honored, Wanted
        <4> QED
          BY <4>1 DEF Present, Pieces, Headscale, Scim
      <3> QED
        BY <3>1, <3>2, BoundNext
    <2>9. PICK s : s = inst.spec
      OBVIOUS
    <2>10. Turned(s)'
      BY <2>7, <2>8, <2>9 DEF Turned
    <2> QED
      BY <2>4, <2>9, <2>10 DEF Turned
  <1>4. CASE /\ plan # <<>>
             /\ inst' = inst
             /\ \E ready \in BOOLEAN : \E reason :
                   /\ status' = Condition(ready, reason)
                   /\ ready => ReportReady \/ (apply_external /\ ~ExternalConflict(obj.spec))
    <2>1. /\ status'.generation = obj.generation
          /\ ReportReady \/ (apply_external /\ ~ExternalConflict(obj.spec))
      BY <1>4 DEF Condition
    <2>2. obj.spec = inst'.spec /\ ~obj.deleting
      BY <1>0, <1>4, <2>1 DEF Attached
    <2>3. Ahead(plan, Head(plan)) /\ Head(plan) \in CallsOf(obj)
      BY <1>0, <1>2, <1>4, AheadTail DEF Orderly
    <2>4. ~apply_external
      BY <2>2, <2>3 DEF apply_external, Call, CallsOf, ManagedCalls, Headscale, Scim, Drops
    <2>5. Head(plan) = "status" /\ UNCHANGED <<objs, scimVolume>>
      BY <2>1, <2>4 DEF ReportReady, Call
    <2>6. \A c \in CallsOf(obj) : c \in Calls /\ Rank[c] <= Rank["status"]
      BY <2>2 DEF CallsOf, ManagedCalls, Headscale, Scim, Drops, Calls, Pieces, Rank
    <2>7. \A c : Ahead(plan, c) => c = "status"
      BY <1>0, <1>2, <1>4, <2>5, <2>6, AheadTail, RankedHead DEF Orderly
    <2>8. Turned(obj.spec)
      BY <1>4, <2>2, <2>7 DEF Carried, Turned
    <2>9. PICK s : s = obj.spec
      OBVIOUS
    <2>10. Turned(s)'
      BY <2>5, <2>8, <2>9 DEF Turned
    <2> QED
      BY <2>2, <2>9, <2>10 DEF Turned
  <1> QED
    BY <1>0, <1>3, <1>4, StatusNext

LEMMA TurnedAlways == Spec => [](Reconciling /\ Concluded)
  <1>1. Init => Carried /\ Concluded
    BY DEF Init, Carried, Concluded, Observed
  <1>2. /\ Reconciling /\ Carried /\ [Next]_vars => Carried'
        /\ Reconciling /\ Carried /\ Concluded /\ [Next]_vars => Concluded'
    BY CarriedNext, ConcludedNext
  <1> QED
    BY <1>1, <1>2, ReconcilingInit, ReconcilingNext, PTL DEF Spec

(* Where Ready is reported for a spec without SCIM, no part of the service is left
   and its volume is gone or going, whatever the cluster has bound while the
   reconcile was on its way.  This is the safety core of ScimLeavesNothing. *)
THEOREM ReadyWithoutScim ==
    Spec => [](Observed /\ status.ready /\ ~inst.deleting /\ ~inst.spec.external /\ ~inst.spec.scim
                => Present \cap Scim = {} /\ scimVolume # "bound")
  <1>1. Reconciling /\ Concluded =>
            (Observed /\ status.ready /\ ~inst.deleting /\ ~inst.spec.external /\ ~inst.spec.scim
                => Present \cap Scim = {} /\ scimVolume # "bound")
    <2>1. Headscale \cap Scim = {}
      BY DEF Headscale, Scim
    <2> QED
      BY <2>1 DEF Reconciling, Concluded, Turned, Honest, Honored, Wanted
  <1> QED
    BY <1>1, TurnedAlways, PTL

(* Where Ready is reported, a pod that the StatefulSet does not replace any more
   runs what the spec says, on a volume that holds the spec's policy, unless it
   was started between the two calls that a change of the configuration takes.
   This is the safety core of Converges. *)
THEOREM ReadyPodIsOfSpec ==
    Spec => [](/\ Observed /\ status.ready /\ ~inst.deleting /\ ~inst.spec.external
               /\ pod # None /\ pod.hash = objs["sts"] /\ ~Stuck
            => /\ pod.config = build_config(inst.spec.extra_config)
               /\ volume # None /\ ~volume.going /\ volume.policy = inst.spec.policy)
  <1>1. Reconciling /\ Concluded =>
            (/\ Observed /\ status.ready /\ ~inst.deleting /\ ~inst.spec.external
             /\ pod # None /\ pod.hash = objs["sts"] /\ ~Stuck
            => /\ pod.config = build_config(inst.spec.extra_config)
               /\ volume # None /\ ~volume.going /\ volume.policy = inst.spec.policy)
    <2> SUFFICES ASSUME Reconciling, Concluded, Observed, status.ready, ~inst.deleting,
                        ~inst.spec.external, pod # None, pod.hash = objs["sts"], ~Stuck
                 PROVE  /\ pod.config = build_config(inst.spec.extra_config)
                        /\ volume # None /\ ~volume.going /\ volume.policy = inst.spec.policy
      OBVIOUS
    <2>1. Synced(inst.spec)
      BY DEF Reconciling, Honest, Honored
    <2>2. objs["sts"] = build_config(inst.spec.extra_config)
      BY DEF Concluded, Turned
    <2>3. pod.config = pod.hash
      BY DEF Stuck
    <2> QED
      BY <2>1, <2>2, <2>3 DEF Synced
  <1> QED
    BY <1>1, TurnedAlways, PTL
-----------------------------------------------------------------------------
(* What an instance leaves behind. *)

(* Without a plan no child is applied, and without a StatefulSet no pod started. *)
LEMMA GoneNext ==
    Typed /\ [Next]_vars => (inst = None => Present' \subseteq Present /\ (Vacant => Vacant'))
  <1> SUFFICES ASSUME Typed, [Next]_vars, inst = None
               PROVE  Present' \subseteq Present /\ (Vacant => Vacant')
    OBVIOUS
  <1>1. plan = <<>>
    BY DEF Typed, InstanceTypeOK
  <1>2. CASE UNCHANGED <<objs, pod>>
    BY <1>2 DEF Present, Vacant
  <1>3. CASE Cluster
    <2>1. CASE StartPod
      BY <2>1 DEF StartPod, Present, Vacant, Nothing, Pieces, Headscale
    <2>2. CASE PodReady \/ RollPod
      BY <2>2 DEF PodReady, RollPod, Present, Vacant
    <2>3. CASE BindScim \/ ReleaseVolume \/ ReleaseScimVolume
      BY <1>2, <2>3 DEF BindScim, ReleaseVolume, ReleaseScimVolume
    <2>4. CASE Collect
      BY <2>4 DEF Collect, Present, Vacant, Nothing
    <2> QED
      BY <1>3, <2>1, <2>2, <2>3, <2>4 DEF Cluster
  <1>4. CASE PodDies
    BY <1>4 DEF PodDies, Present, Vacant
  <1>5. ~Begin /\ ~ApplyChild /\ ~Fail
    BY <1>1 DEF Begin, ApplyChild, Call, Fail
  <1>6. CASE Reconcile
    BY <1>1, <1>2, <1>5, <1>6
    DEF Reconcile, Adopt, CheckReady, ensure_api_key, sync_policy, DropVolume, ReportReady, Call,
        apply_external, AskToUnfinalize, Finalize, cluster
  <1>7. CASE (\E r \in Reviewers : Webhook(r)) \/ Dropped \/ UNCHANGED vars
    BY <1>2, <1>7 DEF Webhook, Dropped, cluster, vars
  <1>8. CASE Request \/ Stored \/ Bypass \/ Delete
    BY <1>2, <1>8 DEF Request, Stored, Bypass, Delete, cluster
  <1> QED
    BY <1>3, <1>4, <1>5, <1>6, <1>7, <1>8 DEF Next

(* What an instance that is gone has left behind only gets less, whatever the
   controller still had to do for it and whatever requests are answered late;
   and once the last of it is gone nothing returns, no pod either, until the
   name is used again.  This is the safety core of Vanishes. *)
THEOREM GoneStaysGone ==
    Spec => [][inst = None => Present' \subseteq Present /\ (Vacant => Vacant')]_vars
  <1>1. Typed /\ [Next]_vars
            => [inst = None => Present' \subseteq Present /\ (Vacant => Vacant')]_vars
    BY GoneNext
  <1> QED
    BY <1>1, TypedInit, TypedNext, PTL DEF Spec

=============================================================================
