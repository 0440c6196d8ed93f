----------------------------- MODULE Admission -----------------------------
(***************************************************************************)
(* How a HeadscaleInstance is admitted.  The API server asks the operator's *)
(* webhook about every create and every update of an instance, those that  *)
(* the operator itself sends for its finalizer included.  The webhook      *)
(* checks the spec, and of a managed instance tries the rendered           *)
(* configuration in a Job that runs `headscale configtest`.                *)
(*                                                                         *)
(* Sources: operator/src/server/webhook.rs, the configuration it shares    *)
(* with the controller (headscale_instance/builders.rs), and the webhook   *)
(* configuration in the chart: failurePolicy Fail, timeoutSeconds 30.      *)
(* Module Instance composes it with the controller.                        *)
(***************************************************************************)
EXTENDS Integers, Sequences, FiniteSets

CONSTANTS
    Specs,     \* that the user may want
    Policies,  \* inline policies
    Grouped,   \* those with a group that has members
    MaxFaults, \* failed and late calls, lost handlers, dead pods
    None

(* The keys of headscale's configuration that make a difference here: two that
   the operator pins, one at the top level and one under dns, one that it gives a
   default, and the one that headscale wants to see with it. *)
RESERVED_TOP_LEVEL == {"database"}
RESERVED_DNS_KEYS == {"base_domain"}
Pinned == RESERVED_TOP_LEVEL \cup RESERVED_DNS_KEYS
Defaulted == {"override_local_dns"}
Keys == Pinned \cup Defaulted \cup {"nameservers"}

(* `extra_config` is the set of keys that the user sets. *)
HeadscaleInstanceSpec ==
    [external : BOOLEAN, policy : Policies \cup {None}, scim : BOOLEAN, extra_config : SUBSET Keys]

ASSUME AdmissionConstants ==
    /\ Specs \subseteq HeadscaleInstanceSpec
    /\ Grouped \subseteq Policies
    /\ None \notin Policies
    /\ MaxFaults \in Nat

VARIABLES
    review,  \* for the user and for the operator: the request before the webhook
    litter,  \* ConfigMaps of configtests that nobody is going to delete
    faults

Reviewers == {"user", "operator"}
Phases == {"create_map", "create_job", "wait", "clean", "allowed", "denied"}

Review ==
    [spec : HeadscaleInstanceSpec, phase : Phases, map : BOOLEAN, verdict : {"allowed", "denied"}]

AdmissionTypeOK ==
    /\ DOMAIN review = Reviewers
    /\ \A r \in Reviewers : review[r] = None \/ review[r] \in Review
    /\ litter \in Nat
    /\ faults \in 0 .. MaxFaults

-----------------------------------------------------------------------------
(* Configurations. *)

(* Defaults, then the user's keys, then the pinned ones. *)
BuildConfigUnpinned(extra_config) ==
    [k \in extra_config \cup Pinned \cup Defaulted |->
        IF k \in extra_config THEN "user" ELSE IF k \in Pinned THEN "operator" ELSE "default"]
build_config(extra_config) ==
    [k \in extra_config \cup Pinned \cup Defaulted |->
        IF k \in Pinned THEN "operator" ELSE IF k \in extra_config THEN "user" ELSE "default"]

Configs == {build_config(e) : e \in SUBSET Keys}

check_reserved_keys(extra_config) == extra_config \cap Pinned = {}
policy_has_groups_with_members(policy) == policy \in Grouped

(* headscale, by what builders.rs says of it. *)
Configtest(config) == config["override_local_dns"] = "user" => "nameservers" \in DOMAIN config

ExternalConflict(s) == s.external /\ (s.policy # None \/ s.scim \/ s.extra_config # {})
ScimConflict(s) == ~s.external /\ s.scim /\ policy_has_groups_with_members(s.policy)

(* Specs that are good, whoever looks at them. *)
Fits(s) ==
    /\ ~ExternalConflict(s)
    /\ ~ScimConflict(s)
    /\ ~s.external => check_reserved_keys(s.extra_config) /\ Configtest(build_config(s.extra_config))

-----------------------------------------------------------------------------
(* The webhook. *)

(* An outage, short or long enough for two calls in a row. *)
Fault == faults < MaxFaults /\ faults' = faults + 1

(* The handler looks at the spec first, and answers at once if that is enough. *)
validate(s) ==
    IF s.external THEN IF ExternalConflict(s) THEN "denied" ELSE "allowed"
    ELSE IF ScimConflict(s) \/ ~check_reserved_keys(s.extra_config) THEN "denied"
    ELSE "create_map"

Submit(r, s) ==
    /\ review[r] = None
    /\ review' = [review EXCEPT ![r] =
            [spec |-> s, phase |-> validate(s), map |-> FALSE, verdict |-> "denied"]]
    /\ UNCHANGED litter

Answered(r) == review[r] # None /\ review[r].phase \in {"allowed", "denied"}
Consume(r) == review' = [review EXCEPT ![r] = None] /\ UNCHANGED litter

At(r, phase) == review[r] # None /\ review[r].phase = phase
Become(r, now) == review' = [review EXCEPT ![r] = now]
Deny(r) == Become(r, [review[r] EXCEPT !.phase = "denied"])

CreateMap(r) ==
    /\ At(r, "create_map")
    /\ \/ /\ Become(r, [review[r] EXCEPT !.phase = "create_job", !.map = TRUE])
          /\ UNCHANGED <<litter, faults>>
       \/ Deny(r) /\ Fault /\ UNCHANGED litter

(* A Job that cannot be created takes its ConfigMap with it, unless that fails too. *)
CreateJob(r) ==
    /\ At(r, "create_job")
    /\ \/ /\ Become(r, [review[r] EXCEPT !.phase = "wait"])
          /\ UNCHANGED <<litter, faults>>
       \/ Deny(r) /\ Fault /\ litter' \in {litter, litter + 1}

AwaitOrReturn(r) ==
    /\ At(r, "wait")
    /\ IF Configtest(build_config(review[r].spec.extra_config))
       THEN /\ Become(r, [review[r] EXCEPT !.phase = "clean", !.verdict = "allowed"])
            /\ UNCHANGED <<litter, faults>>
       ELSE Deny(r) /\ litter' = litter + 1 /\ UNCHANGED faults
(* 25 seconds for the Job and 5 for its logs; one that is late, or whose watch
   fails, has not succeeded. *)
Await(r) ==
    /\ At(r, "wait")
    /\ \/ /\ Become(r, [review[r] EXCEPT !.phase = "clean",
                    !.verdict = IF Configtest(build_config(review[r].spec.extra_config))
                                THEN "allowed" ELSE "denied"])
          /\ UNCHANGED faults
       \/ Become(r, [review[r] EXCEPT !.phase = "clean"]) /\ Fault
    /\ UNCHANGED litter

(* Both deletes are tried, and neither is looked at.  A Job that stays has a TTL. *)
Clean(r) ==
    /\ At(r, "clean")
    /\ Become(r, [review[r] EXCEPT !.phase = review[r].verdict, !.map = FALSE])
    /\ \/ UNCHANGED <<litter, faults>>
       \/ Fault /\ litter' = litter + 1

(* The API server gives up after 30 seconds and drops the connection, and the
   handler with it; or the operator stops.  failurePolicy is Fail. *)
Abandon(r) ==
    /\ review[r] # None
    /\ review[r].phase \notin {"allowed", "denied"}
    /\ Fault
    /\ litter' = litter + IF review[r].map THEN 1 ELSE 0
    /\ Deny(r)

Handle(r) == CreateMap(r) \/ CreateJob(r) \/ Await(r) \/ Clean(r)

AdmissionInit ==
    /\ review = [r \in Reviewers |-> None]
    /\ litter = 0
    /\ faults = 0

=============================================================================
