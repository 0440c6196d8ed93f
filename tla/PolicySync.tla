----------------------------- MODULE PolicySync -----------------------------
(***************************************************************************)
(* The two writers of one headscale policy: the SCIM service (module Scim) *)
(* and the operator's sync_policy (operator/src/controllers/               *)
(* headscale_instance/policy.rs), for a HeadscaleInstance with SCIM.       *)
(*                                                                         *)
(* The operator computes the policy it wants from the instance's spec, the *)
(* access grants of the Ingresses that refer to it, and the groups of the  *)
(* policy it has just fetched, which belong to the SCIM service.  It holds *)
(* no lock in doing so: either side may write between the other's get and  *)
(* set.  After a write it asks the SCIM service to reconcile.              *)
(***************************************************************************)
EXTENDS Scim

CONSTANTS
    Ingresses,       \* Ingresses; each stands for its auto tag, too
    HeadmasterTag,   \* tag:headmaster
    InlinePolicies,  \* values of spec.policy.inline
    AccessLists,     \* sets of access grants the Ingresses may carry
    MaxEdits         \* edits of the spec and of the Ingresses

(* One access entry of an Ingress, and the grant it becomes. *)
AccessEntries == [ingress : Ingresses, from : SUBSET Principals]
GrantOf(entry) == [src |-> entry.from, dst |-> {entry.ingress}]

ASSUME SyncConstants ==
    /\ Ingresses \cup {HeadmasterTag} \subseteq Tags
    /\ Ingresses \subseteq Others
    /\ None \notin InlinePolicies
    /\ InlinePolicies \subseteq Policies
    /\ AccessLists \subseteq SUBSET AccessEntries
    /\ MaxEdits \in Nat

VARIABLES
    declared,  \* spec.policy of the HeadscaleInstance: an inline policy, or None
    access,    \* access entries of the Ingresses that refer to it
    opc,       \* stage of the operator's reconcile
    seen,      \* what it has read of spec and Ingresses
    current,   \* the policy it has fetched
    edits      \* number of edits by users

operator == <<opc, seen, current>>
syncVars == <<vars, operator, declared, access, edits>>

OperatorStages == {"idle", "get", "set", "notify"}
Inputs == [policy : InlinePolicies \cup {None}, access : AccessLists]

SyncTypeOK ==
    /\ TypeOK
    /\ declared \in InlinePolicies \cup {None}
    /\ access \in AccessLists
    /\ opc \in OperatorStages
    /\ seen \in Inputs \cup {None}
    /\ current \in Policies \cup {None}
    /\ edits \in 0 .. MaxEdits

-----------------------------------------------------------------------------
(* Variant for the checks: the grants of all entries are merged. *)
AllReady(entries, known) == entries

(* merge_ingress_grants skips the entries that wait for a group. *)
Ready(entries, known) == {e \in entries : (e.from \cap GroupNames) \subseteq known}

(* The policy the operator wants, given what is live. *)
Desired(input, p) ==
    IF input.policy = None THEN EmptyPolicy
    ELSE LET base == CopyGroups(input.policy, p)
             ready == Ready(input.access, KnownGroups(base))
         IN  [base EXCEPT !.grants = @ \cup {GrantOf(e) : e \in ready},
                          !.owners = @ \cup {HeadmasterTag} \cup {e.ingress : e \in ready}]

(* policy_has_groups_with_members: groups in the inline policy are in conflict
   with SCIM. *)
Conflict(policy) == policy # None /\ \E n \in KnownGroups(policy) : policy.groups[n] # {}

(* reconcile takes the object as it is cached and lists the Ingresses. *)
BeginSync ==
    /\ opc = "idle"
    /\ ~Conflict(declared)
    /\ opc' = "get"
    /\ seen' = [policy |-> declared, access |-> access]
    /\ UNCHANGED <<vars, current, declared, access, edits>>

EndSync == opc' = "idle" /\ seen' = None /\ current' = None

GetPolicy ==
    /\ opc = "get"
    /\ \/ /\ Desired(seen, live) # live
          /\ current' = live
          /\ opc' = "set"
          /\ UNCHANGED <<seen, faults>>
       \/ Desired(seen, live) = live /\ EndSync /\ UNCHANGED faults
       \/ Fault /\ EndSync
    /\ UNCHANGED <<service, live, session, requests, declared, access, edits>>

(* Variant for the checks: SCIM is not told of the write. *)
SetPolicySilently ==
    /\ opc = "set"
    /\ live' = Desired(seen, current)
    /\ EndSync
    /\ UNCHANGED <<service, session, requests, faults, declared, access, edits>>

(* headscale rejects a policy whose grants refer to undeclared groups.  The
   allow-all reset of an instance without policy is not followed by a
   notification. *)
SetPolicy ==
    /\ opc = "set"
    /\ LET new == Desired(seen, current)
       IN  \/ /\ Resolves(new)
              /\ live' = new
              /\ UNCHANGED faults
              /\ IF seen.policy = None THEN EndSync
                 ELSE opc' = "notify" /\ UNCHANGED <<seen, current>>
           \/ ~Resolves(new) /\ EndSync /\ UNCHANGED <<live, faults>>
           \/ Fault /\ live' \in {live} \cup {p \in {new} : Resolves(p)} /\ EndSync
    /\ UNCHANGED <<service, session, requests, declared, access, edits>>

(* notify_scim posts to /internal/reconcile; it does not matter to it whether
   the request is answered, in time or at all. *)
NotifyScim ==
    /\ opc = "notify"
    /\ \/ \E h \in Handlers : Sync(h)
       \/ Fault /\ UNCHANGED <<service, live, session, requests>>
    /\ EndSync
    /\ UNCHANGED <<declared, access, edits>>

(* The operator dies and restarts; it keeps nothing. *)
OperatorRestart ==
    /\ Fault
    /\ opc # "idle"
    /\ EndSync
    /\ UNCHANGED <<service, live, session, requests, declared, access, edits>>

(* Users edit the instance's spec and the annotations of the Ingresses. *)
Edit ==
    /\ edits < MaxEdits
    /\ edits' = edits + 1
    /\ \/ declared' \in InlinePolicies \cup {None} /\ UNCHANGED access
       \/ access' \in AccessLists /\ UNCHANGED declared
    /\ UNCHANGED <<vars, operator>>

-----------------------------------------------------------------------------
SyncInit ==
    /\ Init
    /\ declared \in InlinePolicies
    /\ access \in AccessLists
    /\ opc = "idle"
    /\ seen = None
    /\ current = None
    /\ edits = 0

(* Only the operator posts to /internal/reconcile. *)
ScimStep ==
    /\ Next
    /\ ~ \E h \in Handlers : Sync(h)
    /\ UNCHANGED <<operator, declared, access, edits>>

SyncNext ==
    \/ ScimStep
    \/ BeginSync \/ GetPolicy \/ SetPolicy \/ NotifyScim
    \/ OperatorRestart
    \/ Edit

SyncSpec == SyncInit /\ [][SyncNext]_syncVars

(* A HeadscaleInstance is reconciled again 60 seconds after a success and 30
   after an error; calls return; the SCIM server accepts the posted request as
   soon as it has a handler for it. *)
OperatorRuns ==
    /\ WF_syncVars(BeginSync)
    /\ WF_syncVars(GetPolicy)
    /\ WF_syncVars(SetPolicy)
    /\ SF_syncVars(NotifyScim)

ServiceRuns ==
    \A h \in Handlers :
        /\ WF_syncVars(Proceed(h) /\ UNCHANGED <<operator, declared, access, edits>>)
        /\ SF_syncVars(AcquireLock(h) /\ UNCHANGED <<operator, declared, access, edits>>)

FairSyncSpec == SyncSpec /\ OperatorRuns /\ ServiceRuns

-----------------------------------------------------------------------------
(* Properties. *)

(* Clobbered groups heal: when requests and edits have come to an end and
   nothing has failed, the groups are those of the mapping, for good, by no
   other means than the notification after a write.  It takes a policy that the
   operator writes and headscale accepts before the groups are back: the groups
   of an instance whose policy was removed and then declared again, in conflict
   with SCIM, stay away. *)
GroupsHeal ==
    <>[](/\ faults = 0
         /\ declared # None /\ ~Conflict(declared) /\ declared.grants = GroupFree(declared)
         => live.groups = Resolved(mapping))

(* The policy settles on what the spec and the Ingresses call for: the declared
   grants and an access grant for each entry whose groups are there, none held
   back by another that waits and none left of what is no longer asked for.  It
   takes declared grants that headscale accepts. *)
GroupsLive(refs) == refs \subseteq KnownGroups(live)

Settled ==
    /\ declared = None => live = EmptyPolicy
    /\ /\ declared # None
       /\ ~Conflict(declared)
       /\ \A g \in declared.grants : GroupsLive(GroupRefs(g))
       => live.grants = declared.grants
               \cup {GrantOf(e) : e \in {x \in access : GroupsLive(x.from \cap GroupNames)}}

PolicySettles == <>[]Settled
=============================================================================
