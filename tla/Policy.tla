------------------------------- MODULE Policy -------------------------------
(***************************************************************************)
(* The headscale ACL policy, as far as headmaster edits it.  The SCIM      *)
(* service and the operator both hold it as a HuJSON document behind a     *)
(* PolicyEditor (headscale-client/src/policy.rs) and change three of its   *)
(* keys:                                                                   *)
(*                                                                         *)
(*   groups   the declared group names, each with its members              *)
(*   grants   the access rules; each names its sources and destinations    *)
(*   owners   the tags that tagOwners declares                             *)
(*                                                                         *)
(* Order and multiplicity inside arrays are abstracted (they decide only   *)
(* whether a write is skipped as redundant), and so is every other key,    *)
(* which both editors carry over untouched.  The empty document, for which *)
(* headscale allows all traffic, is EmptyPolicy.                           *)
(***************************************************************************)
CONSTANTS
    GroupNames,   \* names a policy can declare under `groups`
    Others,       \* principals of a grant that are no group: tags, `*`, emails
    Tokens,       \* identifiers that can be members of a group
    Tags          \* tags that can be declared under `tagOwners`

ASSUME PrincipalsAreDistinct == GroupNames \cap Others = {}

Principals == GroupNames \cup Others
GroupTables == UNION {[names -> SUBSET Tokens] : names \in SUBSET GroupNames}
Grants == [src : SUBSET Principals, dst : SUBSET Principals]
Policies == [groups : GroupTables, grants : SUBSET Grants, owners : SUBSET Tags]

NoGroups == [n \in {} |-> {}]
EmptyPolicy == [groups |-> NoGroups, grants |-> {}, owners |-> {}]

KnownGroups(p) == DOMAIN p.groups

SetGroups(p, table) == [p EXCEPT !.groups = table]

CopyGroups(p, other) == [p EXCEPT !.groups = other.groups]

-----------------------------------------------------------------------------
(***************************************************************************)
(* Pruning: the references to groups that are not declared leave a grant,  *)
(* and a grant goes with them when that is what emptied one of its sides.  *)
(* A side that was empty before does not remove its grant.                 *)
(***************************************************************************)
Stale(side, known) == (side \cap GroupNames) \ known

Kept(side, known) == side \ Stale(side, known)

Pruned(grant, known) ==
    [src |-> Kept(grant.src, known), dst |-> Kept(grant.dst, known)]

EmptiedByPruning(side, known) == side # {} /\ Kept(side, known) = {}

(* Variant for the checks: a side that is empty anyway removes the grant. *)
RemovedIfEmpty(grant, known) ==
    Kept(grant.src, known) = {} \/ Kept(grant.dst, known) = {}

Removed(grant, known) ==
    \/ EmptiedByPruning(grant.src, known)
    \/ EmptiedByPruning(grant.dst, known)

(* Variant for the checks: only the sources are pruned. *)
PruneSources(p) ==
    LET known == KnownGroups(p)
    IN  [p EXCEPT !.grants = {[g EXCEPT !.src = Kept(@, known)] : g \in p.grants}]

PruneGrants(p) ==
    LET known == KnownGroups(p)
    IN  [p EXCEPT !.grants = {Pruned(g, known) : g \in {x \in p.grants : ~Removed(x, known)}}]

(* What the SCIM service computes from the policy it fetched and the groups
   of its mapping. *)
ReplaceGroups(p, table) == PruneGrants(SetGroups(p, table))

-----------------------------------------------------------------------------
(* The groups a grant refers to, and the grants that refer to none. *)
GroupRefs(grant) == (grant.src \cup grant.dst) \cap GroupNames

Resolves(p) == \A g \in p.grants : GroupRefs(g) \subseteq KnownGroups(p)

GroupFree(p) == {g \in p.grants : GroupRefs(g) = {}}
=============================================================================
