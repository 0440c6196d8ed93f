-------------------------- MODULE PolicySyncProofs --------------------------
(***************************************************************************)
(* Theorems about the two writers of the policy: what the SCIM service     *)
(* keeps when the operator writes as well, and on what the two agree.      *)
(***************************************************************************)
EXTENDS PolicySync, ScimApartProofs

-----------------------------------------------------------------------------
(* What the operator computes. *)

LEMMA DesiredType ==
    ASSUME NEW input \in Inputs, NEW p \in Policies
    PROVE  Desired(input, p) \in Policies
  <1>1. CASE input.policy = None
    <2>1. NoGroups \in [{} -> SUBSET Tokens] /\ {} \in SUBSET GroupNames
      BY DEF NoGroups
    <2>2. NoGroups \in GroupTables
      BY <2>1 DEF GroupTables
    <2> QED
      BY <1>1, <2>2 DEF Desired, EmptyPolicy, Policies
  <1>2. CASE input.policy # None
    <2> DEFINE base == CopyGroups(input.policy, p)
               ready == Ready(input.access, KnownGroups(base))
    <2>1. input.policy \in Policies /\ input.access \subseteq AccessEntries
      BY <1>2, SyncConstants DEF Inputs
    <2>2. base \in Policies
      BY <2>1 DEF CopyGroups, Policies
    <2>3. ready \subseteq AccessEntries
      BY <2>1 DEF Ready
    <2> HIDE DEF base, ready
    <2>4. {GrantOf(e) : e \in ready} \subseteq Grants
      BY <2>3, SyncConstants DEF AccessEntries, GrantOf, Grants, Principals
    <2>5. {HeadmasterTag} \cup {e.ingress : e \in ready} \subseteq Tags
      BY <2>3, SyncConstants DEF AccessEntries
    <2>6. Desired(input, p) = [base EXCEPT !.grants = @ \cup {GrantOf(e) : e \in ready},
                                           !.owners = @ \cup {HeadmasterTag} \cup {e.ingress : e \in ready}]
      BY <1>2 DEF Desired, base, ready
    <2> QED
      BY <2>2, <2>4, <2>5, <2>6 DEF Policies
  <1> QED
    BY <1>1, <1>2

(* The groups of an operator's policy are those of the policy it has fetched. *)
LEMMA DesiredKeepsGroups ==
    ASSUME NEW input \in Inputs, input.policy # None, NEW p \in Policies
    PROVE  Desired(input, p).groups = p.groups
  <1>1. input.policy \in Policies
    BY SyncConstants DEF Inputs
  <1> QED
    BY <1>1 DEF Desired, CopyGroups, Policies

(* Nothing else of it counts. *)
LEMMA DesiredByGroups ==
    ASSUME NEW input \in Inputs, input.policy # None,
           NEW p \in Policies, NEW q \in Policies, q.groups = p.groups
    PROVE  Desired(input, q) = Desired(input, p)
  BY DEF Desired, CopyGroups

(* Where all grants resolve, there is nothing to prune. *)
LEMMA PruningIdle ==
    ASSUME NEW p \in Policies, Resolves(p)
    PROVE  ReplaceGroups(p, p.groups) = p
  <1> DEFINE known == KnownGroups(p)
  <1>1. SetGroups(p, p.groups) = p
    BY DEF SetGroups, Policies
  <1>2. ASSUME NEW g \in p.grants
        PROVE  Pruned(g, known) = g /\ ~Removed(g, known)
    <2>1. g \in Grants /\ GroupRefs(g) \subseteq known
      BY DEF Resolves, Policies
    <2>2. Kept(g.src, known) = g.src /\ Kept(g.dst, known) = g.dst
      BY <2>1 DEF GroupRefs, Kept, Stale
    <2>3. Pruned(g, known) = g
      BY <2>1, <2>2 DEF Pruned, Grants
    <2> QED
      BY <2>2, <2>3 DEF Removed, EmptiedByPruning
  <1> HIDE DEF known
  <1>3. {Pruned(g, known) : g \in {x \in p.grants : ~Removed(x, known)}} = p.grants
    BY <1>2
  <1>4. PruneGrants(p) = [p EXCEPT !.grants = p.grants]
    BY <1>3 DEF PruneGrants, known
  <1> QED
    BY <1>1, <1>4 DEF ReplaceGroups, Policies

(* The two writers do not fight.  Once the groups are those of the mapping and
   the operator has written a policy that headscale accepts, neither finds
   anything to change: the operator's next sync_policy and the SCIM service's
   next set_group_membership both skip their write.  Without a declared policy
   the operator takes the groups away again (hence input.policy # None). *)
THEOREM WritersAgree ==
    ASSUME NEW input \in Inputs, input.policy # None,
           NEW p \in Policies, NEW table \in GroupTables
    PROVE  LET q == Desired(input, ReplaceGroups(p, table))
           IN  Resolves(q) => ReplaceGroups(q, table) = q /\ Desired(input, q) = q
  <1> DEFINE r == ReplaceGroups(p, table)
             q == Desired(input, r)
  <1>1. r \in Policies /\ r.groups = table
    <2>1. r \in Policies
      BY ReplaceGroupsType
    <2> QED
      BY <2>1 DEF ReplaceGroups, PruneGrants, SetGroups, Policies
  <1>2. q \in Policies
    BY <1>1, DesiredType
  <1>3. q.groups = r.groups
    BY <1>1, DesiredKeepsGroups
  <1> HIDE DEF r
  <1>4. Desired(input, q) = q
    BY <1>1, <1>2, <1>3, DesiredByGroups
  <1> HIDE DEF q
  <1>5. Resolves(q) => ReplaceGroups(q, table) = q
    BY <1>1, <1>2, <1>3, PruningIdle
  <1> QED
    BY <1>4, <1>5 DEF q, r

-----------------------------------------------------------------------------
(* Type correctness. *)

(* What the operator holds at each stage. *)
Informed ==
    /\ opc # "idle" => seen \in Inputs
    /\ opc = "set" => current \in Policies

SyncTyped == SyncTypeOK /\ Equipped /\ Informed

LEMMA SyncTypedInit == SyncInit => SyncTyped
  <1> SUFFICES ASSUME SyncInit PROVE SyncTyped
    OBVIOUS
  <1>1. Typed
    BY TypedInit DEF SyncInit
  <1>2. edits \in 0 .. MaxEdits
    BY SyncConstants DEF SyncInit
  <1> QED
    BY <1>1, <1>2 DEF SyncInit, SyncTyped, SyncTypeOK, Typed, Informed, OperatorStages

LEMMA SyncTypedNext == SyncTyped /\ [SyncNext]_syncVars => SyncTyped'
  <1> SUFFICES ASSUME SyncTyped, [SyncNext]_syncVars PROVE SyncTyped'
    OBVIOUS
  <1> USE DEF OperatorStages
  <1>0. Typed /\ SyncTypeOK /\ Informed
    BY DEF SyncTyped, SyncTypeOK, Typed
  <1>1. ASSUME Typed', UNCHANGED <<operator, declared, access, edits>> PROVE SyncTyped'
    BY <1>0, <1>1 DEF SyncTyped, SyncTypeOK, Typed, Informed, operator
  <1>2. ASSUME Typed', EndSync, UNCHANGED <<declared, access, edits>> PROVE SyncTyped'
    BY <1>0, <1>2 DEF SyncTyped, SyncTypeOK, Typed, Informed, EndSync
  <1>3. ASSUME UNCHANGED <<service, session, requests>>, live' \in Policies,
               UNCHANGED faults \/ Fault
        PROVE  Typed'
    <2>1. faults' \in 0 .. MaxFaults
      BY <1>0, <1>3, ScimConstants DEF Fault, Typed, TypeOK
    <2> QED
      BY <1>0, <1>3, <2>1 DEF Typed, TypeOK, Equipped, service, locals
  <1>4. CASE ScimStep
    BY <1>0, <1>1, <1>4, TypedNext DEF ScimStep
  <1>5. CASE BeginSync
    <2>1. Typed'
      BY <1>0, <1>3, <1>5 DEF BeginSync, vars, Typed, TypeOK
    <2> QED
      BY <1>0, <1>5, <2>1 DEF BeginSync, SyncTyped, SyncTypeOK, Typed, Informed, Inputs
  <1>6. CASE GetPolicy
    <2>1. Typed'
      BY <1>0, <1>3, <1>6 DEF GetPolicy, Typed, TypeOK
    <2>2. CASE /\ current' = live
               /\ opc' = "set"
               /\ UNCHANGED <<seen, faults>>
      BY <1>0, <1>6, <2>1, <2>2 DEF GetPolicy, SyncTyped, SyncTypeOK, Typed, TypeOK, Informed
    <2>3. CASE EndSync
      BY <1>2, <1>6, <2>1, <2>3 DEF GetPolicy
    <2> QED
      BY <1>6, <2>2, <2>3 DEF GetPolicy
  <1>7. CASE SetPolicy
    <2>1. Desired(seen, current) \in Policies
      BY <1>0, <1>7, DesiredType DEF SetPolicy, Informed
    <2>2. live' \in Policies /\ (UNCHANGED faults \/ Fault)
      BY <1>0, <1>7, <2>1 DEF SetPolicy, Typed, TypeOK
    <2>3. Typed'
      BY <1>3, <1>7, <2>2 DEF SetPolicy
    <2>4. CASE opc' = "notify" /\ UNCHANGED <<seen, current>>
      BY <1>0, <1>7, <2>3, <2>4 DEF SetPolicy, SyncTyped, SyncTypeOK, Typed, Informed
    <2>5. CASE EndSync
      BY <1>2, <1>7, <2>3, <2>5 DEF SetPolicy
    <2> QED
      BY <1>7, <2>4, <2>5 DEF SetPolicy
  <1>8. CASE NotifyScim
    <2>1. CASE \E h \in Handlers : Sync(h)
      <3>1. Typed'
        BY <1>0, <2>1, TypedNext DEF Sync, Next
      <3> QED
        BY <1>2, <1>8, <3>1 DEF NotifyScim
    <2>2. CASE Fault /\ UNCHANGED <<service, live, session, requests>>
      <3>1. Typed'
        BY <1>0, <1>3, <2>2 DEF Typed, TypeOK
      <3> QED
        BY <1>2, <1>8, <3>1 DEF NotifyScim
    <2> QED
      BY <1>8, <2>1, <2>2 DEF NotifyScim
  <1>9. CASE OperatorRestart
    <2>1. Typed'
      BY <1>0, <1>3, <1>9 DEF OperatorRestart, Typed, TypeOK
    <2> QED
      BY <1>2, <1>9, <2>1 DEF OperatorRestart
  <1>10. CASE Edit
    <2>1. Typed'
      BY <1>0, <1>3, <1>10 DEF Edit, vars, Typed, TypeOK
    <2>2. edits' \in 0 .. MaxEdits
      BY <1>0, <1>10, SyncConstants DEF Edit, SyncTypeOK
    <2> QED
      BY <1>0, <1>10, <2>1, <2>2 DEF Edit, SyncTyped, SyncTypeOK, Typed, Informed, operator
  <1>11. CASE UNCHANGED syncVars
    <2>1. Typed'
      BY <1>0, <1>3, <1>11 DEF syncVars, vars, Typed, TypeOK
    <2> QED
      BY <1>1, <1>11, <2>1 DEF syncVars
  <1> QED
    BY <1>4, <1>5, <1>6, <1>7, <1>8, <1>9, <1>10, <1>11 DEF SyncNext

(* With two writers that know nothing of each other, what either has read and
   what headscale serves is still a policy. *)
THEOREM SyncTypeCorrect == SyncSpec => []SyncTypeOK
  <1>1. SyncTyped => SyncTypeOK
    BY DEF SyncTyped
  <1> QED
    BY <1>1, SyncTypedInit, SyncTypedNext, PTL DEF SyncSpec

-----------------------------------------------------------------------------
(* What the service keeps. *)

(* A step of the whole is one of the service, or leaves the service as it is
   and the live policy as it was or as headscale accepts it. *)
LEMMA SyncSteps ==
    [SyncNext]_syncVars
        => [Next]_vars \/ (UNCHANGED service /\ (UNCHANGED live \/ Resolves(live')))
  <1>1. ScimStep => Next
    BY DEF ScimStep
  <1>2. NotifyScim => Next \/ UNCHANGED <<service, live>>
    BY DEF NotifyScim, Sync, Next
  <1>3. SetPolicy => UNCHANGED service /\ (UNCHANGED live \/ Resolves(live'))
    BY DEF SetPolicy
  <1>4. GetPolicy \/ OperatorRestart => UNCHANGED <<service, live>>
    BY DEF GetPolicy, OperatorRestart
  <1>5. BeginSync \/ Edit \/ UNCHANGED syncVars => UNCHANGED vars
    BY DEF BeginSync, Edit, syncVars
  <1> QED
    BY <1>1, <1>2, <1>3, <1>4, <1>5 DEF SyncNext

(* Whichever of the two wrote last, and from however old a policy, no grant
   that headscale serves refers to an undeclared group. *)
THEOREM SyncedGrantsResolve == SyncSpec => []GrantsResolve
  <1>1. SyncInit => GrantsResolve
    BY ScimConstants DEF SyncInit, Init, GrantsResolve
  <1>2. SyncTyped /\ GrantsResolve /\ [SyncNext]_syncVars => GrantsResolve'
    <2> SUFFICES ASSUME SyncTyped, GrantsResolve, [SyncNext]_syncVars PROVE GrantsResolve'
      OBVIOUS
    <2>1. CASE [Next]_vars
      BY <2>1, ResolveNext DEF SyncTyped, SyncTypeOK, Typed
    <2>2. CASE UNCHANGED live \/ Resolves(live')
      BY <2>2 DEF GrantsResolve, Resolves, KnownGroups
    <2> QED
      BY <2>1, <2>2, SyncSteps
  <1> QED
    BY <1>1, <1>2, SyncTypedInit, SyncTypedNext, PTL DEF SyncSpec

LEMMA SyncedDirectoryNext ==
    SyncTyped /\ GroupNamesUnique /\ IdsGivenOut /\ [SyncNext]_syncVars
        => /\ GroupNamesUnique' /\ IdsGivenOut'
           /\ [D!Next]_<<DirectoryOf(mapping), DirectoryOf(disk)>>
  <1> SUFFICES ASSUME SyncTyped, GroupNamesUnique, IdsGivenOut, [SyncNext]_syncVars
               PROVE  /\ GroupNamesUnique' /\ IdsGivenOut'
                      /\ D!Next \/ UNCHANGED <<DirectoryOf(mapping), DirectoryOf(disk)>>
    OBVIOUS
  <1>1. Typed
    BY DEF SyncTyped, SyncTypeOK, Typed
  <1>2. CASE [Next]_vars
    BY <1>1, <1>2, UniqueNext, IdsNext, DirectoryNext
  <1>3. CASE UNCHANGED service
    <2>1. UNCHANGED <<mapping, disk, issued>>
      BY <1>3 DEF service
    <2>2. UNCHANGED <<DirectoryOf(mapping), DirectoryOf(disk)>>
      BY <2>1
    <2>3. GroupNamesUnique'
      BY <2>1 DEF GroupNamesUnique, NamesUnique, GroupsNamed
    <2>4. IdsGivenOut'
      BY <2>1 DEF IdsGivenOut, GroupsIssued
    <2> QED
      BY <2>2, <2>3, <2>4
  <1> QED
    BY <1>2, <1>3, SyncSteps

(* The service is the directory it promises to be beside the operator, too. *)
THEOREM SyncedDirectoryImplemented == SyncSpec => ImplementsDirectory
  <1>1. SyncInit => IdsGivenOut /\ GroupNamesUnique /\ D!Init
    BY DirectoryInit DEF SyncInit, Init, IdsGivenOut, GroupsIssued, GroupNamesUnique, NamesUnique,
       GroupsNamed
  <1> QED
    BY <1>1, SyncTypedInit, SyncTypedNext, SyncedDirectoryNext, PTL
       DEF SyncSpec, ImplementsDirectory, D!Spec

-----------------------------------------------------------------------------
(* Where the policy settles. *)

Asked == [policy |-> declared, access |-> access]

(* A policy that sync_policy computes from the spec and the Ingresses as they
   are is settled, whatever the groups it has found. *)
AsComputed == \E p \in Policies : live = Desired(Asked, p)

LEMMA DesiredSettles == SyncTypeOK /\ AsComputed => Settled
  <1> SUFFICES ASSUME SyncTypeOK, NEW p \in Policies, live = Desired(Asked, p) PROVE Settled
    BY DEF AsComputed
  <1>1. Asked \in Inputs
    BY DEF SyncTypeOK, Asked, Inputs
  <1>2. CASE declared = None
    BY <1>2 DEF Asked, Desired, Settled
  <1>3. CASE declared # None
    <2> DEFINE base == CopyGroups(declared, p)
               ready == Ready(access, KnownGroups(base))
    <2>1. declared \in Policies
      BY <1>3, SyncConstants DEF SyncTypeOK
    <2>2. base \in Policies /\ base.grants = declared.grants
      BY <2>1 DEF CopyGroups, Policies
    <2>3. base.groups = live.groups
      BY <1>1, <1>3, <2>1, DesiredKeepsGroups DEF Asked, CopyGroups, Policies
    <2>4. KnownGroups(base) = KnownGroups(live)
      BY <2>3 DEF KnownGroups
    <2> HIDE DEF base
    <2>5. live.grants = declared.grants \cup {GrantOf(e) : e \in ready}
      BY <1>3, <2>2 DEF Asked, Desired, base, ready, Policies
    <2>6. ready = {x \in access : GroupsLive(x.from \cap GroupNames)}
      BY <2>4 DEF ready, Ready, GroupsLive
    <2> QED
      BY <1>3, <2>5, <2>6 DEF Settled
  <1> QED
    BY <1>2, <1>3

(* The end of an operator's reconcile that does not fail. *)
Concludes ==
    \/ GetPolicy /\ opc' = "idle" /\ faults' = faults
    \/ SetPolicy /\ live' # live

(* What the operator's reconcile leaves, when nothing fails and nobody has
   edited anything since it began, is settled: it finds nothing to write only
   in such a policy, and what it writes is one, even over groups that SCIM has
   written since the operator read them.  This is the safety core of
   PolicySettles: what it takes for the policy to settle for good is that the
   reconcile runs again after the last edit. *)
THEOREM SyncLeavesSettled ==
    SyncSpec => [][Concludes /\ seen = Asked => Settled']_syncVars
  <1>1. SyncTyped /\ [SyncNext]_syncVars => [Concludes /\ seen = Asked => Settled']_syncVars
    <2> SUFFICES ASSUME SyncTyped, [SyncNext]_syncVars, Concludes, seen = Asked
                 PROVE  Settled'
      OBVIOUS
    <2>1. SyncTypeOK' /\ UNCHANGED <<declared, access>>
      BY SyncTypedNext DEF SyncTyped, Concludes, GetPolicy, SetPolicy
    <2>2. Asked' = seen
      BY <2>1 DEF Asked
    <2>3. \E p \in Policies : live' = Desired(seen, p)
      <3>1. CASE GetPolicy /\ opc' = "idle" /\ faults' = faults
        <4>1. live \in Policies /\ ~Fault
          BY <3>1, ScimConstants DEF SyncTyped, SyncTypeOK, TypeOK, Fault
        <4> QED
          BY <3>1, <4>1 DEF GetPolicy
      <3>2. CASE SetPolicy /\ live' # live
        <4>1. current \in Policies
          BY <3>2 DEF SetPolicy, SyncTyped, Informed
        <4>2. live' = Desired(seen, current)
          BY <3>2 DEF SetPolicy
        <4> QED
          BY <4>1, <4>2
      <3> QED
        BY <3>1, <3>2 DEF Concludes
    <2>4. AsComputed'
      BY <2>2, <2>3 DEF AsComputed
    <2> QED
      BY <2>1, <2>4, DesiredSettles, PTL
  <1> QED
    BY <1>1, SyncTypedInit, SyncTypedNext, PTL DEF SyncSpec

-----------------------------------------------------------------------------
(* Groups that heal. *)

(* Until the groups are back after the operator has written over them, it has
   yet to notify the service; only the reset of an instance without policy
   leaves them away. *)
Healing == faults = 0 => Followed \/ opc = "notify" \/ live = EmptyPolicy

LEMMA HealingNext ==
    SyncTyped /\ Prepared /\ Healing /\ [SyncNext]_syncVars /\ [NotOvertaken]_syncVars
        => Prepared' /\ Healing'
  <1> SUFFICES ASSUME SyncTyped, Prepared, Healing, [SyncNext]_syncVars, [NotOvertaken]_syncVars
               PROVE  Prepared' /\ (faults' = 0 => Healing')
    BY DEF Healing
  <1>0. Typed /\ faults \in Nat
    BY DEF SyncTyped, SyncTypeOK, Typed, TypeOK
  <1>1. UNCHANGED service => Prepared' /\ (UNCHANGED live => (Followed => Followed'))
    BY DEF service, locals, Prepared, Followed, InStep, Reconciles, NeedsReconcile
  <1>2. CASE [Next]_vars /\ UNCHANGED operator
    <2>1. Prepared'
      BY <1>0, <1>1, <1>2, PreparedNext DEF syncVars, vars
    <2>2. ASSUME faults' = 0 PROVE Healing'
      <3>1. faults = 0 /\ (Followed => Followed') /\ (UNCHANGED live \/ Followed')
        BY <1>0, <1>2, <2>2, FollowedNext, FaultsAddUp
      <3> QED
        BY <1>2, <3>1 DEF Healing, operator
    <2> QED
      BY <2>1, <2>2
  <1>3. CASE BeginSync \/ Edit
    <2>1. UNCHANGED <<service, live, faults>> /\ (opc = "notify" => opc' = "notify")
      BY <1>3 DEF BeginSync, Edit, vars, operator
    <2> QED
      BY <1>1, <2>1 DEF Healing
  <1>4. CASE GetPolicy \/ OperatorRestart
    <2>1. UNCHANGED <<service, live>> /\ (UNCHANGED faults \/ faults' = faults + 1)
      BY <1>4 DEF GetPolicy, OperatorRestart, Fault
    <2>2. faults' = 0 => opc # "notify"
      BY <1>0, <1>4 DEF GetPolicy, OperatorRestart, Fault
    <2> QED
      BY <1>0, <1>1, <2>1, <2>2 DEF Healing
  <1>5. CASE SetPolicy
    <2>1. Prepared'
      BY <1>1, <1>5 DEF SetPolicy
    <2>2. ASSUME faults' = 0 PROVE Healing'
      <3>1. UNCHANGED faults /\ opc # "notify"
        BY <1>0, <1>5, <2>2 DEF SetPolicy, Fault
      <3>2. \/ UNCHANGED live
            \/ opc' = "notify"
            \/ seen.policy = None /\ live' = Desired(seen, current)
        BY <1>0, <1>5, <2>2 DEF SetPolicy, Fault
      <3>3. seen.policy = None => Desired(seen, current) = EmptyPolicy
        BY DEF Desired
      <3> QED
        BY <1>1, <1>5, <2>2, <3>1, <3>2, <3>3 DEF SetPolicy, Healing
    <2> QED
      BY <2>1, <2>2
  <1>6. CASE NotifyScim
    <2>1. CASE \E h \in Handlers : Sync(h)
      <3>1. PICK h \in Handlers : Receive(h) /\ req'[h].op = "reconcile"
        BY <2>1 DEF Sync
      <3>2. pc'[h] = "snapshot"
        BY <1>0, <3>1 DEF Receive, FirstStage, Goto, Typed, TypeOK
      <3>3. Prepared'
        BY <1>0, <1>1, <3>1, PreparedNext DEF Next, syncVars, vars
      <3> QED
        BY <3>2, <3>3 DEF Healing, Followed, Reconciles
    <2>2. CASE Fault /\ UNCHANGED <<service, live, session, requests>>
      BY <1>0, <1>1, <2>2 DEF Fault
    <2> QED
      BY <1>6, <2>1, <2>2 DEF NotifyScim
  <1>7. ScimStep \/ UNCHANGED syncVars => [Next]_vars /\ UNCHANGED operator
    BY DEF ScimStep, syncVars
  <1> QED
    BY <1>2, <1>3, <1>4, <1>5, <1>6, <1>7 DEF SyncNext

(* Both writers at rest: no request in flight, and an operator that has a
   policy to write and finds it written. *)
BothAtRest ==
    /\ \A h \in Handlers : pc[h] \in Done
    /\ opc = "idle"
    /\ declared # None /\ Desired(Asked, live) = live

(* As long as nothing has failed, the groups are those of the mapping whenever
   both writers are at rest, whatever the order in which they read and wrote
   the policy before and with any number of handlers: the operator's writes take
   no group away for good.  No request overtakes another, and headscale starts
   without groups.  This is the safety core of GroupsHeal. *)
THEOREM HealedAtRest ==
    ASSUME StartsWithoutGroups
    PROVE  SyncSpec /\ [][NotOvertaken]_syncVars =>
               [](faults = 0 /\ BothAtRest => live.groups = Resolved(mapping))
  <1>1. SyncInit => Prepared
    BY DEF SyncInit, Init, Prepared
  <1>2. SyncInit => Healing
    BY FollowedInit DEF SyncInit, Healing
  <1>3. SyncTyped /\ Healing => (faults = 0 /\ BothAtRest => live.groups = Resolved(mapping))
    <2> SUFFICES ASSUME SyncTyped, Healing, faults = 0, BothAtRest PROVE InStep
      BY DEF InStep
    <2>1. \A h \in Handlers : ~Reconciles(h)
      BY DEF BothAtRest, Reconciles, Done
    <2>2. live # EmptyPolicy
      <3>1. HeadmasterTag \in live.owners
        <4>1. declared \in Policies /\ Asked.policy = declared
          BY SyncConstants DEF BothAtRest, SyncTyped, SyncTypeOK, Asked
        <4> QED
          BY <4>1 DEF BothAtRest, Desired, CopyGroups, Policies
      <3> QED
        BY <3>1 DEF EmptyPolicy
    <2> QED
      BY <2>1, <2>2 DEF Healing, Followed, BothAtRest
  <1> QED
    BY <1>1, <1>2, <1>3, HealingNext, SyncTypedInit, SyncTypedNext, PTL DEF SyncSpec
=============================================================================
