----------------------------- MODULE ScimProofs -----------------------------
(***************************************************************************)
(* Theorems about the SCIM service, for every number of users, groups and  *)
(* handlers, every user key and any number of requests and faults.         *)
(***************************************************************************)
EXTENDS Scim, TLAPS

-----------------------------------------------------------------------------
(* Types of what the handlers compute. *)

(* A policy whose groups are replaced is a policy. *)
LEMMA ReplaceGroupsType ==
    ASSUME NEW p \in Policies, NEW t \in GroupTables
    PROVE  /\ ReplaceGroups(p, t) \in Policies
           /\ KnownGroups(ReplaceGroups(p, t)) = DOMAIN t
  <1> DEFINE q == SetGroups(p, t)
  <1>1. q \in Policies /\ q.groups = t /\ q.grants = p.grants
    BY DEF SetGroups, Policies
  <1>2. \A g \in p.grants : Pruned(g, KnownGroups(q)) \in Grants
    BY DEF Policies, Grants, Pruned, Kept, Stale, Principals
  <1>3. {Pruned(g, KnownGroups(q)) : g \in {x \in q.grants : ~Removed(x, KnownGroups(q))}} \in SUBSET Grants
    BY <1>1, <1>2
  <1>4. PruneGrants(q) \in Policies /\ PruneGrants(q).groups = t
    BY <1>1, <1>3 DEF PruneGrants, Policies
  <1> QED
    BY <1>4 DEF ReplaceGroups, KnownGroups

(* Pruning leaves no reference to a group that is not declared. *)
LEMMA ReplaceGroupsResolves ==
    ASSUME NEW p \in Policies, NEW t \in GroupTables
    PROVE  Resolves(ReplaceGroups(p, t))
  <1> DEFINE q == SetGroups(p, t)
             r == ReplaceGroups(p, t)
  <1>1. KnownGroups(q) = DOMAIN t /\ KnownGroups(r) = DOMAIN t
    BY ReplaceGroupsType DEF KnownGroups, SetGroups, Policies
  <1>2. r.grants = {Pruned(g, KnownGroups(q)) : g \in {x \in q.grants : ~Removed(x, KnownGroups(q))}}
    BY DEF ReplaceGroups, PruneGrants, SetGroups, Policies
  <1>3. ASSUME NEW g \in Grants
        PROVE  GroupRefs(Pruned(g, DOMAIN t)) \subseteq DOMAIN t
    BY DEF GroupRefs, Pruned, Kept, Stale
  <1>4. q.grants \subseteq Grants
    BY DEF SetGroups, Policies
  <1> QED
    BY <1>1, <1>2, <1>3, <1>4 DEF Resolves

(* A grant without groups is not touched by pruning. *)
LEMMA ReplaceGroupsKeepsFree ==
    ASSUME NEW p \in Policies, NEW t \in GroupTables
    PROVE  GroupFree(p) \subseteq GroupFree(ReplaceGroups(p, t))
  <1> DEFINE q == SetGroups(p, t)
             r == ReplaceGroups(p, t)
             known == KnownGroups(q)
  <1>1. q.grants = p.grants
    BY DEF SetGroups, Policies
  <1>2. r.grants = {Pruned(g, known) : g \in {x \in q.grants : ~Removed(x, known)}}
    BY DEF ReplaceGroups, PruneGrants, SetGroups, Policies
  <1>3. ASSUME NEW g \in GroupFree(p)
        PROVE  g \in GroupFree(r)
    <2>1. g \in p.grants /\ GroupRefs(g) = {}
      BY DEF GroupFree
    <2>2. g \in Grants
      BY <2>1 DEF Policies
    <2>3. Kept(g.src, known) = g.src /\ Kept(g.dst, known) = g.dst
      BY <2>1 DEF GroupRefs, Kept, Stale
    <2>4. Pruned(g, known) = g
      BY <2>2, <2>3 DEF Pruned, Grants
    <2>5. ~Removed(g, known)
      BY <2>3 DEF Removed, EmptiedByPruning
    <2> HIDE DEF known
    <2>6. g \in r.grants
      BY <1>1, <1>2, <2>1, <2>4, <2>5
    <2> QED
      BY <2>1, <2>6 DEF GroupFree
  <1> QED
    BY <1>3

(* The groups section resolved from a mapping is a group table. *)
LEMMA ResolvedType ==
    ASSUME NEW m \in Mappings
    PROVE  Resolved(m) \in GroupTables
  <1>1. \A record \in UserRecords : ResolveKey(record) \in Tokens \cup {None}
    BY ScimConstants DEF UserRecords, ResolveKey
  <1>2. \A u \in UserIds : m.users[u] # None => m.users[u] \in UserRecords
    BY DEF Mappings
  <1>3. \A ids \in SUBSET UserIds : MemberTokens(m, ids) \subseteq Tokens
    BY <1>1, <1>2 DEF MemberTokens
  <1>4. \A n \in GroupNames : \A g \in GroupsNamed(m, n) : m.groups[g].members \in SUBSET UserIds
    BY DEF GroupsNamed, Mappings, GroupRecords
  <1> DEFINE names == {k \in GroupNames : GroupsNamed(m, k) # {}}
             tokens(n) == UNION {MemberTokens(m, m.groups[g].members) : g \in GroupsNamed(m, n)}
  <1>5. \A n \in names : tokens(n) \in SUBSET Tokens
    BY <1>3, <1>4
  <1>6. [n \in names |-> tokens(n)] \in [names -> SUBSET Tokens]
    BY <1>5
  <1>7. names \in SUBSET GroupNames
    OBVIOUS
  <1> QED
    BY <1>6, <1>7 DEF Resolved, GroupTables

(* What a mapping becomes is a mapping. *)
LEMMA MappingTypes ==
    ASSUME NEW m \in Mappings
    PROVE  /\ \A u \in UserIds, r \in UserRecords : [m EXCEPT !.users[u] = r] \in Mappings
           /\ \A g \in GroupIds, r \in GroupRecords : [m EXCEPT !.groups[g] = r] \in Mappings
           /\ \A u \in UserIds : WithoutUser(m, u) \in Mappings
           /\ \A g \in GroupIds : WithoutGroup(m, g) \in Mappings
  <1>1. \A u \in UserIds, r \in UserRecords : [m EXCEPT !.users[u] = r] \in Mappings
    BY DEF Mappings
  <1>2. \A g \in GroupIds, r \in GroupRecords : [m EXCEPT !.groups[g] = r] \in Mappings
    BY DEF Mappings
  <1>3. ASSUME NEW u \in UserIds
        PROVE  WithoutUser(m, u) \in Mappings
    <2>1. [m.users EXCEPT ![u] = None] \in [UserIds -> UserRecords \cup {None}]
      BY DEF Mappings
    <2>2. ASSUME NEW g \in GroupIds, m.groups[g] # None
          PROVE  [m.groups[g] EXCEPT !.members = @ \ {u}] \in GroupRecords
      BY <2>2 DEF Mappings, GroupRecords
    <2> QED
      BY <2>1, <2>2 DEF WithoutUser, Mappings
  <1>4. \A g \in GroupIds : WithoutGroup(m, g) \in Mappings
    BY DEF WithoutGroup, Mappings
  <1> QED
    BY <1>1, <1>2, <1>3, <1>4

-----------------------------------------------------------------------------
(* Type correctness.  That a write computes a policy needs more than TypeOK:
   the handlers on their way to it have resolved the groups, and the one about
   to write has fetched a policy. *)
Equipped ==
    \A h \in Handlers :
        /\ pc[h] \in {"lock", "fetch", "write"} => snap[h] \in GroupTables
        /\ pc[h] = "write" => read[h] \in Policies

Typed == TypeOK /\ Equipped

LEMMA TypedInit == Init => Typed
  <1> SUFFICES ASSUME Init PROVE Typed
    OBVIOUS
  <1>1. [users |-> [u \in UserIds |-> None], groups |-> [g \in GroupIds |-> None]] \in Mappings
    BY DEF Mappings
  <1>2. [op |-> "reconcile"] \in Requests
    BY DEF Requests
  <1>3. TypeOK
    BY <1>1, <1>2, ScimConstants DEF Init, TypeOK, Stages, Done
  <1>4. Equipped
    BY DEF Init, Equipped
  <1> QED
    BY <1>3, <1>4 DEF Typed

(* A finished handler leaves the local state and the stages well typed. *)
LEMMA FinishTyped ==
    ASSUME Typed, NEW h \in Handlers, NEW answer \in Done, Finish(h, answer)
    PROVE  /\ pc' \in [Handlers -> Stages]
           /\ old' \in [Handlers -> UserRecords \cup {None}]
           /\ snap' \in [Handlers -> GroupTables \cup {None}]
           /\ read' \in [Handlers -> Policies \cup {None}]
           /\ Equipped'
  BY DEF Typed, TypeOK, Equipped, Finish, Goto, Stages, Done

(* So does a handler that goes on to a stage before the policy is locked. *)
LEMMA GotoTyped ==
    ASSUME Typed, NEW h \in Handlers,
           NEW stage \in Stages \ {"lock", "fetch", "write"},
           Goto(h, stage), UNCHANGED <<snap, read>>
    PROVE  pc' \in [Handlers -> Stages] /\ Equipped'
  BY DEF Typed, TypeOK, Equipped, Goto

(* What a request carries, by its operation. *)
LEMMA RequestTypes ==
    ASSUME NEW r \in Requests
    PROVE  /\ r.op \in {"post_user", "put_user"} => r.body \in UserRecords
           /\ r.op \in {"put_user", "delete_user"} => r.id \in UserIds
           /\ r.op \in {"post_group", "put_group"} => r.body \in GroupRecords
           /\ r.op \in {"put_group", "delete_group"} => r.id \in GroupIds
  BY ScimConstants DEF Requests

(* A mapping that is changed and flushed, well or badly. *)
LEMMA SetTyped ==
    ASSUME Typed, NEW h \in Handlers, NEW new \in Mappings,
           NEW next \in {"snapshot", "check"}, SetAndFlush(h, new, next)
    PROVE  /\ mapping' \in Mappings
           /\ disk' \in Mappings
           /\ pc' \in [Handlers -> Stages]
           /\ old' \in [Handlers -> UserRecords \cup {None}]
           /\ snap' \in [Handlers -> GroupTables \cup {None}]
           /\ read' \in [Handlers -> Policies \cup {None}]
           /\ faults' \in 0 .. MaxFaults
           /\ Equipped'
  <1> USE DEF Typed
  <1>1. CASE mapping' = new /\ disk' = new /\ Goto(h, next) /\ UNCHANGED <<locals, faults>>
    <2>1. next \in Stages \ {"lock", "fetch", "write"} /\ UNCHANGED <<snap, read>>
      BY <1>1 DEF Stages, locals
    <2> QED
      BY <1>1, <2>1, GotoTyped DEF TypeOK, locals
  <1>2. CASE Fault /\ mapping' = new /\ disk' \in {disk, new} /\ Finish(h, "failed")
    <2>1. faults' \in 0 .. MaxFaults
      BY <1>2, ScimConstants DEF Fault, TypeOK
    <2>2. mapping' \in Mappings /\ disk' \in Mappings
      BY <1>2 DEF TypeOK
    <2> QED
      BY <1>2, <2>1, <2>2, FinishTyped DEF Done
  <1> QED
    BY <1>1, <1>2 DEF SetAndFlush

LEMMA RemoveTyped ==
    ASSUME Typed, NEW h \in Handlers, NEW new \in Mappings, RemoveAndFlush(h, new)
    PROVE  /\ mapping' \in Mappings
           /\ disk' \in Mappings
           /\ pc' \in [Handlers -> Stages]
           /\ old' \in [Handlers -> UserRecords \cup {None}]
           /\ snap' \in [Handlers -> GroupTables \cup {None}]
           /\ read' \in [Handlers -> Policies \cup {None}]
           /\ faults' \in 0 .. MaxFaults
           /\ Equipped'
  <1> USE DEF Typed
  <1>1. CASE mapping' = new /\ disk' = new /\ Goto(h, "snapshot") /\ UNCHANGED <<locals, faults>>
    <2>1. "snapshot" \in Stages \ {"lock", "fetch", "write"} /\ UNCHANGED <<snap, read>>
      BY <1>1 DEF Stages, locals
    <2> QED
      BY <1>1, <2>1, GotoTyped DEF TypeOK, locals
  <1>2. CASE Fault /\ mapping' = mapping /\ disk' \in {disk, new} /\ Finish(h, "failed")
    <2>1. faults' \in 0 .. MaxFaults
      BY <1>2, ScimConstants DEF Fault, TypeOK
    <2>2. mapping' \in Mappings /\ disk' \in Mappings
      BY <1>2 DEF TypeOK
    <2> QED
      BY <1>2, <2>1, <2>2, FinishTyped DEF Done
  <1> QED
    BY <1>1, <1>2 DEF RemoveAndFlush

(* Every step of the service and of its environment keeps the types. *)
LEMMA TypedNext == Typed /\ [Next]_vars => Typed'
  <1> SUFFICES ASSUME Typed, [Next]_vars PROVE Typed'
    OBVIOUS
  <1> USE DEF Typed
  <1>1. ASSUME NEW h \in Handlers, Receive(h) PROVE Typed'
    <2>1. PICK r \in Requests : /\ req' = [req EXCEPT ![h] = r]
                                /\ Goto(h, FirstStage(r.op))
                                /\ \/ requests' = requests
                                   \/ requests < MaxRequests /\ requests' = requests + 1
      BY <1>1 DEF Receive
    <2>2. FirstStage(r.op) \in Stages \ {"lock", "fetch", "write"}
      BY DEF FirstStage, Stages
    <2>3. pc' \in [Handlers -> Stages] /\ Equipped'
      BY <1>1, <2>1, <2>2, GotoTyped DEF Receive, locals
    <2>4. requests' \in 0 .. MaxRequests
      BY <2>1, ScimConstants DEF TypeOK
    <2> QED
      BY <1>1, <2>1, <2>3, <2>4 DEF Receive, TypeOK, locals
  <1>2. ASSUME NEW h \in Handlers, CreateUser(h) PROVE Typed'
    <2>1. req[h].body \in UserRecords
      BY <1>2, RequestTypes DEF CreateUser, At, TypeOK
    <2>2. CASE \E u \in Upserted(UsersNamed(mapping, req[h].body.name), UserIds) :
                  /\ issued' = issued \cup {u}
                  /\ SetAndFlush(h, [mapping EXCEPT !.users[u] = req[h].body], "snapshot")
      <3>1. PICK u \in UserIds :
                  /\ issued' = issued \cup {u}
                  /\ SetAndFlush(h, [mapping EXCEPT !.users[u] = req[h].body], "snapshot")
        BY <2>2 DEF Upserted, UsersNamed
      <3>2. [mapping EXCEPT !.users[u] = req[h].body] \in Mappings
        BY <2>1, MappingTypes DEF TypeOK
      <3> QED
        BY <1>2, <3>1, <3>2, SetTyped DEF CreateUser, TypeOK
    <2>3. CASE OutOfIds(h)
      BY <1>2, <2>3, FinishTyped DEF CreateUser, OutOfIds, Done, TypeOK
    <2> QED
      BY <1>2, <2>2, <2>3 DEF CreateUser
  <1>3. ASSUME NEW h \in Handlers, ReadUser(h) PROVE Typed'
    <2>1. req[h].id \in UserIds
      BY <1>3, RequestTypes DEF ReadUser, TypeOK
    <2>2. CASE mapping.users[req[h].id] = None
      BY <1>3, <2>2, FinishTyped DEF ReadUser, Done, TypeOK
    <2>3. CASE mapping.users[req[h].id] # None
      <3>1. mapping.users[req[h].id] \in UserRecords
        BY <2>1, <2>3 DEF TypeOK, Mappings
      <3>2. \E stage \in {"commit", "headscale"} : Goto(h, stage)
        BY <1>3, <2>3 DEF ReadUser
      <3>3. pc' \in [Handlers -> Stages] /\ Equipped'
        BY <1>3, <2>3, <3>2, GotoTyped DEF ReadUser, Stages
      <3> QED
        BY <1>3, <2>3, <3>1, <3>3 DEF ReadUser, TypeOK
    <2> QED
      BY <2>2, <2>3
  <1>4. ASSUME NEW h \in Handlers, ExpireNodes(h) PROVE Typed'
    <2>1. session' \in [Nodes -> Tokens \cup {None}]
      BY <1>4 DEF ExpireNodes, TypeOK
    <2>2. CASE Goto(h, "commit") /\ UNCHANGED <<locals, faults>>
      BY <1>4, <2>1, <2>2, GotoTyped DEF ExpireNodes, TypeOK, locals, Stages
    <2>3. CASE Fault /\ Finish(h, "failed")
      <3>1. faults' \in 0 .. MaxFaults
        BY <2>3, ScimConstants DEF Fault, TypeOK
      <3> QED
        BY <1>4, <2>1, <2>3, <3>1, FinishTyped DEF ExpireNodes, TypeOK, Done
    <2> QED
      BY <1>4, <2>2, <2>3 DEF ExpireNodes
  <1>5. ASSUME NEW h \in Handlers, DeleteAccount(h) PROVE Typed'
    <2>1. session' \in [Nodes -> Tokens \cup {None}]
      BY <1>5 DEF DeleteAccount, TypeOK
    <2>2. CASE Goto(h, "commit") /\ UNCHANGED <<locals, faults>>
      BY <1>5, <2>1, <2>2, GotoTyped DEF DeleteAccount, TypeOK, locals, Stages
    <2>3. CASE Fault /\ Finish(h, "failed")
      <3>1. faults' \in 0 .. MaxFaults
        BY <2>3, ScimConstants DEF Fault, TypeOK
      <3> QED
        BY <1>5, <2>1, <2>3, <3>1, FinishTyped DEF DeleteAccount, TypeOK, Done
    <2> QED
      BY <1>5, <2>2, <2>3 DEF DeleteAccount
  <1>6. ASSUME NEW h \in Handlers, PutUser(h) PROVE Typed'
    <2>1. req[h].id \in UserIds /\ req[h].body \in UserRecords
      BY <1>6, RequestTypes DEF PutUser, At, TypeOK
    <2>2. [mapping EXCEPT !.users[req[h].id] = req[h].body] \in Mappings
      BY <2>1, MappingTypes DEF TypeOK
    <2> QED
      BY <1>6, <2>2, SetTyped DEF PutUser, TypeOK
  <1>7. ASSUME NEW h \in Handlers, CheckGroups(h) PROVE Typed'
    <2>1. CASE Goto(h, "snapshot") /\ UNCHANGED locals
      BY <1>7, <2>1, GotoTyped DEF CheckGroups, TypeOK, locals, Stages
    <2>2. CASE Finish(h, "ok")
      BY <1>7, <2>2, FinishTyped DEF CheckGroups, TypeOK, Done
    <2> QED
      BY <1>7, <2>1, <2>2 DEF CheckGroups
  <1>8. ASSUME NEW h \in Handlers, DeleteUser(h) PROVE Typed'
    <2>1. WithoutUser(mapping, req[h].id) \in Mappings
      BY <1>8, RequestTypes, MappingTypes DEF DeleteUser, At, TypeOK
    <2> QED
      BY <1>8, <2>1, RemoveTyped DEF DeleteUser, TypeOK
  <1>9. ASSUME NEW h \in Handlers, CreateGroup(h) PROVE Typed'
    <2>1. req[h].body \in GroupRecords
      BY <1>9, RequestTypes DEF CreateGroup, At, TypeOK
    <2>2. CASE \E g \in Upserted(GroupsNamed(mapping, req[h].body.name), GroupIds) :
                  /\ issued' = issued \cup {g}
                  /\ SetAndFlush(h, [mapping EXCEPT !.groups[g] = req[h].body], "snapshot")
      <3>1. PICK g \in GroupIds :
                  /\ issued' = issued \cup {g}
                  /\ SetAndFlush(h, [mapping EXCEPT !.groups[g] = req[h].body], "snapshot")
        BY <2>2 DEF Upserted, GroupsNamed
      <3>2. [mapping EXCEPT !.groups[g] = req[h].body] \in Mappings
        BY <2>1, MappingTypes DEF TypeOK
      <3> QED
        BY <1>9, <3>1, <3>2, SetTyped DEF CreateGroup, TypeOK
    <2>3. CASE OutOfIds(h)
      BY <1>9, <2>3, FinishTyped DEF CreateGroup, OutOfIds, Done, TypeOK
    <2> QED
      BY <1>9, <2>2, <2>3 DEF CreateGroup
  <1>10. ASSUME NEW h \in Handlers, PutGroup(h) PROVE Typed'
    <2>1. CASE Finish(h, "failed") /\ UNCHANGED <<mapping, disk, faults>>
      BY <1>10, <2>1, FinishTyped DEF PutGroup, TypeOK, Done
    <2>2. CASE SetAndFlush(h, [mapping EXCEPT !.groups[req[h].id] = req[h].body], "snapshot")
      <3>1. req[h].id \in GroupIds /\ req[h].body \in GroupRecords
        BY <1>10, RequestTypes DEF PutGroup, At, TypeOK
      <3>2. [mapping EXCEPT !.groups[req[h].id] = req[h].body] \in Mappings
        BY <3>1, MappingTypes DEF TypeOK
      <3> QED
        BY <1>10, <2>2, <3>2, SetTyped DEF PutGroup, TypeOK
    <2> QED
      BY <1>10, <2>1, <2>2 DEF PutGroup
  <1>11. ASSUME NEW h \in Handlers, DeleteGroup(h) PROVE Typed'
    <2>1. CASE Finish(h, "failed") /\ UNCHANGED <<mapping, disk, faults>>
      BY <1>11, <2>1, FinishTyped DEF DeleteGroup, TypeOK, Done
    <2>2. CASE RemoveAndFlush(h, WithoutGroup(mapping, req[h].id))
      <3>1. WithoutGroup(mapping, req[h].id) \in Mappings
        BY <1>11, RequestTypes, MappingTypes DEF DeleteGroup, At, TypeOK
      <3> QED
        BY <1>11, <2>2, <3>1, RemoveTyped DEF DeleteGroup, TypeOK
    <2> QED
      BY <1>11, <2>1, <2>2 DEF DeleteGroup
  <1>12. ASSUME NEW h \in Handlers, Snapshot(h) PROVE Typed'
    <2>1. Resolved(mapping) \in GroupTables
      BY ResolvedType DEF TypeOK
    <2>2. Equipped'
      BY <1>12, <2>1 DEF Snapshot, Goto, Equipped, TypeOK
    <2> QED
      BY <1>12, <2>1, <2>2 DEF Snapshot, Goto, TypeOK, Stages
  <1>13. ASSUME NEW h \in Handlers, AcquireLock(h) PROVE Typed'
    <2>1. Equipped'
      BY <1>13 DEF AcquireLock, Goto, Equipped, TypeOK, locals
    <2> QED
      BY <1>13, <2>1 DEF AcquireLock, Goto, TypeOK, Stages, Holding, locals
  <1>14. ASSUME NEW h \in Handlers, FetchPolicy(h) PROVE Typed'
    <2>1. CASE /\ read' = [read EXCEPT ![h] = live]
               /\ Goto(h, "write")
               /\ UNCHANGED <<old, snap, policyLock, faults>>
      <3>1. Equipped'
        BY <1>14, <2>1 DEF FetchPolicy, Goto, Equipped, TypeOK
      <3> QED
        BY <1>14, <2>1, <3>1 DEF FetchPolicy, Goto, TypeOK, Stages, Holding
    <2>2. CASE policyLock' = None /\ Finish(h, "ok") /\ UNCHANGED faults
      BY <1>14, <2>2, FinishTyped DEF FetchPolicy, TypeOK, Done
    <2>3. CASE Fault /\ policyLock' = None /\ Finish(h, "failed")
      <3>1. faults' \in 0 .. MaxFaults
        BY <2>3, ScimConstants DEF Fault, TypeOK
      <3> QED
        BY <1>14, <2>3, <3>1, FinishTyped DEF FetchPolicy, TypeOK, Done
    <2> QED
      BY <1>14, <2>1, <2>2, <2>3 DEF FetchPolicy
  <1>15. ASSUME NEW h \in Handlers, WritePolicy(h) PROVE Typed'
    <2>1. live' \in Policies
      <3>1. read[h] \in Policies /\ snap[h] \in GroupTables
        BY <1>15 DEF WritePolicy, Equipped
      <3> QED
        BY <1>15, <3>1, ReplaceGroupsType DEF WritePolicy, TypeOK
    <2>2. faults' \in 0 .. MaxFaults
      BY <1>15, ScimConstants DEF WritePolicy, Fault, TypeOK
    <2>3. \E answer \in Done : Finish(h, answer)
      BY <1>15 DEF WritePolicy, Done
    <2> QED
      BY <1>15, <2>1, <2>2, <2>3, FinishTyped DEF WritePolicy, TypeOK
  <1>16. ASSUME NEW h \in Handlers, Disconnect(h) PROVE Typed'
    <2>1. mapping' \in Mappings /\ disk' \in Mappings
      <3>1. CASE UNCHANGED <<mapping, disk>>
        BY <3>1 DEF TypeOK
      <3>2. CASE /\ At(h, "commit", "delete_user")
                 /\ mapping' = WithoutUser(mapping, req[h].id)
                 /\ disk' \in {disk, mapping'}
        BY <3>2, RequestTypes, MappingTypes DEF At, TypeOK
      <3>3. CASE /\ At(h, "commit", "delete_group")
                 /\ mapping' = WithoutGroup(mapping, req[h].id)
                 /\ disk' \in {disk, mapping'}
        BY <3>3, RequestTypes, MappingTypes DEF At, TypeOK
      <3> QED
        BY <1>16, <3>1, <3>2, <3>3 DEF Disconnect
    <2>2. faults' \in 0 .. MaxFaults
      BY <1>16, ScimConstants DEF Disconnect, Fault, TypeOK
    <2> QED
      BY <1>16, <2>1, <2>2, FinishTyped DEF Disconnect, TypeOK, Done
  <1>17. ASSUME NEW n \in Nodes, Login(n) PROVE Typed'
    <2>1. \A account \in Accounts : ResolveKey(account) # None => ResolveKey(account) \in Tokens
      <3>1. \A h \in Handlers : req[h].op = "put_user" => req[h].body \in UserRecords
        BY RequestTypes DEF TypeOK
      <3>2. \A u \in UserIds : mapping.users[u] # None => mapping.users[u] \in UserRecords
        BY DEF TypeOK, Mappings
      <3>3. Accounts \subseteq UserRecords
        BY <3>1, <3>2 DEF Accounts
      <3> QED
        BY <3>3, ScimConstants DEF UserRecords, ResolveKey
    <2>2. session' \in [Nodes -> Tokens \cup {None}]
      BY <1>17, <2>1 DEF Login, TypeOK
    <2> QED
      BY <1>17, <2>2 DEF Login, service, locals, TypeOK, Equipped
  <1>18. ASSUME Crash PROVE Typed'
    <2>1. faults' \in 0 .. MaxFaults
      BY <1>18, ScimConstants DEF Crash, Fault, TypeOK
    <2>2. Equipped'
      BY <1>18 DEF Crash, Equipped
    <2> QED
      BY <1>18, <2>1, <2>2 DEF Crash, TypeOK, Stages, Done
  <1>19. CASE UNCHANGED vars
    BY <1>19 DEF vars, service, locals, TypeOK, Equipped
  <1> QED
    BY <1>1, <1>2, <1>3, <1>4, <1>5, <1>6, <1>7, <1>8, <1>9, <1>10, <1>11, <1>12, <1>13,
       <1>14, <1>15, <1>16, <1>17, <1>18, <1>19 DEF Next, Proceed

(* The state of the service is well typed in every behaviour: in particular no
   write leaves the live policy anything but a policy. *)
THEOREM TypeCorrect == Spec => []TypeOK
  <1>1. Typed => TypeOK
    BY DEF Typed
  <1> QED
    BY <1>1, TypedInit, TypedNext, PTL DEF Spec

-----------------------------------------------------------------------------
(* The policy lock.  NoLostUpdate is not inductive by itself: that no other
   handler can write between a fetch and its write rests on the lock. *)
LockHeld == \A h \in Handlers : pc[h] \in Holding => policyLock = h

Serialised == LockHeld /\ NoLostUpdate

LEMMA SerialisedInit == Init => Serialised
  BY DEF Init, Serialised, LockHeld, NoLostUpdate, Holding

(* A handler that finishes, or goes on to a stage outside the lock, takes
   nothing from the one that is inside. *)
LEMMA OutsideSerialised ==
    ASSUME TypeOK, Serialised, NEW h \in Handlers, NEW stage \in Stages \ Holding,
           Goto(h, stage), UNCHANGED live,
           \/ UNCHANGED read
           \/ read' = [read EXCEPT ![h] = None],
           \/ UNCHANGED policyLock
           \/ policyLock = h
    PROVE  Serialised'
  <1>1. LockHeld'
    BY DEF Serialised, LockHeld, Goto, TypeOK, Holding
  <1>2. NoLostUpdate'
    BY DEF Serialised, NoLostUpdate, Goto, TypeOK, Holding
  <1> QED
    BY <1>1, <1>2 DEF Serialised

LEMMA SerialisedNext == TypeOK /\ Serialised /\ [Next]_vars => Serialised'
  <1> SUFFICES ASSUME TypeOK, Serialised, [Next]_vars PROVE Serialised'
    OBVIOUS
  <1> USE DEF Stages, Holding, Done
  <1>1. ASSUME NEW h \in Handlers, Receive(h) PROVE Serialised'
    <2>1. PICK r \in Requests : Goto(h, FirstStage(r.op))
      BY <1>1 DEF Receive
    <2>2. FirstStage(r.op) \in Stages \ Holding
      BY DEF FirstStage
    <2> QED
      BY <1>1, <2>1, <2>2, OutsideSerialised DEF Receive, locals
  <1>2. ASSUME NEW h \in Handlers, NEW new, NEW next \in {"snapshot", "check"},
               SetAndFlush(h, new, next) \/ RemoveAndFlush(h, new),
               UNCHANGED <<live, policyLock>>
        PROVE  Serialised'
    BY <1>2, OutsideSerialised DEF SetAndFlush, RemoveAndFlush, Finish, locals
  <1>3. ASSUME NEW h \in Handlers, Finish(h, "failed") \/ Finish(h, "ok"),
               UNCHANGED <<live, policyLock>>
        PROVE  Serialised'
    BY <1>3, OutsideSerialised DEF Finish
  <1>4. ASSUME NEW h \in Handlers, CreateUser(h) \/ CreateGroup(h) PROVE Serialised'
    BY <1>2, <1>3, <1>4 DEF CreateUser, CreateGroup, OutOfIds
  <1>5. ASSUME NEW h \in Handlers, ReadUser(h) PROVE Serialised'
    <2>1. CASE mapping.users[req[h].id] = None
      BY <1>3, <1>5, <2>1 DEF ReadUser
    <2>2. CASE mapping.users[req[h].id] # None
      <3>1. \E stage \in {"commit", "headscale"} : Goto(h, stage)
        BY <1>5, <2>2 DEF ReadUser
      <3> QED
        BY <1>5, <2>2, <3>1, OutsideSerialised DEF ReadUser
    <2> QED
      BY <2>1, <2>2
  <1>6. ASSUME NEW h \in Handlers, ExpireNodes(h) \/ DeleteAccount(h) PROVE Serialised'
    <2>1. CASE Goto(h, "commit") /\ UNCHANGED locals
      BY <1>6, <2>1, OutsideSerialised DEF ExpireNodes, DeleteAccount, locals
    <2>2. CASE Finish(h, "failed")
      BY <1>3, <1>6, <2>2 DEF ExpireNodes, DeleteAccount
    <2> QED
      BY <1>6, <2>1, <2>2 DEF ExpireNodes, DeleteAccount
  <1>7. ASSUME NEW h \in Handlers, PutUser(h) \/ DeleteUser(h) PROVE Serialised'
    BY <1>2, <1>7 DEF PutUser, DeleteUser
  <1>8. ASSUME NEW h \in Handlers, CheckGroups(h) PROVE Serialised'
    <2>1. CASE Goto(h, "snapshot") /\ UNCHANGED locals
      BY <1>8, <2>1, OutsideSerialised DEF CheckGroups, locals
    <2> QED
      BY <1>3, <1>8, <2>1 DEF CheckGroups
  <1>9. ASSUME NEW h \in Handlers, PutGroup(h) \/ DeleteGroup(h) PROVE Serialised'
    BY <1>2, <1>3, <1>9 DEF PutGroup, DeleteGroup
  <1>10. ASSUME NEW h \in Handlers, Snapshot(h) PROVE Serialised'
    BY <1>10, OutsideSerialised DEF Snapshot
  <1>11. ASSUME NEW h \in Handlers, AcquireLock(h) PROVE Serialised'
    <2>1. \A i \in Handlers : pc[i] \notin Holding
      BY <1>11, ScimConstants DEF AcquireLock, Serialised, LockHeld
    <2>2. LockHeld' /\ NoLostUpdate'
      BY <1>11, <2>1 DEF AcquireLock, Goto, TypeOK, LockHeld, NoLostUpdate, locals
    <2> QED
      BY <2>2 DEF Serialised
  <1>12. ASSUME NEW h \in Handlers, FetchPolicy(h) PROVE Serialised'
    <2>1. policyLock = h
      BY <1>12 DEF FetchPolicy, Serialised, LockHeld
    <2>2. CASE /\ read' = [read EXCEPT ![h] = live]
               /\ Goto(h, "write")
               /\ UNCHANGED policyLock
      BY <1>12, <2>1, <2>2 DEF FetchPolicy, Goto, TypeOK, Serialised, LockHeld, NoLostUpdate
    <2>3. CASE Finish(h, "ok") \/ Finish(h, "failed")
      BY <1>12, <2>1, <2>3, OutsideSerialised DEF FetchPolicy, Finish
    <2> QED
      BY <1>12, <2>2, <2>3 DEF FetchPolicy
  <1>13. ASSUME NEW h \in Handlers, WritePolicy(h) PROVE Serialised'
    <2>1. policyLock = h
      BY <1>13 DEF WritePolicy, Serialised, LockHeld
    <2>2. \A i \in Handlers \ {h} : pc[i] \notin Holding
      BY <2>1 DEF Serialised, LockHeld
    <2>3. \E answer \in {"ok", "failed"} : Finish(h, answer)
      BY <1>13 DEF WritePolicy
    <2> QED
      BY <2>2, <2>3 DEF Finish, Goto, TypeOK, Serialised, LockHeld, NoLostUpdate
  <1>14. ASSUME NEW h \in Handlers, Disconnect(h) PROVE Serialised'
    <2>1. UNCHANGED policyLock \/ policyLock = h
      BY <1>14 DEF Disconnect
    <2> QED
      BY <1>14, <2>1, OutsideSerialised DEF Disconnect, Finish
  <1>15. ASSUME NEW n \in Nodes, Login(n) PROVE Serialised'
    BY <1>15 DEF Login, service, locals, Serialised, LockHeld, NoLostUpdate
  <1>16. ASSUME Crash PROVE Serialised'
    BY <1>16 DEF Crash, Serialised, LockHeld, NoLostUpdate
  <1>17. CASE UNCHANGED vars
    BY <1>17 DEF vars, service, locals, Serialised, LockHeld, NoLostUpdate
  <1> QED
    BY <1>1, <1>4, <1>5, <1>6, <1>7, <1>8, <1>9, <1>10, <1>11, <1>12, <1>13, <1>14,
       <1>15, <1>16, <1>17 DEF Next, Proceed

(* No handler replaces a policy other than the one it has read, whatever fails
   or goes away while it holds the lock. *)
THEOREM PolicyUpdatesNotLost == Spec => []NoLostUpdate
  <1>1. Serialised => NoLostUpdate
    BY DEF Serialised
  <1> QED
    BY <1>1, TypeCorrect, SerialisedInit, SerialisedNext, PTL DEF Spec

(* The lock is never left taken: whoever holds it is between its fetch and its
   write.  Errors, clients that go away and restarts all let it go. *)
LockReleased == policyLock # None => pc[policyLock] \in Holding

LEMMA LockReleasedNext == TypeOK /\ Serialised /\ LockReleased /\ [Next]_vars => LockReleased'
  <1> SUFFICES ASSUME TypeOK, Serialised, LockReleased, [Next]_vars PROVE LockReleased'
    OBVIOUS
  <1> USE DEF Holding
  (* A step of a handler that does not hold it leaves the lock as it is. *)
  <1>1. ASSUME NEW h \in Handlers, pc[h] \notin Holding, NEW stage, Goto(h, stage), UNCHANGED policyLock
        PROVE  LockReleased'
    BY <1>1 DEF TypeOK, LockReleased, Goto
  <1>2. ASSUME NEW h \in Handlers,
               Receive(h) \/ CreateUser(h) \/ ReadUser(h) \/ ExpireNodes(h) \/ DeleteAccount(h)
               \/ PutUser(h) \/ CheckGroups(h) \/ DeleteUser(h) \/ CreateGroup(h)
               \/ PutGroup(h) \/ DeleteGroup(h) \/ Snapshot(h)
        PROVE  LockReleased'
    <2>1. pc[h] \notin Holding
      BY <1>2 DEF Done, Receive, At, CreateUser, ReadUser, ExpireNodes, DeleteAccount, PutUser,
         CheckGroups, DeleteUser, CreateGroup, PutGroup, DeleteGroup, Snapshot
    <2>2. UNCHANGED policyLock
      BY <1>2 DEF Receive, CreateUser, ReadUser, ExpireNodes, DeleteAccount, PutUser,
         CheckGroups, DeleteUser, CreateGroup, PutGroup, DeleteGroup, Snapshot
    <2>3. \E stage : Goto(h, stage)
      BY <1>2 DEF Receive, CreateUser, ReadUser, ExpireNodes, DeleteAccount, PutUser,
         CheckGroups, DeleteUser, CreateGroup, PutGroup, DeleteGroup, Snapshot,
         SetAndFlush, RemoveAndFlush, Finish, OutOfIds
    <2> QED
      BY <1>1, <2>1, <2>2, <2>3
  <1>3. ASSUME NEW h \in Handlers, AcquireLock(h) PROVE LockReleased'
    BY <1>3 DEF AcquireLock, Goto, TypeOK, LockReleased
  <1>4. ASSUME NEW h \in Handlers, FetchPolicy(h) PROVE LockReleased'
    <2>1. policyLock = h
      BY <1>4 DEF FetchPolicy, Serialised, LockHeld
    <2> QED
      BY <1>4, <2>1 DEF FetchPolicy, Goto, TypeOK, LockReleased
  <1>5. ASSUME NEW h \in Handlers, WritePolicy(h) PROVE LockReleased'
    BY <1>5 DEF WritePolicy, LockReleased
  <1>6. ASSUME NEW h \in Handlers, Disconnect(h) PROVE LockReleased'
    BY <1>6, ScimConstants DEF Disconnect, Finish, Goto, TypeOK, LockReleased
  <1>7. CASE Crash
    BY <1>7 DEF Crash, LockReleased
  <1>8. ASSUME UNCHANGED <<pc, policyLock>> PROVE LockReleased'
    BY <1>8 DEF LockReleased
  <1>9. (\E n \in Nodes : Login(n)) \/ UNCHANGED vars => UNCHANGED <<pc, policyLock>>
    BY DEF Login, vars, service
  <1> QED
    BY <1>2, <1>3, <1>4, <1>5, <1>6, <1>7, <1>8, <1>9 DEF Next, Proceed

(* policy_lock is free whenever no handler is at the get or the set of the
   policy, and whoever is there holds it: the safety core of RequestsFinish, by
   which no request waits behind one that is gone. *)
THEOREM LockNeverLeaked ==
    Spec => [](\A h \in Handlers : policyLock = h <=> pc[h] \in Holding)
  <1>1. Init => LockReleased
    BY DEF Init, LockReleased
  <1>2. TypeOK /\ Serialised /\ LockReleased
            => \A h \in Handlers : policyLock = h <=> pc[h] \in Holding
    BY ScimConstants DEF Serialised, LockHeld, LockReleased
  <1> QED
    BY <1>1, <1>2, TypeCorrect, SerialisedInit, SerialisedNext, LockReleasedNext, PTL DEF Spec

-----------------------------------------------------------------------------
(* The grants of the live policy. *)

LEMMA ResolveNext == Typed /\ GrantsResolve /\ [Next]_vars => GrantsResolve'
  <1> SUFFICES ASSUME Typed, GrantsResolve, [Next]_vars PROVE GrantsResolve'
    OBVIOUS
  <1>1. ASSUME NEW h \in Handlers, WritePolicy(h) PROVE GrantsResolve'
    <2>1. read[h] \in Policies /\ snap[h] \in GroupTables
      BY <1>1 DEF WritePolicy, Typed, Equipped
    <2>2. Resolves(ReplaceGroups(read[h], snap[h]))
      BY <2>1, ReplaceGroupsResolves
    <2>3. live' \in {live, ReplaceGroups(read[h], snap[h])}
      BY <1>1 DEF WritePolicy
    <2> QED
      BY <2>2, <2>3 DEF GrantsResolve
  <1>2. CASE UNCHANGED live
    BY <1>2 DEF GrantsResolve, Resolves, KnownGroups
  <1>3. (\E h \in Handlers : WritePolicy(h)) \/ UNCHANGED live
    BY DEF Next, Proceed, Receive, AcquireLock, Disconnect, Login, Crash, CreateUser,
           ReadUser, ExpireNodes, DeleteAccount, PutUser, CheckGroups, DeleteUser,
           CreateGroup, PutGroup, DeleteGroup, Snapshot, FetchPolicy, vars
  <1> QED
    BY <1>1, <1>2, <1>3

(* The policy the service leaves in headscale always declares the groups its
   grants refer to, stale snapshots, lost answers and restarts included. *)
THEOREM GrantsAlwaysResolve == Spec => []GrantsResolve
  <1>1. Init => GrantsResolve
    BY ScimConstants DEF Init, GrantsResolve
  <1> QED
    BY <1>1, TypedInit, TypedNext, ResolveNext, PTL DEF Spec

(* Only WritePolicy changes the live policy, and what it replaces is the policy
   its handler has read. *)
LEMMA KeptNext ==
    Typed /\ Serialised /\ [Next]_vars => GroupFree(live) \subseteq GroupFree(live')
  <1> SUFFICES ASSUME Typed, Serialised, [Next]_vars
               PROVE  GroupFree(live) \subseteq GroupFree(live')
    OBVIOUS
  <1>1. ASSUME NEW h \in Handlers, WritePolicy(h)
        PROVE  GroupFree(live) \subseteq GroupFree(live')
    <2>1. read[h] = live /\ live \in Policies /\ snap[h] \in GroupTables
      BY <1>1 DEF WritePolicy, Typed, TypeOK, Equipped, Serialised, NoLostUpdate
    <2>2. GroupFree(live) \subseteq GroupFree(ReplaceGroups(live, snap[h]))
      BY <2>1, ReplaceGroupsKeepsFree
    <2>3. live' \in {live, ReplaceGroups(live, snap[h])}
      BY <1>1, <2>1 DEF WritePolicy
    <2> QED
      BY <2>2, <2>3
  <1>2. (\E h \in Handlers : WritePolicy(h)) \/ UNCHANGED live
    BY DEF Next, Proceed, Receive, AcquireLock, Disconnect, Login, Crash, CreateUser,
           ReadUser, ExpireNodes, DeleteAccount, PutUser, CheckGroups, DeleteUser,
           CreateGroup, PutGroup, DeleteGroup, Snapshot, FetchPolicy, vars
  <1> QED
    BY <1>1, <1>2

(* With any number of handlers, the grants that refer to no group survive every
   rewrite of the groups: no stale policy is written back over a newer one, and
   pruning leaves them alone. *)
THEOREM GroupFreeGrantsAlwaysKept == Spec => GroupFreeGrantsKept
  <1> QED
    BY TypeCorrect, TypedInit, TypedNext, SerialisedInit, SerialisedNext, KeptNext, PTL
       DEF Spec, GroupFreeGrantsKept, Typed

-----------------------------------------------------------------------------
(* The names of groups. *)

(* An upsert by name, and a rename that is in no conflict, keep names unique. *)
LEMMA UpsertUnique ==
    ASSUME NEW m \in Mappings, NamesUnique(m), NEW body \in GroupRecords,
           NEW g \in Upserted(GroupsNamed(m, body.name), GroupIds)
    PROVE  NamesUnique([m EXCEPT !.groups[g] = body])
  <1>1. g \in GroupIds
    BY DEF Upserted, GroupsNamed
  <1>2. \A k \in GroupsNamed(m, body.name) : k = g
    BY DEF Upserted, NamesUnique, GroupRecords
  <1> QED
    BY <1>1, <1>2 DEF NamesUnique, GroupsNamed, Mappings

LEMMA RenameUnique ==
    ASSUME NEW g \in GroupIds, NEW body \in GroupRecords, mapping \in Mappings,
           NamesUnique(mapping), mapping.groups[g] # None, ~NameTaken(g, body)
    PROVE  NamesUnique([mapping EXCEPT !.groups[g] = body])
  <1>1. \A k \in GroupsNamed(mapping, body.name) : k = g
    BY DEF NameTaken, NamesUnique, GroupsNamed, Mappings, GroupRecords
  <1> QED
    BY <1>1 DEF NamesUnique, GroupsNamed, Mappings

(* Changes that give no group a name. *)
LEMMA RemovalUnique ==
    ASSUME NEW m \in Mappings, NamesUnique(m)
    PROVE  /\ \A u \in UserIds, r \in UserRecords : NamesUnique([m EXCEPT !.users[u] = r])
           /\ \A u \in UserIds : NamesUnique(WithoutUser(m, u))
           /\ \A g \in GroupIds : NamesUnique(WithoutGroup(m, g))
  <1>1. \A u \in UserIds, r \in UserRecords : NamesUnique([m EXCEPT !.users[u] = r])
    BY DEF NamesUnique, GroupsNamed, Mappings
  <1>2. ASSUME NEW u \in UserIds PROVE NamesUnique(WithoutUser(m, u))
    <2>1. \A g \in GroupIds : /\ WithoutUser(m, u).groups[g] = None <=> m.groups[g] = None
                              /\ m.groups[g] # None => WithoutUser(m, u).groups[g].name = m.groups[g].name
      BY MappingTypes, ScimConstants DEF WithoutUser, Mappings, GroupRecords
    <2>2. \A n \in GroupNames : GroupsNamed(WithoutUser(m, u), n) = GroupsNamed(m, n)
      BY <2>1 DEF GroupsNamed
    <2> QED
      BY <2>2 DEF NamesUnique
  <1>3. \A g \in GroupIds : NamesUnique(WithoutGroup(m, g))
    BY DEF NamesUnique, GroupsNamed, WithoutGroup, Mappings
  <1> QED
    BY <1>1, <1>2, <1>3

LEMMA UniqueNext == Typed /\ GroupNamesUnique /\ [Next]_vars => GroupNamesUnique'
  <1> SUFFICES ASSUME Typed, GroupNamesUnique, [Next]_vars PROVE GroupNamesUnique'
    OBVIOUS
  <1> USE DEF Typed, GroupNamesUnique
  <1>1. ASSUME NEW h \in Handlers, NEW new \in Mappings, NEW next, NamesUnique(new),
               SetAndFlush(h, new, next) \/ RemoveAndFlush(h, new)
        PROVE  GroupNamesUnique'
    <2>1. mapping' \in {mapping, new} /\ disk' \in {disk, new}
      BY <1>1 DEF SetAndFlush, RemoveAndFlush
    <2> QED
      BY <1>1, <2>1 DEF NamesUnique, GroupsNamed
  <1>2. CASE UNCHANGED <<mapping, disk>>
    BY <1>2 DEF NamesUnique, GroupsNamed
  <1>3. ASSUME NEW h \in Handlers, CreateUser(h) \/ PutUser(h) PROVE GroupNamesUnique'
    <2>1. req[h].body \in UserRecords
      BY <1>3, RequestTypes DEF CreateUser, PutUser, At, TypeOK
    <2>2. \/ UNCHANGED <<mapping, disk>>
          \/ \E u \in UserIds, next \in {"snapshot", "check"} :
                SetAndFlush(h, [mapping EXCEPT !.users[u] = req[h].body], next)
      BY <1>3, RequestTypes DEF CreateUser, PutUser, At, OutOfIds, Upserted, UsersNamed, TypeOK
    <2>3. \A u \in UserIds : /\ [mapping EXCEPT !.users[u] = req[h].body] \in Mappings
                             /\ NamesUnique([mapping EXCEPT !.users[u] = req[h].body])
      BY <2>1, MappingTypes, RemovalUnique DEF TypeOK
    <2> QED
      BY <1>1, <1>2, <2>2, <2>3
  <1>4. ASSUME NEW h \in Handlers, DeleteUser(h) PROVE GroupNamesUnique'
    <2>1. WithoutUser(mapping, req[h].id) \in Mappings /\ NamesUnique(WithoutUser(mapping, req[h].id))
      BY <1>4, RequestTypes, MappingTypes, RemovalUnique DEF DeleteUser, At, TypeOK
    <2> QED
      BY <1>1, <1>4, <2>1 DEF DeleteUser
  <1>5. ASSUME NEW h \in Handlers, CreateGroup(h) PROVE GroupNamesUnique'
    <2> DEFINE named == GroupsNamed(mapping, req[h].body.name)
               new(g) == [mapping EXCEPT !.groups[g] = req[h].body]
    <2>1. req[h].body \in GroupRecords
      BY <1>5, RequestTypes DEF CreateGroup, At, TypeOK
    <2>2. \/ UNCHANGED <<mapping, disk>>
          \/ \E g \in Upserted(named, GroupIds) : SetAndFlush(h, new(g), "snapshot")
      BY <1>5 DEF CreateGroup, OutOfIds
    <2>3. \A g \in Upserted(named, GroupIds) : g \in GroupIds
      BY DEF Upserted, GroupsNamed
    <2>4. \A g \in Upserted(named, GroupIds) : new(g) \in Mappings /\ NamesUnique(new(g))
      BY <2>1, <2>3, MappingTypes, UpsertUnique DEF TypeOK
    <2> QED
      BY <1>1, <1>2, <2>2, <2>4
  <1>6. ASSUME NEW h \in Handlers, PutGroup(h) PROVE GroupNamesUnique'
    <2> DEFINE g == req[h].id
               new == [mapping EXCEPT !.groups[g] = req[h].body]
    <2>1. g \in GroupIds /\ req[h].body \in GroupRecords
      BY <1>6, RequestTypes DEF PutGroup, At, TypeOK
    <2>2. CASE mapping.groups[g] = None \/ NameTaken(g, req[h].body)
      BY <1>2, <1>6, <2>2 DEF PutGroup
    <2>3. CASE mapping.groups[g] # None /\ ~NameTaken(g, req[h].body)
      <3>1. new \in Mappings /\ NamesUnique(new)
        BY <2>1, <2>3, MappingTypes, RenameUnique DEF TypeOK
      <3> QED
        BY <1>1, <1>6, <2>3, <3>1 DEF PutGroup
    <2> QED
      BY <2>2, <2>3
  <1>7. ASSUME NEW h \in Handlers, DeleteGroup(h) PROVE GroupNamesUnique'
    <2>1. WithoutGroup(mapping, req[h].id) \in Mappings /\ NamesUnique(WithoutGroup(mapping, req[h].id))
      BY <1>7, RequestTypes, MappingTypes, RemovalUnique DEF DeleteGroup, At, TypeOK
    <2> QED
      BY <1>1, <1>2, <1>7, <2>1 DEF DeleteGroup
  <1>8. ASSUME NEW h \in Handlers, Disconnect(h) PROVE GroupNamesUnique'
    <2>1. PICK new \in Mappings : /\ NamesUnique(new)
                                  /\ mapping' \in {mapping, new}
                                  /\ disk' \in {disk, new}
      BY <1>8, RequestTypes, MappingTypes, RemovalUnique DEF Disconnect, At, TypeOK
    <2> QED
      BY <2>1 DEF NamesUnique, GroupsNamed
  <1>9. ASSUME Crash PROVE GroupNamesUnique'
    BY <1>9 DEF Crash, NamesUnique, GroupsNamed
  <1>10. \/ \E h \in Handlers : \/ CreateUser(h) \/ PutUser(h) \/ DeleteUser(h)
                                \/ CreateGroup(h) \/ PutGroup(h) \/ DeleteGroup(h)
                                \/ Disconnect(h)
         \/ Crash
         \/ UNCHANGED <<mapping, disk>>
    BY DEF Next, Proceed, Receive, AcquireLock, Login, ReadUser, ExpireNodes, DeleteAccount,
           CheckGroups, Snapshot, FetchPolicy, WritePolicy, vars, service
  <1> QED
    BY <1>2, <1>3, <1>4, <1>5, <1>6, <1>7, <1>8, <1>9, <1>10

(* The service never has, nor loads after a crash, two groups of one name, so
   that the groups section it writes has one entry for each. *)
THEOREM GroupNamesAlwaysUnique == Spec => []GroupNamesUnique
  <1>1. Init => GroupNamesUnique
    BY DEF Init, GroupNamesUnique, NamesUnique, GroupsNamed
  <1> QED
    BY <1>1, TypedInit, TypedNext, UniqueNext, PTL DEF Spec
-----------------------------------------------------------------------------
(* The directory: what each change of a mapping looks like. *)

(* Groups that exist have ids that were given out. *)
GroupsIssued(m) == \A g \in GroupIds : m.groups[g] # None => g \in issued
IdsGivenOut == GroupsIssued(mapping) /\ GroupsIssued(disk)

(* A user set is a user set. *)
LEMMA SetUserShown ==
    ASSUME NEW m \in Mappings, NEW u \in UserIds, NEW record \in UserRecords
    PROVE  DirectoryOf([m EXCEPT !.users[u] = record]) = D!SetUser(DirectoryOf(m), u, record)
  <1> DEFINE new == [m EXCEPT !.users[u] = record]
             d == DirectoryOf(m)
  <1>1. record # None
    BY ScimConstants
  <1>2. new.groups = m.groups /\ new.users = [m.users EXCEPT ![u] = record]
    BY DEF Mappings
  <1> HIDE DEF new
  <1>3. \A n \in GroupNames : GroupsNamed(new, n) = GroupsNamed(m, n)
    BY <1>2 DEF GroupsNamed
  <1>4. DirectoryOf(new).groups = d.groups
    BY <1>2, <1>3 DEF DirectoryOf, MembersNamed
  <1>5. {v \in UserIds : new.users[v] # None} = DOMAIN d.users \cup {u}
    BY <1>1, <1>2 DEF DirectoryOf, Mappings
  <1>6. DirectoryOf(new).users = [v \in DOMAIN d.users \cup {u} |-> IF v = u THEN record ELSE d.users[v]]
    BY <1>2, <1>5 DEF DirectoryOf, Mappings
  <1>7. DirectoryOf(new) = [users |-> DirectoryOf(new).users, groups |-> DirectoryOf(new).groups]
    BY DEF DirectoryOf
  <1> QED
    BY <1>4, <1>6, <1>7 DEF D!SetUser, new

(* A user removed goes from the groups of every name. *)
LEMMA RemoveUserShown ==
    ASSUME NEW m \in Mappings, NEW u \in UserIds
    PROVE  DirectoryOf(WithoutUser(m, u)) = D!RemoveUser(DirectoryOf(m), u)
  <1> DEFINE new == WithoutUser(m, u)
             d == DirectoryOf(m)
  <1>1. /\ new.users = [m.users EXCEPT ![u] = None]
        /\ \A g \in GroupIds : /\ new.groups[g] = None <=> m.groups[g] = None
                               /\ m.groups[g] # None =>
                                    /\ new.groups[g].name = m.groups[g].name
                                    /\ new.groups[g].members = m.groups[g].members \ {u}
    BY ScimConstants DEF WithoutUser, Mappings, GroupRecords
  <1> HIDE DEF new
  <1>2. \A n \in GroupNames : GroupsNamed(new, n) = GroupsNamed(m, n)
    BY <1>1 DEF GroupsNamed
  <1>3. \A n \in GroupNames : MembersNamed(new, n) = MembersNamed(m, n) \ {u}
    <2> TAKE n \in GroupNames
    <2>1. \A g \in GroupsNamed(m, n) : new.groups[g].members = m.groups[g].members \ {u}
      BY <1>1 DEF GroupsNamed
    <2> QED
      BY <1>2, <2>1 DEF MembersNamed
  <1>4. {v \in UserIds : new.users[v] # None} = DOMAIN d.users \ {u}
    BY <1>1 DEF DirectoryOf, Mappings
  <1>5. DirectoryOf(new).users = [v \in DOMAIN d.users \ {u} |-> d.users[v]]
    BY <1>1, <1>4 DEF DirectoryOf, Mappings
  <1>6. DirectoryOf(new).groups = [n \in DOMAIN d.groups |-> d.groups[n] \ {u}]
    BY <1>2, <1>3 DEF DirectoryOf
  <1>7. DirectoryOf(new) = [users |-> DirectoryOf(new).users, groups |-> DirectoryOf(new).groups]
    BY DEF DirectoryOf
  <1> QED
    BY <1>5, <1>6, <1>7 DEF D!RemoveUser, new

(* A group set under an id that was free, or that alone bore the name `was`. *)
LEMMA SetGroupShown ==
    ASSUME NEW m \in Mappings, NEW g \in GroupIds, NEW body \in GroupRecords,
           GroupsNamed(m, body.name) \subseteq {g},
           NEW was \in GroupNames,
           IF m.groups[g] = None THEN was = body.name ELSE was = m.groups[g].name,
           GroupsNamed(m, was) \subseteq {g}
    PROVE  DirectoryOf([m EXCEPT !.groups[g] = body])
             = D!SetGroup(DirectoryOf(m), was, body.name, body.members)
  <1> DEFINE new == [m EXCEPT !.groups[g] = body]
             d == DirectoryOf(m)
  <1>1. body # None /\ body.name \in GroupNames
    BY ScimConstants DEF GroupRecords
  <1>2. new.users = m.users /\ new.groups = [m.groups EXCEPT ![g] = body]
    BY DEF Mappings
  <1> HIDE DEF new
  <1>3. GroupsNamed(new, body.name) = {g}
    BY <1>1, <1>2 DEF GroupsNamed, Mappings
  <1>4. MembersNamed(new, body.name) = body.members
    BY <1>2, <1>3 DEF MembersNamed, Mappings
  <1>5. \A n \in GroupNames \ {body.name, was} : GroupsNamed(new, n) = GroupsNamed(m, n) /\ g \notin GroupsNamed(m, n)
    BY <1>1, <1>2 DEF GroupsNamed, Mappings
  <1>6. \A n \in GroupNames \ {body.name, was} : MembersNamed(new, n) = MembersNamed(m, n)
    <2> TAKE n \in GroupNames \ {body.name, was}
    <2>1. \A k \in GroupsNamed(m, n) : new.groups[k].members = m.groups[k].members
      BY <1>2, <1>5 DEF GroupsNamed, Mappings
    <2> QED
      BY <1>5, <2>1 DEF MembersNamed
  <1>7. was # body.name => GroupsNamed(new, was) = {}
    BY <1>1, <1>2 DEF GroupsNamed, Mappings
  <1>8. {k \in GroupNames : GroupsNamed(new, k) # {}} = (DOMAIN d.groups \ {was}) \cup {body.name}
    BY <1>1, <1>3, <1>5, <1>7 DEF DirectoryOf
  <1>9. DirectoryOf(new).groups = [k \in (DOMAIN d.groups \ {was}) \cup {body.name} |->
                                      IF k = body.name THEN body.members ELSE d.groups[k]]
    BY <1>4, <1>6, <1>8 DEF DirectoryOf
  <1>10. DirectoryOf(new).users = d.users
    BY <1>2 DEF DirectoryOf
  <1>11. DirectoryOf(new) = [users |-> DirectoryOf(new).users, groups |-> DirectoryOf(new).groups]
    BY DEF DirectoryOf
  <1> QED
    BY <1>9, <1>10, <1>11 DEF D!SetGroup, new

(* A group that is alone with its name leaves no entry. *)
LEMMA RemoveGroupShown ==
    ASSUME NEW m \in Mappings, NEW g \in GroupIds, m.groups[g] # None,
           GroupsNamed(m, m.groups[g].name) \subseteq {g}
    PROVE  DirectoryOf(WithoutGroup(m, g)) = D!RemoveGroup(DirectoryOf(m), m.groups[g].name)
  <1> DEFINE new == WithoutGroup(m, g)
             d == DirectoryOf(m)
             name == m.groups[g].name
  <1>1. new.users = m.users /\ new.groups = [m.groups EXCEPT ![g] = None]
    BY DEF Mappings, WithoutGroup
  <1> HIDE DEF new
  <1>2. GroupsNamed(new, name) = {}
    BY <1>1 DEF GroupsNamed, Mappings
  <1>3. \A n \in GroupNames \ {name} : GroupsNamed(new, n) = GroupsNamed(m, n) /\ g \notin GroupsNamed(m, n)
    BY <1>1 DEF GroupsNamed, Mappings
  <1>4. \A n \in GroupNames \ {name} : MembersNamed(new, n) = MembersNamed(m, n)
    <2> TAKE n \in GroupNames \ {name}
    <2>1. \A k \in GroupsNamed(m, n) : new.groups[k].members = m.groups[k].members
      BY <1>1, <1>3 DEF GroupsNamed, Mappings
    <2> QED
      BY <1>3, <2>1 DEF MembersNamed
  <1>5. {k \in GroupNames : GroupsNamed(new, k) # {}} = DOMAIN d.groups \ {name}
    BY <1>2, <1>3 DEF DirectoryOf
  <1>6. DirectoryOf(new).groups = [k \in DOMAIN d.groups \ {name} |-> d.groups[k]]
    BY <1>4, <1>5 DEF DirectoryOf
  <1>7. DirectoryOf(new).users = d.users
    BY <1>1 DEF DirectoryOf
  <1>8. DirectoryOf(new) = [users |-> DirectoryOf(new).users, groups |-> DirectoryOf(new).groups]
    BY DEF DirectoryOf
  <1> QED
    BY <1>6, <1>7, <1>8 DEF D!RemoveGroup, new

(* What a step does to the mapping and its file.  A change is saved or not; a
   removal that is not saved may be undone. *)
Written(new) == mapping' = new /\ disk' \in {disk, new}
Taken(new) == mapping' \in {mapping, new} /\ disk' \in {disk, new}

Effect ==
    \/ UNCHANGED <<mapping, disk>>
    \/ mapping' = disk /\ UNCHANGED disk
    \/ \E u \in UserIds, record \in UserRecords : Written([mapping EXCEPT !.users[u] = record])
    \/ \E u \in UserIds : Taken(WithoutUser(mapping, u))
    \/ \E g \in GroupIds, body \in GroupRecords :
        /\ Written([mapping EXCEPT !.groups[g] = body])
        /\ \/ g \in Upserted(GroupsNamed(mapping, body.name), GroupIds) /\ g \in issued'
           \/ mapping.groups[g] # None /\ ~NameTaken(g, body)
    \/ \E g \in GroupIds : mapping.groups[g] # None /\ Taken(WithoutGroup(mapping, g))

LEMMA Effects == Typed /\ [Next]_vars => Effect /\ issued \subseteq issued'
  <1> SUFFICES ASSUME Typed, [Next]_vars PROVE Effect /\ issued \subseteq issued'
    OBVIOUS
  <1> USE DEF Typed
  <1>1. ASSUME NEW h \in Handlers, CreateUser(h) \/ PutUser(h)
        PROVE  Effect /\ issued \subseteq issued'
    <2>1. req[h].body \in UserRecords
      BY <1>1, RequestTypes DEF CreateUser, PutUser, At, TypeOK
    <2>2. \/ UNCHANGED <<mapping, disk>>
          \/ \E u \in UserIds : Written([mapping EXCEPT !.users[u] = req[h].body])
      BY <1>1, RequestTypes DEF CreateUser, PutUser, At, OutOfIds, Upserted, UsersNamed, TypeOK,
           SetAndFlush, Written
    <2>3. issued \subseteq issued'
      BY <1>1 DEF CreateUser, PutUser, OutOfIds
    <2> QED
      BY <2>1, <2>2, <2>3 DEF Effect
  <1>2. ASSUME NEW h \in Handlers, DeleteUser(h) PROVE Effect /\ issued \subseteq issued'
    <2>1. req[h].id \in UserIds
      BY <1>2, RequestTypes DEF DeleteUser, At, TypeOK
    <2> QED
      BY <1>2, <2>1 DEF DeleteUser, RemoveAndFlush, Taken, Effect
  <1>3. ASSUME NEW h \in Handlers, CreateGroup(h) PROVE Effect /\ issued \subseteq issued'
    <2> DEFINE named == GroupsNamed(mapping, req[h].body.name)
    <2>1. req[h].body \in GroupRecords
      BY <1>3, RequestTypes DEF CreateGroup, At, TypeOK
    <2>2. \A g \in Upserted(named, GroupIds) : g \in GroupIds
      BY DEF Upserted, GroupsNamed
    <2>3. \/ UNCHANGED <<mapping, disk, issued>>
          \/ \E g \in Upserted(named, GroupIds) :
                Written([mapping EXCEPT !.groups[g] = req[h].body]) /\ issued' = issued \cup {g}
      BY <1>3 DEF CreateGroup, OutOfIds, SetAndFlush, Written
    <2> QED
      BY <2>1, <2>2, <2>3 DEF Effect
  <1>4. ASSUME NEW h \in Handlers, PutGroup(h) PROVE Effect /\ issued \subseteq issued'
    <2>1. req[h].id \in GroupIds /\ req[h].body \in GroupRecords
      BY <1>4, RequestTypes DEF PutGroup, At, TypeOK
    <2> QED
      BY <1>4, <2>1 DEF PutGroup, SetAndFlush, Written, Effect
  <1>5. ASSUME NEW h \in Handlers, DeleteGroup(h) PROVE Effect /\ issued \subseteq issued'
    <2>1. req[h].id \in GroupIds
      BY <1>5, RequestTypes DEF DeleteGroup, At, TypeOK
    <2> QED
      BY <1>5, <2>1 DEF DeleteGroup, RemoveAndFlush, Taken, Effect
  <1>6. ASSUME NEW h \in Handlers, Disconnect(h) PROVE Effect /\ issued \subseteq issued'
    <2>1. /\ req[h].op = "delete_user" => req[h].id \in UserIds
          /\ req[h].op = "delete_group" => req[h].id \in GroupIds
      BY <1>6, RequestTypes DEF TypeOK
    <2> QED
      BY <1>6, <2>1 DEF Disconnect, At, Taken, Effect
  <1>7. CASE Crash
    BY <1>7 DEF Crash, Effect
  <1>8. \/ \E h \in Handlers : \/ CreateUser(h) \/ PutUser(h) \/ DeleteUser(h)
                               \/ CreateGroup(h) \/ PutGroup(h) \/ DeleteGroup(h)
                               \/ Disconnect(h)
        \/ Crash
        \/ UNCHANGED <<mapping, disk, issued>>
    BY DEF Next, Proceed, Receive, AcquireLock, Login, ReadUser, ExpireNodes, DeleteAccount,
           CheckGroups, Snapshot, FetchPolicy, WritePolicy, vars, service
  <1> QED
    BY <1>1, <1>2, <1>3, <1>4, <1>5, <1>6, <1>7, <1>8 DEF Effect

LEMMA IdsNext == Typed /\ IdsGivenOut /\ [Next]_vars => IdsGivenOut'
  <1> SUFFICES ASSUME Typed, IdsGivenOut, [Next]_vars PROVE IdsGivenOut'
    OBVIOUS
  <1>1. Effect /\ issued \subseteq issued'
    BY Effects
  <1>2. mapping \in Mappings /\ disk \in Mappings
    BY DEF Typed, TypeOK
  <1>3. ASSUME NEW new, \A g \in GroupIds : new.groups[g] # None => g \in issued', Taken(new)
        PROVE  IdsGivenOut'
    BY <1>1, <1>3 DEF IdsGivenOut, GroupsIssued, Taken
  <1>4. ASSUME NEW u \in UserIds PROVE \A g \in GroupIds : WithoutUser(mapping, u).groups[g] # None => g \in issued'
    BY <1>1, <1>2 DEF IdsGivenOut, GroupsIssued, WithoutUser
  <1>5. ASSUME NEW u \in UserIds, NEW record \in UserRecords
        PROVE  \A g \in GroupIds : [mapping EXCEPT !.users[u] = record].groups[g] # None => g \in issued'
    BY <1>1, <1>2 DEF IdsGivenOut, GroupsIssued, Mappings
  <1>6. ASSUME NEW g \in GroupIds, NEW body \in GroupRecords, g \in issued'
        PROVE  \A k \in GroupIds : [mapping EXCEPT !.groups[g] = body].groups[k] # None => k \in issued'
    BY <1>1, <1>2, <1>6 DEF IdsGivenOut, GroupsIssued, Mappings
  <1>7. ASSUME NEW g \in GroupIds
        PROVE  \A k \in GroupIds : WithoutGroup(mapping, g).groups[k] # None => k \in issued'
    BY <1>1, <1>2 DEF IdsGivenOut, GroupsIssued, Mappings, WithoutGroup
  <1>8. \A g \in GroupIds : mapping.groups[g] # None => g \in issued'
    BY <1>1 DEF IdsGivenOut, GroupsIssued
  <1>9. CASE UNCHANGED <<mapping, disk>> \/ (mapping' = disk /\ UNCHANGED disk)
    BY <1>1, <1>9 DEF IdsGivenOut, GroupsIssued
  <1> QED
    BY <1>1, <1>3, <1>4, <1>5, <1>6, <1>7, <1>8, <1>9 DEF Effect, Written, Taken

-----------------------------------------------------------------------------
(* Groups that are gone. *)

LEMMA GroupsGoneNext ==
    Typed /\ [Next]_vars => \A g \in GroupIds : GroupGone(g) => mapping'.groups[g] = None
  <1> SUFFICES ASSUME Typed, [Next]_vars, NEW k \in GroupIds, GroupGone(k)
               PROVE  mapping'.groups[k] = None
    OBVIOUS
  <1>1. Effect
    BY Effects
  <1>2. mapping \in Mappings /\ disk \in Mappings
    BY DEF Typed, TypeOK
  <1>3. mapping.groups[k] = None /\ disk.groups[k] = None /\ k \in issued
    BY DEF GroupGone
  <1>4. CASE UNCHANGED <<mapping, disk>> \/ mapping' = disk
    BY <1>3, <1>4
  <1>5. ASSUME NEW u \in UserIds, NEW record \in UserRecords,
               Written([mapping EXCEPT !.users[u] = record])
        PROVE  mapping'.groups[k] = None
    BY <1>2, <1>3, <1>5 DEF Written, Mappings
  <1>6. ASSUME NEW u \in UserIds, Taken(WithoutUser(mapping, u))
        PROVE  mapping'.groups[k] = None
    BY <1>2, <1>3, <1>6 DEF Taken, WithoutUser
  <1>7. ASSUME NEW g \in GroupIds, NEW body \in GroupRecords,
               Written([mapping EXCEPT !.groups[g] = body]),
               \/ g \in Upserted(GroupsNamed(mapping, body.name), GroupIds)
               \/ mapping.groups[g] # None
        PROVE  mapping'.groups[k] = None
    <2>1. g # k
      BY <1>3, <1>7 DEF Upserted, GroupsNamed
    <2> QED
      BY <1>2, <1>3, <1>7, <2>1 DEF Written, Mappings
  <1>8. ASSUME NEW g \in GroupIds, Taken(WithoutGroup(mapping, g))
        PROVE  mapping'.groups[k] = None
    BY <1>2, <1>3, <1>8 DEF Taken, WithoutGroup, Mappings
  <1> QED
    BY <1>1, <1>4, <1>5, <1>6, <1>7, <1>8 DEF Effect

(* With any number of handlers, the id of a deleted group never names a group
   again: put_group finds it gone under the lock it writes under, and an upsert
   takes a fresh id. *)
THEOREM GroupsNeverReturn == Spec => GroupsStayGone
  <1>1. Typed /\ [Next]_vars
          => [\A g \in GroupIds : GroupGone(g) => mapping'.groups[g] = None]_vars
    BY GroupsGoneNext
  <1> QED
    BY <1>1, TypedInit, TypedNext, PTL DEF Spec, GroupsStayGone

-----------------------------------------------------------------------------
(* The refinement. *)

LEMMA DirectoryInit == Init => D!Init
  <1> SUFFICES ASSUME Init PROVE D!Init
    OBVIOUS
  <1>1. {v \in UserIds : mapping.users[v] # None} = {}
    BY DEF Init
  <1>2. {k \in GroupNames : GroupsNamed(mapping, k) # {}} = {}
    BY DEF Init, GroupsNamed
  <1>3. [u \in {} |-> mapping.users[u]] = [u \in {} |-> {}]
    OBVIOUS
  <1>4. [n \in {} |-> MembersNamed(mapping, n)] = [n \in {} |-> {}]
    OBVIOUS
  <1>5. DirectoryOf(mapping) = D!Empty
    BY <1>1, <1>2, <1>3, <1>4 DEF DirectoryOf, D!Empty
  <1> QED
    BY <1>5 DEF Init, D!Init

LEMMA DirectoryNext ==
    Typed /\ GroupNamesUnique /\ IdsGivenOut /\ [Next]_vars
        => [D!Next]_<<DirectoryOf(mapping), DirectoryOf(disk)>>
  <1> SUFFICES ASSUME Typed, GroupNamesUnique, IdsGivenOut, [Next]_vars
               PROVE  D!Next \/ UNCHANGED <<DirectoryOf(mapping), DirectoryOf(disk)>>
    OBVIOUS
  <1> DEFINE d == DirectoryOf(mapping)
  <1>1. Effect
    BY Effects
  <1>2. mapping \in Mappings
    BY DEF Typed, TypeOK
  <1>3. ASSUME NEW new, Written(new), D!Sets(d, DirectoryOf(new)) PROVE D!Next
    BY <1>3 DEF Written, D!Next, D!Update
  <1>4. ASSUME NEW new, Taken(new), D!Removes(d, DirectoryOf(new))
        PROVE  D!Next \/ UNCHANGED <<DirectoryOf(mapping), DirectoryOf(disk)>>
    BY <1>4 DEF Taken, D!Next, D!Update, D!Undone
  <1>5. CASE UNCHANGED <<mapping, disk>>
    BY <1>5
  <1>6. CASE mapping' = disk /\ UNCHANGED disk
    BY <1>6 DEF D!Next, D!Restart
  <1>7. ASSUME NEW u \in UserIds, NEW record \in UserRecords,
               Written([mapping EXCEPT !.users[u] = record])
        PROVE  D!Next
    BY <1>2, <1>3, <1>7, SetUserShown DEF D!Sets
  <1>8. ASSUME NEW u \in UserIds, Taken(WithoutUser(mapping, u))
        PROVE  D!Next \/ UNCHANGED <<DirectoryOf(mapping), DirectoryOf(disk)>>
    BY <1>2, <1>4, <1>8, RemoveUserShown DEF D!Removes
  <1>9. ASSUME NEW g \in GroupIds, NEW body \in GroupRecords,
               Written([mapping EXCEPT !.groups[g] = body]),
               \/ g \in Upserted(GroupsNamed(mapping, body.name), GroupIds)
               \/ mapping.groups[g] # None /\ ~NameTaken(g, body)
        PROVE  D!Next
    <2> DEFINE was == IF mapping.groups[g] = None THEN body.name ELSE mapping.groups[g].name
    <2>1. was \in GroupNames /\ body.name \in GroupNames /\ body.members \in SUBSET UserIds
      BY <1>2 DEF Mappings, GroupRecords
    <2>2. \A n \in GroupNames : g \in GroupsNamed(mapping, n) => GroupsNamed(mapping, n) \subseteq {g}
      BY DEF GroupNamesUnique, NamesUnique
    <2>3. GroupsNamed(mapping, body.name) \subseteq {g}
      BY <1>9, <2>1, <2>2 DEF Upserted, NameTaken, GroupsNamed
    <2>4. GroupsNamed(mapping, was) \subseteq {g}
      BY <2>1, <2>2, <2>3 DEF GroupsNamed
    <2>5. DirectoryOf([mapping EXCEPT !.groups[g] = body])
            = D!SetGroup(d, was, body.name, body.members)
      BY <1>2, <2>1, <2>3, <2>4, SetGroupShown
    <2>6. CASE was = body.name
      BY <1>3, <1>9, <2>1, <2>5, <2>6 DEF D!Sets
    <2>7. CASE was # body.name
      <3>1. was \in DOMAIN d.groups
        BY <2>1, <2>7 DEF DirectoryOf, GroupsNamed
      <3>2. body.name \notin DOMAIN d.groups
        BY <2>3, <2>7 DEF DirectoryOf, GroupsNamed
      <3> QED
        BY <1>3, <1>9, <2>1, <2>5, <3>1, <3>2 DEF D!Sets
    <2> QED
      BY <2>6, <2>7
  <1>10. ASSUME NEW g \in GroupIds, mapping.groups[g] # None, Taken(WithoutGroup(mapping, g))
         PROVE  D!Next \/ UNCHANGED <<DirectoryOf(mapping), DirectoryOf(disk)>>
    <2> DEFINE name == mapping.groups[g].name
    <2>1. name \in GroupNames /\ g \in GroupsNamed(mapping, name)
      BY <1>2, <1>10 DEF Mappings, GroupRecords, GroupsNamed
    <2>2. GroupsNamed(mapping, name) \subseteq {g}
      BY <2>1 DEF GroupNamesUnique, NamesUnique
    <2>3. DirectoryOf(WithoutGroup(mapping, g)) = D!RemoveGroup(d, name)
      BY <1>2, <1>10, <2>2, RemoveGroupShown
    <2>4. name \in DOMAIN d.groups
      BY <2>1 DEF DirectoryOf
    <2> QED
      BY <1>4, <1>10, <2>3, <2>4 DEF D!Removes
  <1> QED
    BY <1>1, <1>5, <1>6, <1>7, <1>8, <1>9, <1>10 DEF Effect

(* However requests interleave, fail, are dropped or are cut off by a crash, the
   users and groups that the service keeps are a directory that changes as a
   whole. *)
THEOREM DirectoryImplemented == Spec => ImplementsDirectory
  <1>1. Init => IdsGivenOut /\ GroupNamesUnique
    BY DEF Init, IdsGivenOut, GroupsIssued, GroupNamesUnique, NamesUnique, GroupsNamed
  <1> QED
    BY <1>1, TypedInit, TypedNext, UniqueNext, IdsNext, DirectoryInit, DirectoryNext, PTL
       DEF Spec, ImplementsDirectory, D!Spec
=============================================================================
