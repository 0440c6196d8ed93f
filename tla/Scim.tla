-------------------------------- MODULE Scim --------------------------------
(***************************************************************************)
(* The SCIM service (scim/src): requests of the identity provider, handled *)
(* concurrently, that keep a mapping of users and groups in memory and on  *)
(* disk, expire or delete what headscale holds for a user, and rewrite the *)
(* groups of the live headscale policy.                                    *)
(*                                                                         *)
(* A request runs through the stages of pc[h]; every stage but the first   *)
(* is what the handler does between two awaits at which another handler    *)
(* can run:                                                                *)
(*                                                                         *)
(*   read      look the user up under the mapping lock, and release it     *)
(*   headscale expire the user's nodes, or delete the user, over gRPC      *)
(*   commit    change and flush the mapping, under the mapping lock        *)
(*   check     take the lock again: does any group list the user?          *)
(*   snapshot  resolve all groups under the mapping lock, and release it   *)
(*   lock      wait for policy_lock                                        *)
(*   fetch     GetPolicy, edit, compare                                    *)
(*   write     SetPolicy                                                   *)
(*                                                                         *)
(* The mapping lock is held across a flush, so that commit is one step for *)
(* the other handlers.  Failed calls, failed flushes, clients that go away *)
(* and crashes are faults, at most MaxFaults of them in a behaviour.       *)
(***************************************************************************)
EXTENDS Policy, Naturals, FiniteSets, Functions

CONSTANTS
    UserIds,              \* SCIM ids of users (fresh UUIDs)
    GroupIds,             \* SCIM ids of groups (fresh UUIDs)
    UserNames, Emails, ExternalIds,
    PolicyUserKey,        \* "email", "username" or "external_id"
    ExpireNodesOnChange,  \* EXPIRE_NODES_ON_CHANGE
    Handlers,             \* slots for requests in flight
    Nodes,                \* headscale nodes
    UserBodies,           \* bodies of user requests
    InitialPolicies,      \* policies headscale may start with
    Ops,                  \* operations the identity provider uses
    MaxRequests,          \* requests other than /internal/reconcile
    MaxFaults,            \* faults of any kind
    None                  \* the absent value

UserRecords == [active : BOOLEAN, name : UserNames,
                email : Emails \cup {None}, external_id : ExternalIds \cup {None}]
GroupRecords == [name : GroupNames, members : SUBSET UserIds]
Mappings == [users : [UserIds -> UserRecords \cup {None}],
             groups : [GroupIds -> GroupRecords \cup {None}]]

UserOps == {"post_user", "put_user", "delete_user"}
GroupOps == {"post_group", "put_group", "delete_group"}

Requests ==
    [op : {"post_user"}, body : UserBodies]
        \cup [op : {"put_user"}, id : UserIds, body : UserBodies]
        \cup [op : {"delete_user"}, id : UserIds]
        \cup [op : {"post_group"}, body : GroupRecords]
        \cup [op : {"put_group"}, id : GroupIds, body : GroupRecords]
        \cup [op : {"delete_group"}, id : GroupIds]
        \cup [op : {"reconcile"}]

Done == {"idle", "ok", "failed"}
Holding == {"fetch", "write"}
Stages == Done \cup Holding \cup {"read", "headscale", "commit", "check", "snapshot", "lock"}

(* Assumptions on the constants: the absent value is none of the others,
   identifiers are tokens, and the inputs are of their types. *)
ASSUME ScimConstants ==
    /\ None \notin UserRecords \cup GroupRecords \cup Requests
    /\ None \notin Handlers \cup Policies \cup GroupTables \cup Tokens
    /\ UserNames \cup Emails \cup ExternalIds \subseteq Tokens
    /\ None \notin UserIds \cup GroupIds
    /\ UserIds \cap GroupIds = {}
    /\ PolicyUserKey \in {"email", "username", "external_id"}
    /\ ExpireNodesOnChange \in BOOLEAN
    /\ UserBodies \subseteq UserRecords
    /\ InitialPolicies \subseteq {p \in Policies : Resolves(p)}
    /\ Ops \subseteq UserOps \cup GroupOps \cup {"reconcile"}
    /\ MaxRequests \in Nat
    /\ MaxFaults \in Nat

VARIABLES
    mapping,   \* Mapping.data, shared behind a mutex
    disk,      \* the mapping file
    live,      \* the policy headscale serves
    session,   \* node -> identifier of its user, None when expired
    policyLock,\* the handler that holds policy_lock, or None
    pc,        \* stage of each handler
    req,       \* its request, or the last one (reconcile for none yet)
    old,       \* old_record (put_user) or record (delete_user)
    snap,      \* the groups it resolved
    read,      \* the policy it fetched
    issued,    \* ids given out so far
    requests,  \* number of requests received
    faults     \* number of faults

locals == <<old, snap, read>>
service == <<mapping, disk, policyLock, pc, req, locals, issued>>
vars == <<service, live, session, requests, faults>>

TypeOK ==
    /\ mapping \in Mappings
    /\ disk \in Mappings
    /\ live \in Policies
    /\ session \in [Nodes -> Tokens \cup {None}]
    /\ policyLock \in Handlers \cup {None}
    /\ pc \in [Handlers -> Stages]
    /\ req \in [Handlers -> Requests]
    /\ old \in [Handlers -> UserRecords \cup {None}]
    /\ snap \in [Handlers -> GroupTables \cup {None}]
    /\ read \in [Handlers -> Policies \cup {None}]
    /\ issued \in SUBSET (UserIds \cup GroupIds)
    /\ requests \in 0 .. MaxRequests
    /\ faults \in 0 .. MaxFaults

-----------------------------------------------------------------------------
(* Reading the mapping. *)

UsersNamed(m, n) == {u \in UserIds : m.users[u] # None /\ m.users[u].name = n}
GroupsNamed(m, n) == {g \in GroupIds : m.groups[g] # None /\ m.groups[g].name = n}
GroupsListing(m, u) == {g \in GroupIds : m.groups[g] # None /\ u \in m.groups[g].members}

(* resolve_key: the identifier headscale knows a user by; None when the record
   lacks the configured one. *)
ResolveKey(record) ==
    CASE PolicyUserKey = "email"       -> record.email
      [] PolicyUserKey = "username"    -> record.name
      [] PolicyUserKey = "external_id" -> record.external_id

(* Variants: members are listed by their SCIM ids; users without an identifier
   are not skipped. *)
MemberIds(m, ids) == {u \in ids : m.users[u] # None /\ m.users[u].active}

MemberTokensUnfiltered(m, ids) ==
    {ResolveKey(m.users[u]) : u \in {v \in ids : m.users[v] # None /\ m.users[v].active}}

(* The policy members of a list of users: unknown and inactive ones and those
   without an identifier are skipped. *)
MemberTokens(m, ids) ==
    {ResolveKey(m.users[u]) : u \in {v \in ids : m.users[v] # None /\ m.users[v].active}} \ {None}

(* The groups section that the mapping calls for. *)
Resolved(m) ==
    [n \in {k \in GroupNames : GroupsNamed(m, k) # {}} |->
        UNION {MemberTokens(m, m.groups[g].members) : g \in GroupsNamed(m, n)}]

(* Variant: the user is removed and the groups are left for a second flush. *)
WithoutUserOnly(m, u) == [m EXCEPT !.users[u] = None]

(* remove_user_and_from_groups *)
WithoutUser(m, u) ==
    [users |-> [m.users EXCEPT ![u] = None],
     groups |-> [g \in GroupIds |->
        IF m.groups[g] = None THEN None
        ELSE [m.groups[g] EXCEPT !.members = @ \ {u}]]]

WithoutGroup(m, g) == [m EXCEPT !.groups[g] = None]

(* should_expire_on_change *)
IdentifierChanged(record, body) ==
    \/ PolicyUserKey = "email" /\ body.email # record.email
    \/ PolicyUserKey = "username" /\ body.name # record.name

ShouldExpire(record, body) ==
    ~body.active \/ (ExpireNodesOnChange /\ IdentifierChanged(record, body))

(* Variant: reconcile when the identifier or the active flag has changed. *)
NeedsReconcileIfChanged(h) ==
    LET u == req[h].id
    IN  /\ GroupsListing(mapping, u) # {}
        /\ \/ ResolveKey(old[h]) # ResolveKey(req[h].body)
           \/ old[h].active # req[h].body.active

(* put_user reconciles unless the user is active and in no group. *)
NeedsReconcile(h) == ~req[h].body.active \/ GroupsListing(mapping, req[h].id) # {}

-----------------------------------------------------------------------------
(* Building blocks of the handlers. *)

Goto(h, stage) == pc' = [pc EXCEPT ![h] = stage]

At(h, stage, op) == pc[h] = stage /\ req[h].op = op

Fault == faults < MaxFaults /\ faults' = faults + 1

(* The handler answers, and its future and what it holds are dropped. *)
Finish(h, answer) ==
    /\ Goto(h, answer)
    /\ old' = [old EXCEPT ![h] = None]
    /\ snap' = [snap EXCEPT ![h] = None]
    /\ read' = [read EXCEPT ![h] = None]

(* set_user and set_group: a flush that fails, or that the client's departure
   cuts short, leaves the new record in memory; the file may have been renamed
   before it failed. *)
SetAndFlush(h, new, next) ==
    \/ /\ mapping' = new
       /\ disk' = new
       /\ Goto(h, next)
       /\ UNCHANGED <<locals, faults>>
    \/ /\ Fault
       /\ mapping' = new
       /\ disk' \in {disk, new}
       /\ Finish(h, "failed")

(* remove_user_and_from_groups and remove_group: a flush that fails is undone
   in memory, whatever became of the file. *)
RemoveAndFlush(h, new) ==
    \/ /\ mapping' = new
       /\ disk' = new
       /\ Goto(h, "snapshot")
       /\ UNCHANGED <<locals, faults>>
    \/ /\ Fault
       /\ mapping' = mapping
       /\ disk' \in {disk, new}
       /\ Finish(h, "failed")

FirstStage(op) ==
    CASE op \in {"put_user", "delete_user"} -> "read"
      [] op = "reconcile" -> "snapshot"
      [] OTHER -> "commit"

(* A request that passes validation and names ids that were given out. *)
Valid(r) ==
    /\ r.op \in {"post_user", "put_user"} /\ PolicyUserKey = "external_id"
         => r.body.external_id # None
    /\ r.op \in {"put_user", "delete_user", "put_group", "delete_group"} => r.id \in issued
    /\ r.op \in {"post_group", "put_group"} => r.body.members \subseteq issued

Receive(h) ==
    /\ pc[h] \in Done
    /\ \E r \in Requests :
        /\ r.op \in Ops
        /\ Valid(r)
        /\ IF r.op = "reconcile"
           THEN requests' = requests
           ELSE requests < MaxRequests /\ requests' = requests + 1
        /\ req' = [req EXCEPT ![h] = r]
        /\ Goto(h, FirstStage(r.op))
    /\ UNCHANGED <<mapping, disk, live, session, policyLock, locals, issued, faults>>
-----------------------------------------------------------------------------
(* Users. *)

(* The record an upsert writes: the one of that name (the first by id, and ids
   are random), else one under a fresh id. *)
Upserted(named, ids) == IF named # {} THEN named ELSE ids \ issued

(* The bound on ids: UserIds and GroupIds do not run out in the program. *)
OutOfIds(h) == Finish(h, "failed") /\ UNCHANGED <<mapping, disk, issued, faults>>

CreateUser(h) ==
    /\ At(h, "commit", "post_user")
    /\ LET body == req[h].body
           named == UsersNamed(mapping, body.name)
       IN  \/ \E u \in Upserted(named, UserIds) :
                /\ issued' = issued \cup {u}
                /\ SetAndFlush(h, [mapping EXCEPT !.users[u] = body], "snapshot")
           \/ Upserted(named, UserIds) = {} /\ OutOfIds(h)
    /\ UNCHANGED <<live, session, policyLock, req, requests>>

(* Variant: a user that is not found is created. *)
ReadUserOrCreate(h) ==
    /\ pc[h] = "read"
    /\ LET record == mapping.users[req[h].id]
       IN  /\ old' = [old EXCEPT ![h] = record]
           /\ Goto(h, IF record = None THEN "commit" ELSE "headscale")
    /\ UNCHANGED <<mapping, disk, live, session, policyLock, req, snap, read,
                   issued, requests, faults>>

ReadUser(h) ==
    /\ pc[h] = "read"
    /\ req[h].op \in {"put_user", "delete_user"}
    /\ LET record == mapping.users[req[h].id]
       IN  IF record = None
           THEN Finish(h, "failed")
           ELSE /\ old' = [old EXCEPT ![h] = record]
                /\ Goto(h, IF req[h].op = "put_user" /\ ~ShouldExpire(record, req[h].body)
                           THEN "commit" ELSE "headscale")
                /\ UNCHANGED <<snap, read>>
    /\ UNCHANGED <<mapping, disk, live, session, policyLock, req, issued, requests, faults>>

(* The nodes whose user matches the record read, not the mapping as it is now;
   none for a record without identifier. *)
NodesOf(record) ==
    {n \in Nodes : session[n] # None /\ session[n] = ResolveKey(record)}

(* Variant: a failure to expire does not stop put_user. *)
ExpireNodesBestEffort(h) ==
    /\ At(h, "headscale", "put_user")
    /\ \/ session' = [n \in Nodes |-> IF n \in NodesOf(old[h]) THEN None ELSE session[n]]
          /\ UNCHANGED faults
       \/ Fault /\ UNCHANGED session
    /\ Goto(h, "commit")
    /\ UNCHANGED <<mapping, disk, live, policyLock, req, locals, issued, requests>>

(* expire_headscale_user_nodes expires them concurrently; on a failure any of
   them may have been expired. *)
ExpireNodes(h) ==
    /\ At(h, "headscale", "put_user")
    /\ \/ /\ session' = [n \in Nodes |-> IF n \in NodesOf(old[h]) THEN None ELSE session[n]]
          /\ Goto(h, "commit")
          /\ UNCHANGED <<locals, faults>>
       \/ /\ Fault
          /\ ResolveKey(old[h]) # None
          /\ \E S \in SUBSET NodesOf(old[h]) :
                session' = [n \in Nodes |-> IF n \in S THEN None ELSE session[n]]
          /\ Finish(h, "failed")
    /\ UNCHANGED <<mapping, disk, live, policyLock, req, issued, requests>>

(* delete_headscale_user deletes the account; its nodes go with it. *)
DeleteAccount(h) ==
    /\ At(h, "headscale", "delete_user")
    /\ LET deleted == [n \in Nodes |-> IF n \in NodesOf(old[h]) THEN None ELSE session[n]]
       IN  \/ /\ session' = deleted
              /\ Goto(h, "commit")
              /\ UNCHANGED <<locals, faults>>
           \/ /\ Fault
              /\ ResolveKey(old[h]) # None
              /\ session' \in {session, deleted}
              /\ Finish(h, "failed")
    /\ UNCHANGED <<mapping, disk, live, policyLock, req, issued, requests>>

(* put_user stores its body; it does not look again whether the user exists. *)
PutUser(h) ==
    /\ At(h, "commit", "put_user")
    /\ SetAndFlush(h, [mapping EXCEPT !.users[req[h].id] = req[h].body], "check")
    /\ UNCHANGED <<live, session, policyLock, req, issued, requests>>

CheckGroups(h) ==
    /\ At(h, "check", "put_user")
    /\ IF NeedsReconcile(h)
       THEN Goto(h, "snapshot") /\ UNCHANGED locals
       ELSE Finish(h, "ok")
    /\ UNCHANGED <<mapping, disk, live, session, policyLock, req, issued, requests, faults>>

DeleteUser(h) ==
    /\ At(h, "commit", "delete_user")
    /\ RemoveAndFlush(h, WithoutUser(mapping, req[h].id))
    /\ UNCHANGED <<live, session, policyLock, req, issued, requests>>
-----------------------------------------------------------------------------
(* Groups. *)

CreateGroup(h) ==
    /\ At(h, "commit", "post_group")
    /\ LET body == req[h].body
           named == GroupsNamed(mapping, body.name)
       IN  \/ \E g \in Upserted(named, GroupIds) :
                /\ issued' = issued \cup {g}
                /\ SetAndFlush(h, [mapping EXCEPT !.groups[g] = body], "snapshot")
           \/ Upserted(named, GroupIds) = {} /\ OutOfIds(h)
    /\ UNCHANGED <<live, session, policyLock, req, requests>>

(* Variants: a rename is never in conflict; a group that is gone is written. *)
NameNeverTaken(g, body) == FALSE

PutGroupUnchecked(h) ==
    /\ At(h, "commit", "put_group")
    /\ SetAndFlush(h, [mapping EXCEPT !.groups[req[h].id] = req[h].body], "snapshot")
    /\ UNCHANGED <<live, session, policyLock, req, issued, requests>>

(* put_group's conflict: the new name is that of another group. *)
NameTaken(g, body) ==
    /\ body.name # mapping.groups[g].name
    /\ GroupsNamed(mapping, body.name) \ {g} # {}

PutGroup(h) ==
    /\ At(h, "commit", "put_group")
    /\ LET g == req[h].id
           body == req[h].body
       IN  IF mapping.groups[g] = None \/ NameTaken(g, body)
           THEN Finish(h, "failed") /\ UNCHANGED <<mapping, disk, faults>>
           ELSE SetAndFlush(h, [mapping EXCEPT !.groups[g] = body], "snapshot")
    /\ UNCHANGED <<live, session, policyLock, req, issued, requests>>

DeleteGroup(h) ==
    /\ At(h, "commit", "delete_group")
    /\ IF mapping.groups[req[h].id] = None
       THEN Finish(h, "failed") /\ UNCHANGED <<mapping, disk, faults>>
       ELSE RemoveAndFlush(h, WithoutGroup(mapping, req[h].id))
    /\ UNCHANGED <<live, session, policyLock, req, issued, requests>>
-----------------------------------------------------------------------------
(* reconcile_groups_policy and set_group_membership. *)

Snapshot(h) ==
    /\ pc[h] = "snapshot"
    /\ snap' = [snap EXCEPT ![h] = Resolved(mapping)]
    /\ Goto(h, "lock")
    /\ UNCHANGED <<mapping, disk, live, session, policyLock, req, old, read, issued, requests, faults>>

(* Variant: no lock around the read and the write of the policy. *)
EnterUnlocked(h) ==
    /\ pc[h] = "lock"
    /\ policyLock' = h
    /\ Goto(h, "fetch")
    /\ UNCHANGED <<mapping, disk, live, session, req, locals, issued, requests, faults>>

AcquireLock(h) ==
    /\ pc[h] = "lock"
    /\ policyLock = None
    /\ policyLock' = h
    /\ Goto(h, "fetch")
    /\ UNCHANGED <<mapping, disk, live, session, req, locals, issued, requests, faults>>

(* Variants: an error leaves the lock taken; policies are compared by the names
   of their groups. *)
FetchKeepsLock(h) ==
    /\ pc[h] = "fetch"
    /\ \/ /\ read' = [read EXCEPT ![h] = live]
          /\ Goto(h, "write")
          /\ UNCHANGED <<old, snap, faults>>
       \/ Fault /\ Finish(h, "failed")
    /\ UNCHANGED <<mapping, disk, live, session, policyLock, req, issued, requests>>

FetchComparesNames(h) ==
    /\ pc[h] = "fetch"
    /\ IF DOMAIN snap[h] # KnownGroups(live)
       THEN /\ read' = [read EXCEPT ![h] = live]
            /\ Goto(h, "write")
            /\ UNCHANGED <<old, snap, policyLock>>
       ELSE policyLock' = None /\ Finish(h, "ok")
    /\ UNCHANGED <<mapping, disk, live, session, req, issued, requests, faults>>

FetchPolicy(h) ==
    /\ pc[h] = "fetch"
    /\ \/ /\ ReplaceGroups(live, snap[h]) # live
          /\ read' = [read EXCEPT ![h] = live]
          /\ Goto(h, "write")
          /\ UNCHANGED <<old, snap, policyLock, faults>>
       \/ /\ ReplaceGroups(live, snap[h]) = live
          /\ policyLock' = None
          /\ Finish(h, "ok")
          /\ UNCHANGED faults
       \/ /\ Fault
          /\ policyLock' = None
          /\ Finish(h, "failed")
    /\ UNCHANGED <<mapping, disk, live, session, req, issued, requests>>

(* A SetPolicy that reports an error may have been applied. *)
WritePolicy(h) ==
    /\ pc[h] = "write"
    /\ LET new == ReplaceGroups(read[h], snap[h])
       IN  \/ live' = new /\ Finish(h, "ok") /\ UNCHANGED faults
           \/ Fault /\ live' \in {live, new} /\ Finish(h, "failed")
    /\ policyLock' = None
    /\ UNCHANGED <<mapping, disk, session, req, issued, requests>>
-----------------------------------------------------------------------------
(* The environment. *)

(* The client goes away: the server drops the handler's future at the await it
   is at, and with it the locks it holds.  A removal dropped inside its flush
   is not undone in memory. *)
Disconnect(h) ==
    /\ Fault
    /\ pc[h] \notin Done
    /\ \/ UNCHANGED <<mapping, disk>>
       \/ /\ At(h, "commit", "delete_user")
          /\ mapping' = WithoutUser(mapping, req[h].id)
          /\ disk' \in {disk, mapping'}
       \/ /\ At(h, "commit", "delete_group")
          /\ mapping.groups[req[h].id] # None
          /\ mapping' = WithoutGroup(mapping, req[h].id)
          /\ disk' \in {disk, mapping'}
    /\ policyLock' = IF policyLock = h THEN None ELSE policyLock
    /\ Finish(h, "failed")
    /\ UNCHANGED <<live, session, req, issued, requests>>

(* The process dies and restarts: the mapping is loaded from the file.  A
   crash inside a flush is one before or after it. *)
Crash ==
    /\ Fault
    /\ mapping' = disk
    /\ policyLock' = None
    /\ pc' = [h \in Handlers |-> "idle"]
    /\ old' = [h \in Handlers |-> None]
    /\ snap' = [h \in Handlers |-> None]
    /\ read' = [h \in Handlers |-> None]
    /\ UNCHANGED <<disk, live, session, req, issued, requests>>

(* The identity provider lets an account in as long as it has not started to
   change or remove it: by the record the service holds, or by the one it is
   sending. *)
Accounts ==
    LET sent == {h \in Handlers : /\ pc[h] \notin Done
                                  /\ req[h].op \in {"put_user", "delete_user"}}
        settled == {u \in UserIds : /\ mapping.users[u] # None
                                    /\ \A h \in sent : req[h].id # u}
    IN  {mapping.users[u] : u \in settled}
            \cup {req[h].body : h \in {i \in sent : req[i].op = "put_user"}}

Login(n) ==
    /\ session[n] = None
    /\ \E account \in Accounts :
        /\ account.active
        /\ ResolveKey(account) # None
        /\ session' = [session EXCEPT ![n] = ResolveKey(account)]
    /\ UNCHANGED <<service, live, requests, faults>>
-----------------------------------------------------------------------------
Init ==
    /\ mapping = [users |-> [u \in UserIds |-> None], groups |-> [g \in GroupIds |-> None]]
    /\ disk = mapping
    /\ live \in InitialPolicies
    /\ session = [n \in Nodes |-> None]
    /\ policyLock = None
    /\ pc = [h \in Handlers |-> "idle"]
    /\ req = [h \in Handlers |-> [op |-> "reconcile"]]
    /\ old = [h \in Handlers |-> None]
    /\ snap = [h \in Handlers |-> None]
    /\ read = [h \in Handlers |-> None]
    /\ issued = {}
    /\ requests = 0
    /\ faults = 0

Proceed(h) ==
    \/ CreateUser(h) \/ ReadUser(h) \/ ExpireNodes(h) \/ DeleteAccount(h)
    \/ PutUser(h) \/ CheckGroups(h) \/ DeleteUser(h)
    \/ CreateGroup(h) \/ PutGroup(h) \/ DeleteGroup(h)
    \/ Snapshot(h) \/ FetchPolicy(h) \/ WritePolicy(h)

Next ==
    \/ \E h \in Handlers : Receive(h) \/ Proceed(h) \/ AcquireLock(h) \/ Disconnect(h)
    \/ \E n \in Nodes : Login(n)
    \/ Crash

Spec == Init /\ [][Next]_vars

(* The scheduler runs every handler that can go on, tokio's mutex serves its
   waiters in order, and calls to headscale return, with an answer or an
   error.  Nothing makes a client send requests. *)
HandlersRun ==
    \A h \in Handlers : WF_vars(Proceed(h)) /\ SF_vars(AcquireLock(h))

(* Reconcile requests keep arriving: the operator posts one whenever it has
   written the policy, and a resync of the identity provider ends in the same
   function. *)
Sync(h) == Receive(h) /\ req'[h].op = "reconcile"

SyncsRecur == SF_vars(\E h \in Handlers : Sync(h))

FairSpec == Spec /\ HandlersRun
SyncingSpec == FairSpec /\ SyncsRecur

-----------------------------------------------------------------------------
(* Properties. *)

(* No two groups have the same name, in memory or in the file a restart loads,
   however upserts, renames, failed flushes and crashes interleave: `groups`
   would otherwise get two entries under one key (create_group, put_group). *)
NamesUnique(m) == \A n \in GroupNames : \A g1, g2 \in GroupsNamed(m, n) : g1 = g2
GroupNamesUnique == NamesUnique(mapping) /\ NamesUnique(disk)

(* A handler about to SetPolicy has read the policy it is about to replace:
   among the handlers, policy_lock leaves no update to be lost. *)
NoLostUpdate == \A h \in Handlers : pc[h] = "write" => read[h] = live

(* Whatever the order of the writes, and with the stale snapshots they may
   carry, no grant of the live policy refers to a group the policy does not
   declare: headscale rejects such a policy (set_group_membership's pruning). *)
GrantsResolve == Resolves(live)

(* Pruning never removes or changes a grant that refers to no group, one with
   a side that was empty before included. *)
GroupFreeGrantsKept == [][GroupFree(live) \subseteq GroupFree(live')]_live

(* A user that is in neither the memory nor the file does not come back: the
   id of a deleted user is not found by later requests. *)
UserGone(u) == u \in issued /\ mapping.users[u] = None /\ disk.users[u] = None
UsersStayGone == [][\A u \in UserIds : UserGone(u) => mapping'.users[u] = None]_vars

(* The same of a deleted group, whose existence put_group checks under the
   lock under which it writes. *)
GroupGone(g) == g \in issued /\ mapping.groups[g] = None /\ disk.groups[g] = None
GroupsStayGone == [][\A g \in GroupIds : GroupGone(g) => mapping'.groups[g] = None]_vars

(* Whenever a user leaves the mapping, by a removal or by a restart that loads
   an older file, no group lists the user any more
   (remove_user_and_from_groups writes both in a single flush). *)
NoDanglingMember ==
    [][\A u \in UserIds : mapping.users[u] # None /\ mapping'.users[u] = None
            => GroupsListing(mapping', u) = {}]_vars

(* When put_user commits a deactivation (or a new identifier, if so
   configured) and when delete_user commits, headscale has no unexpired node
   of the identifier that the mapping held until then. *)
Revokes(h) ==
    \/ /\ At(h, "commit", "put_user")
       /\ mapping.users[req[h].id] # None
       /\ ShouldExpire(mapping.users[req[h].id], req[h].body)
    \/ /\ At(h, "commit", "delete_user")
       /\ mapping.users[req[h].id] # None
NodesExpiredFirst ==
    [][\A h \in Handlers : Revokes(h) /\ pc'[h] \in {"check", "snapshot"}
            => NodesOf(mapping.users[req[h].id]) = {}]_vars

(* When a request is answered with success, and no other is in flight, the
   live groups are those the mapping calls for, whichever earlier requests
   failed half-way; put_user for an active user answers only for the groups
   that list the user. *)
AnswerCurrent(h) ==
    IF req[h].op = "put_user" /\ req[h].body.active
    THEN \A g \in GroupsListing(mapping, req[h].id) :
            LET n == mapping.groups[g].name
            IN  n \in KnownGroups(live) /\ live.groups[n] = Resolved(mapping)[n]
    ELSE live.groups = Resolved(mapping)
AnswersCurrent == \A h \in Handlers : pc[h] = "ok" => AnswerCurrent(h)

(* The same once all of several concurrent requests have been answered with
   success, and nothing has failed. *)
QuiescentPolicyCurrent ==
    (\A h \in Handlers : pc[h] = "ok") /\ faults = 0 => live.groups = Resolved(mapping)

(* Every request is answered, or dropped. *)
RequestsFinish == \A h \in Handlers : pc[h] \notin Done ~> pc[h] \in Done

(* Once requests and faults have ended, the reconcile requests that keep
   coming bring the policy in line with the mapping, for good: stale snapshots
   and half-done requests do not outlive the next syncs. *)
SyncsHeal == <>[](live.groups = Resolved(mapping))

-----------------------------------------------------------------------------
(* The directory that the identity provider sees: the users there are, and the
   groups by their names. *)
MembersNamed(m, n) == UNION {m.groups[g].members : g \in GroupsNamed(m, n)}

DirectoryOf(m) ==
    [users |-> [u \in {v \in UserIds : m.users[v] # None} |-> m.users[u]],
     groups |-> [n \in {k \in GroupNames : GroupsNamed(m, k) # {}} |-> MembersNamed(m, n)]]

D == INSTANCE Directory
     WITH People <- UserIds, Names <- GroupNames, Records <- UserRecords,
          now <- DirectoryOf(mapping), saved <- DirectoryOf(disk)

(* Handlers that interleave, read before they lock, fail or are dropped between
   any two stages, and crash, do nothing to users and groups but whole changes of
   a directory. *)
ImplementsDirectory == D!Spec
=============================================================================
