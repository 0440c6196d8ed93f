--------------------------- MODULE ScimApartProofs ---------------------------
(***************************************************************************)
(* What the SCIM service promises as long as requests are kept apart.      *)
(*                                                                         *)
(* put_user and delete_user look the user up, release the mapping lock for *)
(* their calls to headscale, and commit without a second look.  Two of     *)
(* them at work on one user therefore break what a single one keeps (run   *)
(* scim_stale).  The first part shows that nothing else does: with any     *)
(* number of handlers, faults and crashes, the promises about users hold   *)
(* as long as no two requests in flight are about the same user.  The      *)
(* second part is about requests that come strictly one after another.     *)
(***************************************************************************)
EXTENDS ScimProofs

InFlight(h) == pc[h] \notin Done

(* The users a request may change: an upsert has those of the name it posts. *)
Targets(h) ==
    CASE req[h].op \in {"put_user", "delete_user"} -> {req[h].id}
      [] req[h].op = "post_user"                   -> UsersNamed(mapping, req[h].body.name)
      [] OTHER                                     -> {}

(* Hypothesis: no two requests in flight are about the same user. *)
UsersApart ==
    \A g, h \in Handlers :
        InFlight(g) /\ InFlight(h) /\ Targets(g) \cap Targets(h) # {} => g = h

(* Hypothesis: no user has the identifier of another, as stored or as sent. *)
IdentifiersUnique ==
    \A u \in UserIds :
        mapping.users[u] # None /\ ResolveKey(mapping.users[u]) # None =>
            /\ \A v \in UserIds \ {u} : mapping.users[v] # None
                    => ResolveKey(mapping.users[v]) # ResolveKey(mapping.users[u])
            /\ \A h \in Handlers : InFlight(h) /\ req[h].op = "put_user" /\ req[h].id # u
                    => ResolveKey(req[h].body) # ResolveKey(mapping.users[u])

-----------------------------------------------------------------------------
(* The inductive invariant. *)

(* The ids a request names were given out. *)
RequestsValid == \A h \in Handlers : InFlight(h) => Valid(req[h])

(* Between its lookup and its commit, the user a request is about stays, and
   stays as it was read. *)
Found ==
    \A h \in Handlers :
        pc[h] \in {"headscale", "commit"} /\ req[h].op \in {"put_user", "delete_user"}
            => mapping.users[req[h].id] # None /\ old[h] = mapping.users[req[h].id]

(* A user that is not in the file is listed by no group of the file. *)
MembersIssued(m) ==
    \A g \in GroupIds : m.groups[g] # None => m.groups[g].members \subseteq issued

Unlisted ==
    /\ MembersIssued(mapping) /\ MembersIssued(disk)
    /\ \A u \in UserIds :
        mapping.users[u] # None /\ disk.users[u] = None => GroupsListing(disk, u) = {}

(* The nodes of a user about to be revoked are expired, and stay so. *)
Wiped == \A h \in Handlers : Revokes(h) => NodesOf(mapping.users[req[h].id]) = {}

-----------------------------------------------------------------------------
(* What a step does to one handler, to the users and to the sessions. *)

Steps(h) == Receive(h) \/ Proceed(h) \/ AcquireLock(h) \/ Disconnect(h)

(* A handler's step leaves the other handlers where they are. *)
LEMMA OthersRest ==
    ASSUME Typed, NEW i \in Handlers, Steps(i), NEW h \in Handlers \ {i}
    PROVE  UNCHANGED <<pc[h], req[h], old[h], snap[h]>>
  <1> USE DEF Typed, TypeOK
  <1>1. CASE Receive(i)
    BY <1>1 DEF Receive, Goto, locals
  <1>2. CASE CreateUser(i) \/ PutUser(i) \/ DeleteUser(i)
                 \/ CreateGroup(i) \/ PutGroup(i) \/ DeleteGroup(i)
    BY <1>2 DEF CreateUser, PutUser, DeleteUser, CreateGroup, PutGroup, DeleteGroup, OutOfIds,
           SetAndFlush, RemoveAndFlush, Finish, Goto, locals
  <1>3. CASE ReadUser(i) \/ ExpireNodes(i) \/ DeleteAccount(i) \/ CheckGroups(i)
    BY <1>3 DEF ReadUser, ExpireNodes, DeleteAccount, CheckGroups, Finish, Goto, locals
  <1>4. CASE Snapshot(i) \/ AcquireLock(i) \/ FetchPolicy(i) \/ WritePolicy(i) \/ Disconnect(i)
    BY <1>4 DEF Snapshot, AcquireLock, FetchPolicy, WritePolicy, Disconnect, Finish, Goto, locals
  <1> QED
    BY <1>1, <1>2, <1>3, <1>4 DEF Steps, Proceed

(* A handler changes its stage, request, record and snapshot itself, or in a crash. *)
LEMMA OwnSteps ==
    ASSUME Typed, [Next]_vars, NEW h \in Handlers
    PROVE  \/ UNCHANGED <<pc[h], req[h], old[h], snap[h]>>
           \/ Receive(h) \/ Proceed(h) \/ AcquireLock(h) \/ Disconnect(h)
           \/ Crash
  <1>1. ASSUME NEW i \in Handlers \ {h}, Steps(i)
        PROVE  UNCHANGED <<pc[h], req[h], old[h], snap[h]>>
    BY <1>1, OthersRest
  <1>2. CASE (\E n \in Nodes : Login(n)) \/ UNCHANGED vars
    BY <1>2 DEF Login, vars, service, locals
  <1> QED
    BY <1>1, <1>2 DEF Next, Steps

(* A user's record changes in a crash, or because a request about the user
   commits or is dropped in its commit, or because the id is fresh. *)
LEMMA UserChanges ==
    ASSUME Typed, [Next]_vars, NEW u \in UserIds, mapping'.users[u] # mapping.users[u]
    PROVE  \/ Crash
           \/ u \notin issued
           \/ \E h \in Handlers : pc[h] = "commit" /\ pc'[h] # "commit" /\ u \in Targets(h)
  <1> USE DEF Typed
  <1>0. mapping \in Mappings /\ pc \in [Handlers -> Stages]
    BY DEF TypeOK
  <1>1. ASSUME NEW h \in Handlers, CreateUser(h)
        PROVE  u \notin issued \/ (pc[h] = "commit" /\ pc'[h] # "commit" /\ u \in Targets(h))
    <2>1. PICK v \in Upserted(UsersNamed(mapping, req[h].body.name), UserIds) :
                mapping' = [mapping EXCEPT !.users[v] = req[h].body]
      BY <1>1 DEF CreateUser, OutOfIds, SetAndFlush
    <2>2. v = u
      BY <1>0, <2>1 DEF Mappings
    <2>3. pc[h] = "commit" /\ req[h].op = "post_user"
      BY <1>1 DEF CreateUser, At
    <2>4. pc'[h] # "commit"
      BY <1>0, <1>1 DEF CreateUser, OutOfIds, SetAndFlush, Finish, Goto
    <2> QED
      BY <2>1, <2>2, <2>3, <2>4 DEF Upserted, Targets
  <1>2. ASSUME NEW h \in Handlers, PutUser(h)
        PROVE  pc[h] = "commit" /\ pc'[h] # "commit" /\ u \in Targets(h)
    <2>1. mapping' = [mapping EXCEPT !.users[req[h].id] = req[h].body]
      BY <1>2 DEF PutUser, SetAndFlush
    <2>2. req[h].id = u
      BY <1>0, <2>1 DEF Mappings
    <2> QED
      BY <1>0, <1>2, <2>2 DEF PutUser, At, SetAndFlush, Finish, Goto, Targets
  <1>3. ASSUME NEW h \in Handlers, DeleteUser(h) \/ Disconnect(h)
        PROVE  pc[h] = "commit" /\ pc'[h] # "commit" /\ u \in Targets(h)
    <2>1. /\ At(h, "commit", "delete_user")
          /\ mapping' = WithoutUser(mapping, req[h].id)
      BY <1>3, <1>0 DEF DeleteUser, RemoveAndFlush, Disconnect, WithoutGroup, Mappings
    <2>2. req[h].id = u
      BY <1>0, <2>1 DEF Mappings, WithoutUser
    <2> QED
      BY <1>0, <1>3, <2>1, <2>2
         DEF DeleteUser, RemoveAndFlush, Disconnect, At, Finish, Goto, Targets
  <1>4. ASSUME NEW h \in Handlers, CreateGroup(h) \/ PutGroup(h) \/ DeleteGroup(h) PROVE FALSE
    BY <1>0, <1>4 DEF CreateGroup, PutGroup, DeleteGroup, OutOfIds, SetAndFlush, RemoveAndFlush,
           WithoutGroup, Mappings
  <1>5. \/ \E h \in Handlers : \/ CreateUser(h) \/ PutUser(h) \/ DeleteUser(h)
                               \/ CreateGroup(h) \/ PutGroup(h) \/ DeleteGroup(h)
                               \/ Disconnect(h)
        \/ Crash
        \/ UNCHANGED mapping
    BY DEF Next, Proceed, Receive, AcquireLock, Login, ReadUser, ExpireNodes, DeleteAccount,
           CheckGroups, Snapshot, FetchPolicy, WritePolicy, vars, service
  <1> QED
    BY <1>1, <1>2, <1>3, <1>4, <1>5

(* A node loses its session, or logs in. *)
LEMMA SessionChanges ==
    ASSUME Typed, [Next]_vars, NEW n \in Nodes, session'[n] # session[n], session'[n] # None
    PROVE  /\ UNCHANGED service
           /\ \E account \in Accounts : account.active /\ ResolveKey(account) = session'[n]
  <1> USE DEF Typed
  <1>0. session \in [Nodes -> Tokens \cup {None}]
    BY DEF TypeOK
  <1>1. ASSUME NEW h \in Handlers, ExpireNodes(h) \/ DeleteAccount(h) PROVE FALSE
    BY <1>0, <1>1 DEF ExpireNodes, DeleteAccount
  <1>2. ASSUME NEW k \in Nodes, Login(k)
        PROVE  /\ UNCHANGED service
               /\ \E account \in Accounts : account.active /\ ResolveKey(account) = session'[n]
    BY <1>0, <1>2 DEF Login
  <1>3. \/ \E h \in Handlers : ExpireNodes(h) \/ DeleteAccount(h)
        \/ \E k \in Nodes : Login(k)
        \/ UNCHANGED session
    BY DEF Next, Proceed, Receive, AcquireLock, Disconnect, ReadUser, CreateUser, PutUser,
           CheckGroups, DeleteUser, CreateGroup, PutGroup, DeleteGroup, Snapshot, FetchPolicy,
           WritePolicy, Crash, vars
  <1> QED
    BY <1>1, <1>2, <1>3

-----------------------------------------------------------------------------
(* Requests name ids that were given out. *)

LEMMA ValidNext == Typed /\ RequestsValid /\ [Next]_vars => RequestsValid'
  <1> SUFFICES ASSUME Typed, RequestsValid, [Next]_vars, NEW h \in Handlers, InFlight(h)'
               PROVE  Valid(req[h])'
    BY DEF RequestsValid
  <1>1. issued \subseteq issued'
    BY Effects
  <1>2. CASE InFlight(h) /\ req'[h] = req[h]
    BY <1>1, <1>2 DEF RequestsValid, Valid
  <1>3. CASE UNCHANGED <<pc[h], req[h]>>
    BY <1>2, <1>3 DEF InFlight
  <1>4. CASE Receive(h)
    BY <1>4 DEF Receive, Valid, Typed, TypeOK
  <1>5. CASE Proceed(h) \/ AcquireLock(h) \/ Disconnect(h)
    BY <1>2, <1>5 DEF Proceed, CreateUser, ReadUser, ExpireNodes, DeleteAccount, PutUser,
           CheckGroups, DeleteUser, CreateGroup, PutGroup, DeleteGroup, Snapshot, FetchPolicy,
           WritePolicy, AcquireLock, Disconnect, At, InFlight, Done
  <1>6. CASE Crash
    BY <1>6 DEF Crash, InFlight, Done
  <1> QED
    BY <1>3, <1>4, <1>5, <1>6, OwnSteps

-----------------------------------------------------------------------------
(* The user a request is about. *)

(* While a request is between lookup and commit, no step changes its user's
   record but its own commit. *)
LEMMA TargetKept ==
    ASSUME Typed, RequestsValid, UsersApart, [Next]_vars, NEW h \in Handlers,
           pc[h] \in {"headscale", "commit"}, pc'[h] \in {"headscale", "commit"},
           req[h].op \in {"put_user", "delete_user"}
    PROVE  mapping'.users[req[h].id] = mapping.users[req[h].id]
  <1> DEFINE u == req[h].id
  <1>1. u \in UserIds /\ u \in issued /\ InFlight(h) /\ u \in Targets(h)
    BY RequestTypes DEF Typed, TypeOK, RequestsValid, Valid, InFlight, Done, Targets
  <1>2. ~Crash
    BY DEF Crash
  <1>3. ASSUME NEW g \in Handlers, pc[g] = "commit", pc'[g] # "commit", u \in Targets(g)
        PROVE  FALSE
    <2>1. g = h
      BY <1>1, <1>3 DEF UsersApart, InFlight, Done
    <2>2. pc[h] = "commit" /\ pc'[h] = "headscale"
      BY <1>3, <2>1
    <2>3. ~(Receive(h) \/ AcquireLock(h) \/ Disconnect(h))
      BY <2>2 DEF Receive, AcquireLock, Disconnect, Finish, Goto, Typed, TypeOK, Done
    <2>4. ~Proceed(h)
      BY <2>2 DEF Proceed, CreateUser, ReadUser, ExpireNodes, DeleteAccount, PutUser,
           CheckGroups, DeleteUser, CreateGroup, PutGroup, DeleteGroup, Snapshot, FetchPolicy,
           WritePolicy, At, OutOfIds, SetAndFlush, RemoveAndFlush, Finish, Goto, Typed, TypeOK
    <2> QED
      BY <1>2, <2>2, <2>3, <2>4, OwnSteps
  <1> QED
    BY <1>1, <1>2, <1>3, UserChanges

LEMMA FoundNext ==
    Typed /\ RequestsValid /\ UsersApart /\ Found /\ [Next]_vars => Found'
  <1> SUFFICES ASSUME Typed, RequestsValid, UsersApart, Found, [Next]_vars,
                      NEW h \in Handlers,
                      pc'[h] \in {"headscale", "commit"},
                      req'[h].op \in {"put_user", "delete_user"}
               PROVE  mapping'.users[req'[h].id] # None /\ old'[h] = mapping'.users[req'[h].id]
    BY DEF Found
  <1> USE DEF Typed, TypeOK
  <1>1. CASE UNCHANGED <<pc[h], req[h], old[h]>>
    BY <1>1, TargetKept DEF Found
  <1>2. CASE ReadUser(h)
    <2>1. mapping.users[req[h].id] # None
      BY <1>2 DEF ReadUser, Finish, Goto
    <2> QED
      BY <1>2, <2>1 DEF ReadUser
  <1>3. CASE ExpireNodes(h) \/ DeleteAccount(h)
    <2>1. pc[h] = "headscale" /\ UNCHANGED <<req, old>>
      BY <1>3 DEF ExpireNodes, DeleteAccount, At, Finish, Goto, locals
    <2> QED
      BY <2>1, TargetKept DEF Found
  <1>4. CASE Receive(h)
    BY <1>4 DEF Receive, Goto, FirstStage
  <1>5. CASE Crash
    BY <1>5 DEF Crash
  <1>6. ~(AcquireLock(h) \/ Disconnect(h))
    BY DEF AcquireLock, Disconnect, Finish, Goto
  <1>7. ~(Proceed(h) /\ ~ReadUser(h) /\ ~ExpireNodes(h) /\ ~DeleteAccount(h))
    BY DEF Proceed, CreateUser, PutUser, CheckGroups, DeleteUser, CreateGroup, PutGroup,
           DeleteGroup, Snapshot, FetchPolicy, WritePolicy, At, OutOfIds, SetAndFlush,
           RemoveAndFlush, Finish, Goto
  <1> QED
    BY <1>1, <1>2, <1>3, <1>4, <1>5, <1>6, <1>7, OwnSteps

-----------------------------------------------------------------------------
(* Users that leave. *)

(* What a step does to the mapping and the file, as far as users and members
   are concerned: a user is written that is there or has a fresh id, and a
   group lists users that were given out. *)
UserEffect ==
    \/ UNCHANGED <<mapping, disk>>
    \/ mapping' = disk /\ UNCHANGED disk
    \/ \E u \in UserIds, record \in UserRecords :
        /\ Written([mapping EXCEPT !.users[u] = record])
        /\ mapping.users[u] # None \/ u \notin issued
    \/ \E u \in UserIds : Taken(WithoutUser(mapping, u))
    \/ \E g \in GroupIds, body \in GroupRecords :
        Written([mapping EXCEPT !.groups[g] = body]) /\ body.members \subseteq issued
    \/ \E g \in GroupIds : Taken(WithoutGroup(mapping, g))

LEMMA UserEffects == Typed /\ RequestsValid /\ Found /\ [Next]_vars => UserEffect
  <1> SUFFICES ASSUME Typed, RequestsValid, Found, [Next]_vars PROVE UserEffect
    OBVIOUS
  <1> USE DEF Typed
  <1>1. ASSUME NEW h \in Handlers, CreateUser(h) PROVE UserEffect
    <2> DEFINE named == UsersNamed(mapping, req[h].body.name)
    <2>1. req[h].body \in UserRecords
      BY <1>1, RequestTypes DEF CreateUser, At, TypeOK
    <2>2. \A u \in Upserted(named, UserIds) :
            u \in UserIds /\ (mapping.users[u] # None \/ u \notin issued)
      BY DEF Upserted, UsersNamed
    <2>3. \/ UNCHANGED <<mapping, disk>>
          \/ \E u \in Upserted(named, UserIds) : Written([mapping EXCEPT !.users[u] = req[h].body])
      BY <1>1 DEF CreateUser, OutOfIds, SetAndFlush, Written
    <2> QED
      BY <2>1, <2>2, <2>3 DEF UserEffect
  <1>2. ASSUME NEW h \in Handlers, PutUser(h) PROVE UserEffect
    <2>1. /\ req[h].id \in UserIds /\ req[h].body \in UserRecords
          /\ mapping.users[req[h].id] # None
      BY <1>2, RequestTypes DEF PutUser, At, TypeOK, Found
    <2> QED
      BY <1>2, <2>1 DEF PutUser, SetAndFlush, Written, UserEffect
  <1>3. ASSUME NEW h \in Handlers, DeleteUser(h) PROVE UserEffect
    <2>1. req[h].id \in UserIds
      BY <1>3, RequestTypes DEF DeleteUser, At, TypeOK
    <2> QED
      BY <1>3, <2>1 DEF DeleteUser, RemoveAndFlush, Taken, UserEffect
  <1>4. ASSUME NEW h \in Handlers, CreateGroup(h) \/ PutGroup(h) PROVE UserEffect
    <2>1. /\ req[h].op \in {"post_group", "put_group"} /\ pc[h] = "commit"
          /\ req[h].body \in GroupRecords
      BY <1>4, RequestTypes DEF CreateGroup, PutGroup, At, TypeOK
    <2>2. req[h].body.members \subseteq issued
      BY <2>1 DEF RequestsValid, InFlight, Done, Valid
    <2>3. \/ UNCHANGED <<mapping, disk>>
          \/ \E g \in GroupIds : Written([mapping EXCEPT !.groups[g] = req[h].body])
      BY <1>4, RequestTypes DEF CreateGroup, PutGroup, OutOfIds, SetAndFlush, Written, Upserted,
           GroupsNamed, At, TypeOK
    <2> QED
      BY <2>1, <2>2, <2>3 DEF UserEffect
  <1>5. ASSUME NEW h \in Handlers, DeleteGroup(h) PROVE UserEffect
    <2>1. req[h].id \in GroupIds
      BY <1>5, RequestTypes DEF DeleteGroup, At, TypeOK
    <2> QED
      BY <1>5, <2>1 DEF DeleteGroup, RemoveAndFlush, Taken, UserEffect
  <1>6. ASSUME NEW h \in Handlers, Disconnect(h) PROVE UserEffect
    <2>1. /\ req[h].op = "delete_user" => req[h].id \in UserIds
          /\ req[h].op = "delete_group" => req[h].id \in GroupIds
      BY <1>6, RequestTypes DEF TypeOK
    <2> QED
      BY <1>6, <2>1 DEF Disconnect, At, Taken, UserEffect
  <1>7. CASE Crash
    BY <1>7 DEF Crash, UserEffect
  <1>8. \/ \E h \in Handlers : \/ CreateUser(h) \/ PutUser(h) \/ DeleteUser(h)
                               \/ CreateGroup(h) \/ PutGroup(h) \/ DeleteGroup(h)
                               \/ Disconnect(h)
        \/ Crash
        \/ UNCHANGED <<mapping, disk>>
    BY DEF Next, Proceed, Receive, AcquireLock, Login, ReadUser, ExpireNodes, DeleteAccount,
           CheckGroups, Snapshot, FetchPolicy, WritePolicy, vars, service
  <1> QED
    BY <1>1, <1>2, <1>3, <1>4, <1>5, <1>6, <1>7, <1>8 DEF UserEffect

(* remove_user_and_from_groups, component by component. *)
LEMMA WithoutUserShape ==
    ASSUME NEW m \in Mappings, NEW u \in UserIds
    PROVE  /\ WithoutUser(m, u).users = [m.users EXCEPT ![u] = None]
           /\ \A g \in GroupIds :
                /\ WithoutUser(m, u).groups[g] = None <=> m.groups[g] = None
                /\ m.groups[g] # None
                    => WithoutUser(m, u).groups[g].members = m.groups[g].members \ {u}
           /\ GroupsListing(WithoutUser(m, u), u) = {}
  <1>1. /\ WithoutUser(m, u).users = [m.users EXCEPT ![u] = None]
        /\ \A g \in GroupIds :
              /\ WithoutUser(m, u).groups[g] = None <=> m.groups[g] = None
              /\ m.groups[g] # None
                  => WithoutUser(m, u).groups[g].members = m.groups[g].members \ {u}
    BY ScimConstants DEF WithoutUser, Mappings, GroupRecords
  <1> QED
    BY <1>1 DEF GroupsListing

LEMMA UnlistedNext == Typed /\ RequestsValid /\ Found /\ Unlisted /\ [Next]_vars => Unlisted'
  <1> SUFFICES ASSUME Typed, RequestsValid, Found, Unlisted, [Next]_vars PROVE Unlisted'
    OBVIOUS
  <1> DEFINE Apart(m, d) == \A v \in UserIds : m.users[v] # None /\ d.users[v] = None
                                => GroupsListing(d, v) = {}
  <1>1. UserEffect /\ issued \subseteq issued'
    BY UserEffects, Effects
  <1>2. mapping \in Mappings /\ disk \in Mappings
    BY DEF Typed, TypeOK
  <1>3. MembersIssued(mapping) /\ MembersIssued(disk) /\ Apart(mapping, disk)
    BY DEF Unlisted
  <1>4. ASSUME MembersIssued(mapping'), MembersIssued(disk'), Apart(mapping', disk')
        PROVE  Unlisted'
    BY <1>1, <1>4 DEF Unlisted, MembersIssued, GroupsListing
  <1>5. CASE UNCHANGED <<mapping, disk>> \/ (mapping' = disk /\ UNCHANGED disk)
    BY <1>3, <1>4, <1>5
  <1>6. ASSUME NEW u \in UserIds, NEW record \in UserRecords,
               Written([mapping EXCEPT !.users[u] = record]),
               mapping.users[u] # None \/ u \notin issued
        PROVE  Unlisted'
    <2> DEFINE new == [mapping EXCEPT !.users[u] = record]
    <2>1. new.groups = mapping.groups /\ new.users = [mapping.users EXCEPT ![u] = record]
      BY <1>2 DEF Mappings
    <2>2. MembersIssued(new)
      BY <1>3, <2>1 DEF MembersIssued
    <2>3. u \notin issued => GroupsListing(disk, u) = {}
      BY <1>3 DEF MembersIssued, GroupsListing
    <2>4. \A v \in UserIds \ {u} : new.users[v] = mapping.users[v]
      BY <1>2, <2>1 DEF Mappings
    <2> HIDE DEF new
    <2>5. Apart(new, disk)
      BY <1>3, <1>6, <2>3, <2>4
    <2> QED
      BY <1>3, <1>4, <1>6, <2>2, <2>5 DEF Written, new
  <1>7. ASSUME NEW u \in UserIds, Taken(WithoutUser(mapping, u)) PROVE Unlisted'
    <2> DEFINE new == WithoutUser(mapping, u)
    <2>1. /\ new.users = [mapping.users EXCEPT ![u] = None]
          /\ \A g \in GroupIds :
                /\ new.groups[g] = None <=> mapping.groups[g] = None
                /\ mapping.groups[g] # None => new.groups[g].members = mapping.groups[g].members \ {u}
          /\ GroupsListing(new, u) = {}
      BY <1>2, WithoutUserShape
    <2> HIDE DEF new
    <2>2. MembersIssued(new)
      BY <1>3, <2>1 DEF MembersIssued
    <2>3. \A v \in UserIds : new.users[v] = IF v = u THEN None ELSE mapping.users[v]
      BY <1>2, <2>1 DEF Mappings
    <2>4. Apart(new, disk) /\ Apart(mapping, new)
      BY <1>3, <2>1, <2>3
    <2> QED
      BY <1>3, <1>4, <1>7, <2>2, <2>4 DEF Taken, new
  <1>8. ASSUME NEW g \in GroupIds, NEW body \in GroupRecords,
               Written([mapping EXCEPT !.groups[g] = body]), body.members \subseteq issued
        PROVE  Unlisted'
    <2> DEFINE new == [mapping EXCEPT !.groups[g] = body]
    <2>1. new.users = mapping.users /\ new.groups = [mapping.groups EXCEPT ![g] = body]
      BY <1>2 DEF Mappings
    <2> HIDE DEF new
    <2>2. MembersIssued(new)
      BY <1>2, <1>3, <1>8, <2>1 DEF MembersIssued, Mappings
    <2>3. Apart(new, disk)
      BY <1>3, <2>1
    <2> QED
      BY <1>3, <1>4, <1>8, <2>2, <2>3 DEF Written, new
  <1>9. ASSUME NEW g \in GroupIds, Taken(WithoutGroup(mapping, g)) PROVE Unlisted'
    <2> DEFINE new == WithoutGroup(mapping, g)
    <2>1. new.users = mapping.users /\ new.groups = [mapping.groups EXCEPT ![g] = None]
      BY <1>2 DEF Mappings, WithoutGroup
    <2> HIDE DEF new
    <2>2. MembersIssued(new)
      BY <1>2, <1>3, <2>1 DEF MembersIssued, Mappings
    <2>3. Apart(new, disk) /\ Apart(mapping, new)
      BY <1>3, <2>1
    <2> QED
      BY <1>3, <1>4, <1>9, <2>2, <2>3 DEF Taken, new
  <1> QED
    BY <1>1, <1>5, <1>6, <1>7, <1>8, <1>9 DEF UserEffect

LEMMA UsersGoneNext ==
    Typed /\ RequestsValid /\ Found /\ [Next]_vars
        => \A u \in UserIds : UserGone(u) => mapping'.users[u] = None
  <1> SUFFICES ASSUME Typed, RequestsValid, Found, [Next]_vars, NEW v \in UserIds, UserGone(v)
               PROVE  mapping'.users[v] = None
    OBVIOUS
  <1>1. UserEffect
    BY UserEffects
  <1>2. mapping \in Mappings
    BY DEF Typed, TypeOK
  <1>3. v \in issued /\ mapping.users[v] = None /\ disk.users[v] = None
    BY DEF UserGone
  <1>4. ASSUME NEW u \in UserIds, NEW record \in UserRecords,
               Written([mapping EXCEPT !.users[u] = record]),
               mapping.users[u] # None \/ u \notin issued
        PROVE  mapping'.users[v] = None
    BY <1>2, <1>3, <1>4 DEF Written, Mappings
  <1>5. ASSUME NEW u \in UserIds, Taken(WithoutUser(mapping, u)) PROVE mapping'.users[v] = None
    <2>1. WithoutUser(mapping, u).users = [mapping.users EXCEPT ![u] = None]
      BY <1>2, WithoutUserShape
    <2> QED
      BY <1>2, <1>3, <1>5, <2>1 DEF Taken, Mappings
  <1>6. ASSUME NEW g \in GroupIds, NEW body \in GroupRecords,
               Written([mapping EXCEPT !.groups[g] = body])
        PROVE  mapping'.users[v] = None
    BY <1>2, <1>3, <1>6 DEF Written, Mappings
  <1>7. ASSUME NEW g \in GroupIds, Taken(WithoutGroup(mapping, g)) PROVE mapping'.users[v] = None
    BY <1>2, <1>3, <1>7 DEF Taken, WithoutGroup, Mappings
  <1> QED
    BY <1>1, <1>3, <1>4, <1>5, <1>6, <1>7 DEF UserEffect

LEMMA DanglingNext ==
    Typed /\ RequestsValid /\ Found /\ Unlisted /\ [Next]_vars
        => \A u \in UserIds : mapping.users[u] # None /\ mapping'.users[u] = None
                => GroupsListing(mapping', u) = {}
  <1> SUFFICES ASSUME Typed, RequestsValid, Found, Unlisted, [Next]_vars, NEW v \in UserIds,
                      mapping.users[v] # None, mapping'.users[v] = None
               PROVE  GroupsListing(mapping', v) = {}
    OBVIOUS
  <1>1. UserEffect
    BY UserEffects
  <1>2. mapping \in Mappings
    BY DEF Typed, TypeOK
  <1>3. CASE mapping' = disk
    BY <1>3 DEF Unlisted, GroupsListing
  <1>4. ASSUME NEW u \in UserIds, NEW record \in UserRecords,
               Written([mapping EXCEPT !.users[u] = record])
        PROVE  FALSE
    BY <1>2, <1>4, ScimConstants DEF Written, Mappings
  <1>5. ASSUME NEW u \in UserIds, Taken(WithoutUser(mapping, u))
        PROVE  GroupsListing(mapping', v) = {}
    <2>1. WithoutUser(mapping, u).users = [mapping.users EXCEPT ![u] = None]
      BY <1>2, WithoutUserShape
    <2>2. mapping' = WithoutUser(mapping, u) /\ u = v
      BY <1>2, <1>5, <2>1 DEF Taken, Mappings
    <2> QED
      BY <1>2, <2>2, WithoutUserShape
  <1>6. ASSUME NEW g \in GroupIds, NEW body \in GroupRecords,
               Written([mapping EXCEPT !.groups[g] = body])
        PROVE  FALSE
    BY <1>2, <1>6 DEF Written, Mappings
  <1>7. ASSUME NEW g \in GroupIds, Taken(WithoutGroup(mapping, g)) PROVE FALSE
    BY <1>2, <1>7 DEF Taken, WithoutGroup, Mappings
  <1> QED
    BY <1>1, <1>3, <1>4, <1>5, <1>6, <1>7 DEF UserEffect

-----------------------------------------------------------------------------
(* Users that are revoked. *)

(* No account lets a node in under the identifier of a user being revoked. *)
LEMMA NoLoginAs ==
    ASSUME Typed, UsersApart, IdentifiersUnique, NEW h \in Handlers, Revokes(h),
           NEW account \in Accounts, account.active, ResolveKey(account) # None
    PROVE  ResolveKey(account) # ResolveKey(mapping.users[req[h].id])
  <1> DEFINE u == req[h].id
             record == mapping.users[u]
  <1> SUFFICES ASSUME ResolveKey(account) = ResolveKey(record) PROVE FALSE
    OBVIOUS
  <1>1. /\ u \in UserIds /\ record # None /\ InFlight(h) /\ ResolveKey(record) # None
        /\ req[h].op \in {"put_user", "delete_user"}
    BY RequestTypes DEF Revokes, At, InFlight, Done, Typed, TypeOK
  <1>2. ASSUME NEW v \in UserIds, mapping.users[v] # None, account = mapping.users[v], v # u
        PROVE  FALSE
    BY <1>1, <1>2 DEF IdentifiersUnique
  <1>3. ASSUME NEW i \in Handlers, InFlight(i), req[i].op = "put_user", account = req[i].body, i # h
        PROVE  FALSE
    <2>1. u # req[i].id
      BY <1>1, <1>3 DEF UsersApart, Targets
    <2> QED
      BY <1>1, <1>3, <2>1 DEF IdentifiersUnique
  <1>4. ASSUME req[h].op = "put_user", account = req[h].body PROVE FALSE
    <2>1. ShouldExpire(record, account)
      BY <1>4 DEF Revokes, At
    <2> QED
      BY <2>1 DEF ShouldExpire, IdentifierChanged, ResolveKey
  <1>5. \/ \E v \in UserIds : mapping.users[v] # None /\ account = mapping.users[v] /\ v # u
        \/ \E i \in Handlers : InFlight(i) /\ req[i].op = "put_user" /\ account = req[i].body
    BY <1>1 DEF Accounts, InFlight
  <1> QED
    BY <1>2, <1>3, <1>4, <1>5

LEMMA WipedNext ==
    Typed /\ RequestsValid /\ Found /\ Wiped /\ UsersApart /\ IdentifiersUnique /\ [Next]_vars
        => Wiped'
  <1> SUFFICES ASSUME Typed, RequestsValid, Found, Wiped, UsersApart, IdentifiersUnique, [Next]_vars,
                      NEW h \in Handlers, Revokes(h)',
                      NEW n \in Nodes, session'[n] # None,
                      session'[n] = ResolveKey(mapping'.users[req'[h].id])
               PROVE  FALSE
    BY DEF Wiped, NodesOf, ResolveKey
  <1> USE DEF Typed
  <1>1. /\ pc'[h] = "commit" /\ req'[h].op \in {"put_user", "delete_user"}
        /\ mapping'.users[req'[h].id] # None
        /\ req'[h].op = "put_user" => ShouldExpire(mapping'.users[req'[h].id], req'[h].body)
    BY DEF Revokes, At, ShouldExpire, IdentifierChanged
  <1>2. CASE UNCHANGED <<pc[h], req[h], old[h]>>
    <2>1. mapping'.users[req[h].id] = mapping.users[req[h].id]
      BY <1>1, <1>2, TargetKept
    <2>2. Revokes(h)
      BY <1>1, <1>2, <2>1 DEF Revokes, At
    <2>3. session[n] # session'[n]
      BY <1>2, <2>1, <2>2 DEF Wiped, NodesOf
    <2>4. PICK account \in Accounts : account.active /\ ResolveKey(account) = session'[n]
      BY <2>3, SessionChanges
    <2> QED
      BY <1>2, <2>1, <2>2, <2>4, NoLoginAs
  <1>3. CASE ReadUser(h)
    BY <1>1, <1>3 DEF ReadUser, Goto, Finish, TypeOK
  <1>4. CASE ExpireNodes(h) \/ DeleteAccount(h)
    <2>1. /\ pc[h] = "headscale" /\ UNCHANGED <<mapping, req>>
          /\ session' = [k \in Nodes |-> IF k \in NodesOf(old[h]) THEN None ELSE session[k]]
      BY <1>1, <1>4 DEF ExpireNodes, DeleteAccount, At, Finish, Goto, TypeOK
    <2>2. old[h] = mapping.users[req[h].id]
      BY <1>1, <2>1 DEF Found
    <2> QED
      BY <2>1, <2>2 DEF NodesOf
  <1>5. ~Receive(h)
    BY <1>1 DEF Receive, Goto, FirstStage, TypeOK
  <1>6. ~(AcquireLock(h) \/ Disconnect(h) \/ Crash)
    BY <1>1 DEF AcquireLock, Disconnect, Crash, Finish, Goto, TypeOK
  <1>7. ~(Proceed(h) /\ ~ReadUser(h) /\ ~ExpireNodes(h) /\ ~DeleteAccount(h))
    BY <1>1 DEF Proceed, CreateUser, PutUser, CheckGroups, DeleteUser, CreateGroup, PutGroup,
           DeleteGroup, Snapshot, FetchPolicy, WritePolicy, At, OutOfIds, SetAndFlush,
           RemoveAndFlush, Finish, Goto, TypeOK
  <1> QED
    BY <1>2, <1>3, <1>4, <1>5, <1>6, <1>7, OwnSteps

LEMMA ApartInit == Init => RequestsValid /\ Found /\ Unlisted /\ Wiped
  BY DEF Init, RequestsValid, InFlight, Done, Found, Unlisted, MembersIssued, Wiped, Revokes, At

(* A deleted user does not come back, with any number of handlers and whatever
   fails, unless two requests are at work on one user. *)
THEOREM UsersNeverReturn == Spec /\ []UsersApart => UsersStayGone
  <1>1. Typed /\ RequestsValid /\ Found /\ [Next]_vars
          => [\A u \in UserIds : UserGone(u) => mapping'.users[u] = None]_vars
    BY UsersGoneNext
  <1> QED
    BY <1>1, TypedInit, TypedNext, ApartInit, ValidNext, FoundNext, PTL DEF Spec, UsersStayGone

(* No removal, and no restart that loads an older file, leaves a group that
   lists a user who has just gone. *)
THEOREM NoMemberDangles == Spec /\ []UsersApart => NoDanglingMember
  <1>1. Typed /\ RequestsValid /\ Found /\ Unlisted /\ [Next]_vars
          => [\A u \in UserIds : mapping.users[u] # None /\ mapping'.users[u] = None
                => GroupsListing(mapping', u) = {}]_vars
    BY DanglingNext
  <1> QED
    BY <1>1, TypedInit, TypedNext, ApartInit, ValidNext, FoundNext, UnlistedNext, PTL
       DEF Spec, NoDanglingMember

(* A user is deactivated, renamed (if so configured) or deleted only when no
   node is logged in as the user any more: none has slipped in since its nodes
   were expired, unless two requests are at work on one user or two users have
   one identifier. *)
THEOREM RevokedNodesExpired ==
    Spec /\ []UsersApart /\ []IdentifiersUnique => NodesExpiredFirst
  <1>1. Wiped => [\A h \in Handlers : Revokes(h) /\ pc'[h] \in {"check", "snapshot"}
                    => NodesOf(mapping.users[req[h].id]) = {}]_vars
    BY DEF Wiped
  <1> QED
    BY <1>1, TypedInit, TypedNext, ApartInit, ValidNext, FoundNext, WipedNext, PTL
       DEF Spec, NodesExpiredFirst

-----------------------------------------------------------------------------
(* Requests that do not overtake each other. *)

(* Hypothesis: no request or restart changes the groups while another request
   is between its snapshot of them and its answer. *)
NotOvertaken ==
    Resolved(mapping') # Resolved(mapping) => \A h \in Handlers : pc'[h] \notin {"lock", "fetch", "write"}

(* The groups a request has resolved are still those of the mapping when it
   writes them. *)
Prepared ==
    \A h \in Handlers : pc[h] \in {"lock", "fetch", "write"} => snap[h] = Resolved(mapping)

(* Who can be past its snapshot after a step: whoever was, and who takes it. *)
LEMMA SnapNext ==
    ASSUME Typed, [Next]_vars, NEW h \in Handlers, pc'[h] \in {"lock", "fetch", "write"}
    PROVE  \/ pc[h] \in {"lock", "fetch", "write"} /\ snap'[h] = snap[h]
           \/ Snapshot(h)
  <1> USE DEF Typed, TypeOK
  <1>1. CASE AcquireLock(h) \/ FetchPolicy(h)
    BY <1>1 DEF AcquireLock, FetchPolicy, Finish, Goto, locals
  <1>2. ~Receive(h) /\ ~Disconnect(h) /\ ~Crash
    BY DEF Receive, FirstStage, Disconnect, Crash, Finish, Goto
  <1>3. ~(Proceed(h) /\ ~Snapshot(h) /\ ~FetchPolicy(h))
    BY DEF Proceed, CreateUser, ReadUser, ExpireNodes, DeleteAccount, PutUser, CheckGroups,
           DeleteUser, CreateGroup, PutGroup, DeleteGroup, WritePolicy, OutOfIds, SetAndFlush,
           RemoveAndFlush, Finish, Goto
  <1> QED
    BY <1>1, <1>2, <1>3, OwnSteps

LEMMA PreparedNext == Typed /\ Prepared /\ [Next]_vars /\ NotOvertaken => Prepared'
  <1> SUFFICES ASSUME Typed, Prepared, [Next]_vars, NotOvertaken,
                      NEW h \in Handlers, pc'[h] \in {"lock", "fetch", "write"}
               PROVE  snap'[h] = Resolved(mapping')
    BY DEF Prepared, Resolved, GroupsNamed, MemberTokens, ResolveKey
  <1>1. Resolved(mapping') = Resolved(mapping)
    BY DEF NotOvertaken
  <1>2. CASE Snapshot(h)
    BY <1>1, <1>2 DEF Snapshot, Typed, TypeOK
  <1> QED
    BY <1>1, <1>2, SnapNext DEF Prepared

Answers(h) == pc[h] # "ok" /\ pc'[h] = "ok"

LEMMA AnswerNext ==
    ASSUME Typed, Serialised, Prepared, [Next]_vars, NEW h \in Handlers, Answers(h)
    PROVE  AnswerCurrent(h)'
  <1> USE DEF Typed, Answers
  <1>1. mapping' \in Mappings
    BY TypedNext DEF TypeOK
  <1>2. ASSUME live'.groups = Resolved(mapping') PROVE AnswerCurrent(h)'
    <2>1. ASSUME NEW g \in GroupIds, mapping'.groups[g] # None
          PROVE  mapping'.groups[g].name \in DOMAIN Resolved(mapping')
      BY <1>1, <2>1 DEF Resolved, GroupsNamed, Mappings, GroupRecords
    <2> QED
      BY <1>2, <2>1 DEF AnswerCurrent, GroupsListing, KnownGroups, Resolved, GroupsNamed,
           MemberTokens, ResolveKey
  <1>3. CASE FetchPolicy(h)
    <2>1. /\ ReplaceGroups(live, snap[h]) = live /\ pc[h] = "fetch"
          /\ UNCHANGED <<live, mapping>>
      BY <1>3 DEF FetchPolicy, Finish, Goto, TypeOK
    <2>2. live.groups = snap[h]
      BY <2>1 DEF ReplaceGroups, PruneGrants, SetGroups, Equipped, TypeOK, Policies
    <2>3. snap[h] = Resolved(mapping)
      BY <2>1 DEF Prepared
    <2> QED
      BY <1>2, <2>1, <2>2, <2>3
  <1>4. CASE WritePolicy(h)
    <2>1. /\ live' = ReplaceGroups(read[h], snap[h]) /\ pc[h] = "write"
          /\ UNCHANGED mapping
      BY <1>4 DEF WritePolicy, Finish, Goto, TypeOK
    <2>2. live'.groups = snap[h]
      BY <2>1 DEF ReplaceGroups, PruneGrants, SetGroups, Equipped, Policies
    <2>3. snap[h] = Resolved(mapping)
      BY <2>1 DEF Prepared
    <2> QED
      BY <1>2, <2>1, <2>2, <2>3
  <1>5. CASE CheckGroups(h)
    <2>1. ~NeedsReconcile(h) /\ req[h].op = "put_user" /\ UNCHANGED <<mapping, req>>
      BY <1>5 DEF CheckGroups, At, Goto, TypeOK
    <2> QED
      BY <2>1 DEF NeedsReconcile, AnswerCurrent, GroupsListing
  <1>6. ~Receive(h) /\ ~Disconnect(h) /\ ~Crash /\ ~AcquireLock(h)
    BY DEF Receive, FirstStage, Disconnect, Crash, AcquireLock, Finish, Goto, TypeOK
  <1>7. ~(Proceed(h) /\ ~FetchPolicy(h) /\ ~WritePolicy(h) /\ ~CheckGroups(h))
    BY DEF Proceed, CreateUser, ReadUser, ExpireNodes, DeleteAccount, PutUser, DeleteUser,
           CreateGroup, PutGroup, DeleteGroup, Snapshot, OutOfIds, SetAndFlush,
           RemoveAndFlush, Finish, Goto, TypeOK
  <1> QED
    BY <1>3, <1>4, <1>5, <1>6, <1>7, OwnSteps

LEMMA PreparedInit == Init => Prepared
  BY DEF Init, Prepared

LEMMA PreparedStep == Typed /\ Prepared /\ [Next]_vars /\ [NotOvertaken]_vars => Prepared'
  <1>1. Typed /\ Prepared /\ UNCHANGED vars => Prepared'
    BY DEF vars, service, locals, Prepared
  <1> QED
    BY <1>1, PreparedNext

(* With any number of handlers and whatever has failed before, a request that is
   answered with success leaves the live groups as the mapping has them at that
   moment, unless a request has changed the groups while another was past its
   snapshot: overtaking is all that goes wrong in scim_stale. *)
THEOREM AnswersCurrentWhenGiven ==
    Spec /\ [][NotOvertaken]_vars => [][\A h \in Handlers : Answers(h) => AnswerCurrent(h)']_vars
  <1>1. Typed /\ Serialised /\ Prepared /\ [Next]_vars
            => [\A h \in Handlers : Answers(h) => AnswerCurrent(h)']_vars
    BY AnswerNext
  <1>2. Typed => TypeOK
    BY DEF Typed
  <1> QED
    BY <1>1, <1>2, PreparedInit, PreparedStep, TypedInit, TypedNext, SerialisedInit, SerialisedNext, PTL
       DEF Spec

-----------------------------------------------------------------------------
(* Groups that follow the mapping. *)

(* Hypothesis: headscale has no groups at first. *)
StartsWithoutGroups == \A p \in InitialPolicies : p.groups = NoGroups

InStep == live.groups = Resolved(mapping)

(* A request that has yet to bring the groups in line with the mapping. *)
Reconciles(h) ==
    \/ pc[h] \in {"snapshot", "lock", "fetch", "write"}
    \/ pc[h] = "check" /\ NeedsReconcile(h)

Followed == InStep \/ \E h \in Handlers : Reconciles(h)

Following == faults = 0 => Followed

(* A user that no group lists does not show in the policy. *)
LEMMA UnlistedUnseen ==
    ASSUME Typed, NEW u \in UserIds, NEW record,
           mapping' = [mapping EXCEPT !.users[u] = record], GroupsListing(mapping, u) = {}
    PROVE  Resolved(mapping') = Resolved(mapping)
  <1>1. mapping'.groups = mapping.groups /\ \A v \in UserIds \ {u} : mapping'.users[v] = mapping.users[v]
    BY DEF Typed, TypeOK, Mappings
  <1>2. \A n \in GroupNames : GroupsNamed(mapping', n) = GroupsNamed(mapping, n)
    BY <1>1 DEF GroupsNamed
  <1>3. ASSUME NEW g \in GroupIds, mapping.groups[g] # None
        PROVE  MemberTokens(mapping', mapping.groups[g].members)
                    = MemberTokens(mapping, mapping.groups[g].members)
    <2>1. mapping.groups[g].members \subseteq UserIds \ {u}
      BY <1>3 DEF GroupsListing, Typed, TypeOK, Mappings, GroupRecords
    <2> QED
      BY <1>1, <2>1 DEF MemberTokens, ResolveKey
  <1>4. ASSUME NEW n \in GroupNames
        PROVE  UNION {MemberTokens(mapping', mapping'.groups[g].members) : g \in GroupsNamed(mapping', n)}
                = UNION {MemberTokens(mapping, mapping.groups[g].members) : g \in GroupsNamed(mapping, n)}
    BY <1>1, <1>2, <1>3 DEF GroupsNamed
  <1> QED
    BY <1>2, <1>4 DEF Resolved

LEMMA FaultsAddUp == Typed /\ [Next]_vars => (UNCHANGED faults \/ Fault) /\ (faults' = 0 => ~Fault)
  <1>1. Typed /\ faults' = 0 => ~Fault
    BY DEF Typed, TypeOK, Fault
  <1>2. ASSUME NEW h \in Handlers, Proceed(h) \/ AcquireLock(h) \/ Receive(h) \/ Disconnect(h)
        PROVE  UNCHANGED faults \/ Fault
    BY <1>2 DEF Proceed, Receive, AcquireLock, Disconnect, CreateUser,
           ReadUser, ExpireNodes, DeleteAccount, PutUser, CheckGroups, DeleteUser,
           CreateGroup, PutGroup, DeleteGroup, Snapshot, FetchPolicy, WritePolicy,
           SetAndFlush, RemoveAndFlush, OutOfIds
  <1>3. (\E n \in Nodes : Login(n)) \/ Crash \/ UNCHANGED vars => UNCHANGED faults \/ Fault
    BY DEF Login, Crash, vars
  <1> QED
    BY <1>1, <1>2, <1>3 DEF Next

(* Where nothing fails, the service follows its mapping, and brings the groups
   back whenever it writes the policy. *)
LEMMA FollowedNext ==
    Typed /\ Prepared /\ [Next]_vars /\ faults' = 0
        => (Followed => Followed') /\ (UNCHANGED live \/ Followed')
  <1> SUFFICES ASSUME Typed, Prepared, [Next]_vars, faults' = 0
               PROVE  (Followed => Followed') /\ (UNCHANGED live \/ Followed')
    OBVIOUS
  <1> USE DEF Typed
  <1>0. ~Fault /\ UNCHANGED faults
    BY FaultsAddUp
  <1>1. ASSUME NEW h \in Handlers, Steps(h), ~Reconciles(h), UNCHANGED live,
               mapping'.groups = mapping.groups, Resolved(mapping') = Resolved(mapping)
        PROVE  (Followed => Followed') /\ UNCHANGED live
    <2>1. ASSUME InStep PROVE Followed'
      BY <1>1, <2>1 DEF Followed, InStep, Resolved, GroupsNamed, MemberTokens, ResolveKey
    <2>2. ASSUME NEW i \in Handlers, Reconciles(i) PROVE Reconciles(i)'
      <3>1. UNCHANGED <<pc[i], req[i]>>
        BY <1>1, <2>2, OthersRest
      <3> QED
        BY <1>1, <2>2, <3>1 DEF Reconciles, NeedsReconcile, GroupsListing
    <2> QED
      BY <1>1, <2>1, <2>2 DEF Followed
  <1>2. ASSUME NEW h \in Handlers, Steps(h), ~Reconciles(h), UNCHANGED <<mapping, live>>
        PROVE  (Followed => Followed') /\ UNCHANGED live
    BY <1>1, <1>2
  <1>3. ASSUME NEW h \in Handlers, pc'[h] \in {"snapshot", "lock", "fetch", "write"} PROVE Followed'
    BY <1>3 DEF Followed, Reconciles
  <1>4. ASSUME NEW h \in Handlers, Receive(h) \/ ReadUser(h) \/ ExpireNodes(h) \/ DeleteAccount(h)
        PROVE  (Followed => Followed') /\ UNCHANGED live
    <2>1. ~Reconciles(h) /\ UNCHANGED <<mapping, live>>
      BY <1>4 DEF Receive, ReadUser, ExpireNodes, DeleteAccount, At, Reconciles, Done
    <2> QED
      BY <1>2, <1>4, <2>1 DEF Steps, Proceed
  <1>5. ASSUME NEW h \in Handlers,
               CreateUser(h) \/ CreateGroup(h) \/ DeleteUser(h) \/ PutGroup(h) \/ DeleteGroup(h)
        PROVE  (Followed => Followed') /\ UNCHANGED live
    <2>1. ~Reconciles(h) /\ UNCHANGED live
      BY <1>5 DEF CreateUser, CreateGroup, DeleteUser, PutGroup, DeleteGroup, At, Reconciles
    <2>2. UNCHANGED mapping \/ Goto(h, "snapshot")
      BY <1>0, <1>5 DEF CreateUser, CreateGroup, DeleteUser, PutGroup, DeleteGroup, OutOfIds,
         SetAndFlush, RemoveAndFlush
    <2>3. CASE Goto(h, "snapshot")
      BY <1>3, <2>1, <2>3 DEF Goto, TypeOK
    <2> QED
      BY <1>2, <1>5, <2>1, <2>2, <2>3 DEF Steps, Proceed
  <1>6. ASSUME NEW h \in Handlers, PutUser(h) PROVE (Followed => Followed') /\ UNCHANGED live
    <2>1. /\ pc[h] = "commit" /\ pc'[h] = "check" /\ req[h].op = "put_user"
          /\ mapping' = [mapping EXCEPT !.users[req[h].id] = req[h].body]
          /\ UNCHANGED <<live, req>>
      BY <1>0, <1>6 DEF PutUser, At, SetAndFlush, Goto, TypeOK
    <2>2. req[h].id \in UserIds
      BY <2>1, RequestTypes DEF TypeOK
    <2>3. CASE NeedsReconcile(h)'
      BY <2>1, <2>3 DEF Followed, Reconciles
    <2>4. CASE ~NeedsReconcile(h)'
      <3>1. GroupsListing(mapping', req[h].id) = {}
        BY <2>1, <2>4 DEF NeedsReconcile, GroupsListing
      <3>2. GroupsListing(mapping, req[h].id) = {}
        BY <2>1, <3>1 DEF GroupsListing, TypeOK, Mappings
      <3>3. Resolved(mapping') = Resolved(mapping)
        BY <2>1, <2>2, <3>2, UnlistedUnseen
      <3>4. ~Reconciles(h)
        BY <2>1 DEF Reconciles
      <3>5. mapping'.groups = mapping.groups
        BY <2>1 DEF TypeOK, Mappings
      <3> QED
        BY <1>1, <1>6, <2>1, <3>3, <3>4, <3>5 DEF Steps, Proceed
    <2> QED
      BY <2>1, <2>3, <2>4
  <1>7. ASSUME NEW h \in Handlers, CheckGroups(h) PROVE (Followed => Followed') /\ UNCHANGED live
    <2>1. CASE NeedsReconcile(h)
      BY <1>3, <1>7, <2>1 DEF CheckGroups, Goto, TypeOK
    <2>2. CASE ~NeedsReconcile(h)
      BY <1>2, <1>7, <2>2 DEF CheckGroups, At, Reconciles, Steps, Proceed
    <2> QED
      BY <2>1, <2>2
  <1>8. ASSUME NEW h \in Handlers, Snapshot(h) \/ AcquireLock(h) PROVE Followed'
    BY <1>3, <1>8 DEF Snapshot, AcquireLock, Goto, TypeOK
  <1>9. ASSUME NEW h \in Handlers, FetchPolicy(h) PROVE Followed'
    <2>1. CASE Goto(h, "write")
      BY <1>3, <1>9, <2>1 DEF Goto, TypeOK
    <2>2. CASE ReplaceGroups(live, snap[h]) = live
      <3>1. live.groups = snap[h]
        BY <2>2 DEF ReplaceGroups, PruneGrants, SetGroups, Equipped, TypeOK, Policies
      <3>2. snap[h] = Resolved(mapping) /\ UNCHANGED <<mapping, live>>
        BY <1>0, <1>9, <2>2 DEF FetchPolicy, Prepared
      <3> QED
        BY <3>1, <3>2 DEF Followed, InStep
    <2> QED
      BY <1>0, <1>9, <2>1, <2>2 DEF FetchPolicy
  <1>10. ASSUME NEW h \in Handlers, WritePolicy(h) PROVE Followed'
    <2>1. /\ live' = ReplaceGroups(read[h], snap[h]) /\ pc[h] = "write"
          /\ UNCHANGED mapping
      BY <1>0, <1>10 DEF WritePolicy
    <2>2. live'.groups = snap[h]
      BY <2>1 DEF ReplaceGroups, PruneGrants, SetGroups, Equipped, Policies
    <2>3. snap[h] = Resolved(mapping)
      BY <2>1 DEF Prepared
    <2> QED
      BY <2>1, <2>2, <2>3 DEF Followed, InStep
  <1>11. ~Crash /\ \A h \in Handlers : ~Disconnect(h)
    BY <1>0 DEF Crash, Disconnect
  <1>12. CASE (\E n \in Nodes : Login(n)) \/ UNCHANGED vars
    <2>1. UNCHANGED <<mapping, live, req, pc>>
      BY <1>12 DEF Login, vars, service
    <2> QED
      BY <2>1 DEF Followed, InStep, Reconciles, NeedsReconcile
  <1> QED
    BY <1>4, <1>5, <1>6, <1>7, <1>8, <1>9, <1>10, <1>11, <1>12 DEF Next, Proceed

LEMMA FollowedInit ==
    ASSUME StartsWithoutGroups
    PROVE  Init => Followed
  <1> SUFFICES ASSUME Init PROVE live.groups = Resolved(mapping)
    BY DEF Followed, InStep
  <1>1. \A n \in GroupNames : GroupsNamed(mapping, n) = {}
    BY DEF Init, GroupsNamed
  <1>2. Resolved(mapping) = NoGroups
    BY <1>1 DEF Resolved, NoGroups
  <1> QED
    BY <1>2 DEF Init, StartsWithoutGroups

(* Once all requests are answered, and none has failed but for what the client
   asked, the live groups are those of the mapping; with any number of handlers,
   if none overtakes another and headscale starts without groups.  That
   scim_stale finds the contrary takes a request that is overtaken. *)
THEOREM QuietPolicyCurrent ==
    ASSUME StartsWithoutGroups
    PROVE  Spec /\ [][NotOvertaken]_vars =>
               [](faults = 0 /\ (\A h \in Handlers : pc[h] \in Done) => live.groups = Resolved(mapping))
  <1>1. Typed /\ Prepared /\ Following /\ [Next]_vars => Following'
    BY FollowedNext, FaultsAddUp DEF Following
  <1>2. Following
            => (faults = 0 /\ (\A h \in Handlers : pc[h] \in Done) => live.groups = Resolved(mapping))
    BY DEF Following, Followed, InStep, Reconciles, Done
  <1>3. Init => Following
    BY FollowedInit DEF Following
  <1> QED
    BY <1>1, <1>2, <1>3, PreparedInit, PreparedStep, TypedInit, TypedNext, PTL DEF Spec

-----------------------------------------------------------------------------
(* Requests that come one after another. *)

(* Hypothesis: one request at a time. *)
Sequential == \A g, h \in Handlers : g = h

LEMMA OneAtATime ==
    ASSUME Sequential
    PROVE  Typed /\ [Next]_vars => NotOvertaken
  <1> SUFFICES ASSUME Typed, [Next]_vars, NEW h \in Handlers, pc'[h] \in {"lock", "fetch", "write"}
               PROVE  UNCHANGED mapping
    BY DEF NotOvertaken
  <1>1. CASE Snapshot(h) \/ AcquireLock(h) \/ FetchPolicy(h)
    BY <1>1 DEF Snapshot, AcquireLock, FetchPolicy
  <1>2. CASE (\E n \in Nodes : Login(n)) \/ UNCHANGED vars
    BY <1>2 DEF Login, vars, service
  <1>3. ~Receive(h) /\ ~Disconnect(h) /\ ~Crash
    BY DEF Typed, TypeOK, Receive, FirstStage, Disconnect, Crash, Finish, Goto
  <1>4. ~(Proceed(h) /\ ~Snapshot(h) /\ ~FetchPolicy(h))
    BY DEF Typed, TypeOK, Proceed, CreateUser, ReadUser, ExpireNodes, DeleteAccount, PutUser,
           CheckGroups, DeleteUser, CreateGroup, PutGroup, DeleteGroup, WritePolicy, OutOfIds,
           SetAndFlush, RemoveAndFlush, Finish, Goto
  <1>5. \A i \in Handlers : i = h
    BY DEF Sequential
  <1> QED
    BY <1>1, <1>2, <1>3, <1>4, <1>5 DEF Next

LEMMA AnswersNext ==
    ASSUME Sequential
    PROVE  Typed /\ Serialised /\ Prepared /\ AnswersCurrent /\ [Next]_vars => AnswersCurrent'
  <1> SUFFICES ASSUME Typed, Serialised, Prepared, AnswersCurrent, [Next]_vars,
                      NEW h \in Handlers, pc'[h] = "ok"
               PROVE  AnswerCurrent(h)'
    BY DEF AnswersCurrent
  <1>1. CASE pc[h] # "ok"
    BY <1>1, AnswerNext DEF Answers
  <1>2. CASE pc[h] = "ok"
    <2>1. ~Receive(h) /\ ~Disconnect(h) /\ ~Crash /\ ~AcquireLock(h) /\ ~Proceed(h)
      BY <1>2 DEF Typed, TypeOK, Receive, FirstStage, Disconnect, Crash, AcquireLock, Proceed,
             CreateUser, ReadUser, ExpireNodes, DeleteAccount, PutUser, CheckGroups, DeleteUser,
             CreateGroup, PutGroup, DeleteGroup, Snapshot, FetchPolicy, WritePolicy, At, Goto, Done
    <2>2. (\E n \in Nodes : Login(n)) \/ UNCHANGED vars
      <3>1. \A i \in Handlers : i = h
        BY DEF Sequential
      <3> QED
        BY <2>1, <3>1 DEF Next
    <2>3. UNCHANGED <<mapping, live, req>>
      BY <2>2 DEF Login, vars, service
    <2>4. AnswerCurrent(h)
      BY <1>2 DEF AnswersCurrent
    <2>5. Resolved(mapping') = Resolved(mapping)
      BY <2>3
    <2>6. GroupsListing(mapping', req'[h].id) = GroupsListing(mapping, req[h].id)
      BY <2>3
    <2>7. CASE req[h].op = "put_user" /\ req[h].body.active
      BY <2>3, <2>4, <2>5, <2>6, <2>7 DEF AnswerCurrent, KnownGroups, GroupsListing, Resolved,
         GroupsNamed, MemberTokens, ResolveKey
    <2>8. CASE ~(req[h].op = "put_user" /\ req[h].body.active)
      <3>1. live'.groups = Resolved(mapping')
        BY <2>3, <2>4, <2>5, <2>8 DEF AnswerCurrent
      <3> QED
        BY <2>3, <2>8, <3>1 DEF AnswerCurrent, Resolved, GroupsNamed, MemberTokens, ResolveKey
    <2> QED
      BY <2>7, <2>8
  <1> QED
    BY <1>1, <1>2

(* For one request at a time that is how it stays: after an answer of success the
   live groups are as the mapping has them, whatever became of the requests
   before it. *)
THEOREM AnswersAlwaysCurrent ==
    ASSUME Sequential
    PROVE  Spec => []AnswersCurrent
  <1>1. Init => AnswersCurrent
    BY DEF Init, AnswersCurrent
  <1>2. /\ Typed /\ Prepared /\ [Next]_vars => Prepared'
        /\ Typed /\ Serialised /\ Prepared /\ AnswersCurrent /\ [Next]_vars => AnswersCurrent'
    BY OneAtATime, PreparedNext, AnswersNext
  <1>3. Typed => TypeOK
    BY DEF Typed
  <1> QED
    BY <1>1, <1>2, <1>3, PreparedInit, TypedInit, TypedNext, SerialisedInit, SerialisedNext, PTL DEF Spec

=============================================================================
