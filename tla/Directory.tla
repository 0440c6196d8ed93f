----------------------------- MODULE Directory -----------------------------
(***************************************************************************)
(* What the SCIM service promises of its users and groups, whoever asks    *)
(* for what at the same time: a directory in which each change is done as  *)
(* a whole or not at all, and of which a copy survives a crash.            *)
(*                                                                         *)
(* Groups are known by their names here, as in the policy, and no two have *)
(* the same.  Module Scim, which has the requests, their stages and the    *)
(* ids, implements this one.                                               *)
(***************************************************************************)

CONSTANTS
    People,  \* who may be in it
    Names,   \* of groups
    Records  \* of users

VARIABLES
    now,   \* the directory, as requests find it
    saved  \* its copy, which a restart loads

Empty == [users |-> [u \in {} |-> {}], groups |-> [n \in {} |-> {}]]

-----------------------------------------------------------------------------
(* Changes of a directory d. *)

SetUser(d, u, record) ==
    [users |-> [v \in DOMAIN d.users \cup {u} |-> IF v = u THEN record ELSE d.users[v]],
     groups |-> d.groups]

(* A user goes, and from all groups. *)
RemoveUser(d, u) ==
    [users |-> [v \in DOMAIN d.users \ {u} |-> d.users[v]],
     groups |-> [n \in DOMAIN d.groups |-> d.groups[n] \ {u}]]

(* Group n, new or not, with these members and the place of group `was`. *)
SetGroup(d, was, n, members) ==
    [users |-> d.users,
     groups |-> [k \in (DOMAIN d.groups \ {was}) \cup {n} |->
        IF k = n THEN members ELSE d.groups[k]]]

RemoveGroup(d, n) ==
    [users |-> d.users,
     groups |-> [k \in DOMAIN d.groups \ {n} |-> d.groups[k]]]

(* A group is renamed only to a name that is free. *)
Sets(d, e) ==
    \/ \E u \in People, record \in Records : e = SetUser(d, u, record)
    \/ \E n \in Names, members \in SUBSET People : e = SetGroup(d, n, n, members)
    \/ \E was \in DOMAIN d.groups, n \in Names \ DOMAIN d.groups, members \in SUBSET People :
        e = SetGroup(d, was, n, members)

Removes(d, e) ==
    \/ \E u \in People : e = RemoveUser(d, u)
    \/ \E n \in DOMAIN d.groups : e = RemoveGroup(d, n)

-----------------------------------------------------------------------------
(* A change is made, and saved unless that fails. *)
Update ==
    /\ Sets(now, now') \/ Removes(now, now')
    /\ saved' \in {saved, now'}

(* A removal that fails to be saved is undone, whatever became of the copy. *)
Undone ==
    /\ Removes(now, saved')
    /\ UNCHANGED now

Restart ==
    /\ now' = saved
    /\ UNCHANGED saved

Init == now = Empty /\ saved = Empty

Next == Update \/ Undone \/ Restart

Spec == Init /\ [][Next]_<<now, saved>>

=============================================================================
