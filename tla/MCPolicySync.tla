---------------------------- MODULE MCPolicySync ----------------------------
(***************************************************************************)
(* Values of PolicySync's constants for TLC.                               *)
(***************************************************************************)
EXTENDS PolicySync

CONSTANTS u1, g1, g2, alice, admins, devs, h1, h2, web, headmaster

MCUserBodies ==
    {[active |-> TRUE, name |-> alice, email |-> None, external_id |-> None]}

(* An inline policy without groups, one that refers to a group, and one whose
   groups are in conflict with SCIM. *)
Plain == [groups |-> NoGroups, grants |-> {[src |-> {web}, dst |-> {web}]}, owners |-> {}]
ForDevs == [Plain EXCEPT !.grants = {[src |-> {devs}, dst |-> {web}]}]

WithGroups == [Plain EXCEPT !.groups = [n \in {admins} |-> {alice}]]

AllInline == {Plain, ForDevs, WithGroups}

(* No access, and access for a group beside access for a tag. *)
WebForAdmins == {[ingress |-> web, from |-> {admins}], [ingress |-> web, from |-> {headmaster}]}
MCAccessLists == {{}, WebForAdmins}

OnlyEmpty == {EmptyPolicy}
=============================================================================
