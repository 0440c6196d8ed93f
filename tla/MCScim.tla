------------------------------- MODULE MCScim -------------------------------
(***************************************************************************)
(* Values of Scim's constants for TLC.                                     *)
(***************************************************************************)
EXTENDS Scim, TLC

CONSTANTS u1, u2, g1, g2, alice, bob, a1, a2, x1, admins, devs, star, h1, h2, n1, n2

MCTokens == UserNames \cup Emails \cup ExternalIds

(* Bodies of user requests: with and without the identifier, active and not;
   the active user alone. *)
Body(active, name, email, ext) ==
    [active |-> active, name |-> name, email |-> email, external_id |-> ext]

Alice == {Body(b, alice, e, None) : b \in BOOLEAN, e \in {a1, None}}
AliceActive == {Body(TRUE, alice, None, None)}

(* A policy with a grant for each shape of pruning: group only, group and
   other, no group, and a side that is empty from the start. *)
Seeded ==
    [groups |-> (admins :> {}),
     grants |-> {[src |-> {admins}, dst |-> {star}],
                 [src |-> {admins, star}, dst |-> {star}],
                 [src |-> {star}, dst |-> {star}],
                 [src |-> {}, dst |-> {star, admins}],
                 [src |-> {}, dst |-> {star}]},
     owners |-> {}]

OnlySeeded == {Seeded}

Slots == Permutations({h1, h2})
=============================================================================
