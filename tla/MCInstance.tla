----------------------------- MODULE MCInstance -----------------------------
(***************************************************************************)
(* Values of Instance's constants for TLC: specs that fit and that do not. *)
(***************************************************************************)
EXTENDS Instance

CONSTANTS plain, grouped

Managed == [external |-> FALSE, policy |-> None, scim |-> FALSE, extra_config |-> {}]
External == [Managed EXCEPT !.external = TRUE]

MCSpecs == {
    [Managed EXCEPT !.policy = grouped],
    [Managed EXCEPT !.policy = plain, !.scim = TRUE, !.extra_config = {"nameservers"} \cup Defaulted],
    [Managed EXCEPT !.policy = grouped, !.scim = TRUE, !.extra_config = Pinned],
    [Managed EXCEPT !.extra_config = Defaulted],
    External,
    [External EXCEPT !.scim = TRUE]}
==============================================================================
