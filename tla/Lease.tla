-------------------------------- MODULE Lease --------------------------------
(***************************************************************************)
(* What deployments of the operator promise of a parent that they share: a *)
(* deployment serves it only under a hold of its own, gives the hold up    *)
(* only when it serves it no more, and the parent is not gone before all   *)
(* have.  Two may hold it, and serve it, while it changes hands.           *)
(*                                                                         *)
(* Module Sharding, where a hold is a finalizer and every deployment goes  *)
(* by a copy of the parent, implements this one.                           *)
(***************************************************************************)
CONSTANT Deployments

VARIABLES
    there,   \* the parent exists
    held,    \* by these deployments
    serving  \* those with a proxy for it

Come ==
    /\ ~there
    /\ there' = TRUE
    /\ UNCHANGED <<held, serving>>

Go ==
    /\ there
    /\ held = {}
    /\ there' = FALSE
    /\ UNCHANGED <<held, serving>>

Take(d) ==
    /\ there
    /\ held' = held \cup {d}
    /\ UNCHANGED <<there, serving>>

Start(d) ==
    /\ d \in held
    /\ serving' = serving \cup {d}
    /\ UNCHANGED <<there, held>>

Stop(d) ==
    /\ serving' = serving \ {d}
    /\ UNCHANGED <<there, held>>

(* The parent may have waited for the last hold to go. *)
Leave(d) ==
    /\ d \in held \ serving
    /\ held' = held \ {d}
    /\ there' = TRUE \/ (there' = FALSE /\ held' = {})
    /\ UNCHANGED serving

Init ==
    /\ there \in BOOLEAN
    /\ held = {}
    /\ serving = {}

Next == Come \/ Go \/ \E d \in Deployments : Take(d) \/ Start(d) \/ Stop(d) \/ Leave(d)

Spec == Init /\ [][Next]_<<there, held, serving>>
==============================================================================
