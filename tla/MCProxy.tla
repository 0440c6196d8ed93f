------------------------------- MODULE MCProxy -------------------------------
(***************************************************************************)
(* Values of Proxy's constants for TLC.                                    *)
(***************************************************************************)
EXTENDS Proxy

CONSTANTS prod, lab, k1, k2, d1, d2, d3
=============================================================================
