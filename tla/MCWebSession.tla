---------------------------- MODULE MCWebSession ----------------------------
(***************************************************************************)
(* Instances of WebSession for TLC.                                        *)
(***************************************************************************)
EXTENDS WebSession, TLC

CONSTANTS a1, a2, a3, l1, l2, l3

Symmetry == Permutations(Redeem) \cup Permutations(Link)
=============================================================================
