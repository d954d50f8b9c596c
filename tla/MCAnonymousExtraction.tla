----------------------- MODULE MCAnonymousExtraction -----------------------
(***************************************************************************)
(* Instances of AnonymousExtraction for TLC.                               *)
(***************************************************************************)
EXTENDS AnonymousExtraction, TLC

CONSTANTS r1, r2, r3, k1, k2, t1, t2

Symmetry == Permutations(Request) \cup Permutations(Claim) \cup Permutations(Token)
=============================================================================
