--------------------------- MODULE MCIdempotency ---------------------------
(***************************************************************************)
(* Instances of Idempotency for TLC: up to four calls with one key, of     *)
(* which c4 carries another body.                                          *)
(***************************************************************************)
EXTENDS Idempotency, TLC

CONSTANTS c1, c2, c3, c4, b1, b2

MostlySame == [c \in Call |-> IF c = c4 THEN b2 ELSE b1]

\* c1, c2 and c3 are interchangeable.
CallSymmetry == Permutations({c1, c2, c3})
=============================================================================
