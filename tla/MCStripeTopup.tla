--------------------------- MODULE MCStripeTopup ---------------------------
(***************************************************************************)
(* An instance of StripeTopup for TLC: two events that report the payment  *)
(* of one Checkout session, a third that credits nothing, two worker       *)
(* processes.                                                              *)
(***************************************************************************)
EXTENDS StripeTopup

CONSTANTS s1, e1, e2, e3, w1, w2

OneSession == [e \in Event |-> s1]
=============================================================================
