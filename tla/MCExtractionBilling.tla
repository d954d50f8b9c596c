------------------------- MODULE MCExtractionBilling -------------------------
(***************************************************************************)
(* Instances of ExtractionBilling for TLC: two or three requests of one    *)
(* user, on one key or two, in two processes.                              *)
(***************************************************************************)
EXTENDS ExtractionBilling, TLC

CONSTANTS r1, r2, r3, k1, k2, u1, p1, p2

TwoRequests == {r1, r2}
ThreeRequests == {r1, r2, r3}

\* One key, shared by every request.
OneKey == [r \in Request |-> k1]

\* r1 and r3 on one key, r2 on another of the same user.
TwoKeys == [r \in Request |-> IF r = r2 THEN k2 ELSE k1]

OneOwner == [k \in Key |-> u1]

\* r1 and r2 race inside one process, r3 in another one.
Spread == [r \in Request |-> IF r = r3 THEN p2 ELSE p1]

\* r1 and r2 race across processes.
Apart == [r \in Request |-> IF r = r1 THEN p1 ELSE p2]
=============================================================================
