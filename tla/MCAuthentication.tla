-------------------------- MODULE MCAuthentication --------------------------
(***************************************************************************)
(* Instances of Authentication for TLC.                                    *)
(***************************************************************************)
EXTENDS Authentication, TLC

CONSTANTS k1, b1, m1, m2, u1, c1, c2, c3, c4

\* A user key and the dashboard's key, and what is asked with them.
Asked(k, op) == [key |-> k, op |-> op, target |-> k1]
Mix == {Asked(k1, "use"), Asked(b1, "rotate"), Asked(b1, "revoke"), Asked(b1, "create")}
OneOwner == [k \in {k1, b1} |-> u1]
Symmetry == Permutations(Call) \cup Permutations({m1, m2})
=============================================================================
