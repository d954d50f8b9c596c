---------------------------- MODULE TopupPromise ----------------------------
(***************************************************************************)
(* What a top-up promises a customer: a Checkout session that was paid is  *)
(* credited, once, and nothing else is.  StripeTopup is shown to implement *)
(* it.                                                                     *)
(***************************************************************************)
EXTENDS Integers

CONSTANT Checkout       \* Stripe Checkout sessions

VARIABLES
    paid,               \* sessions whose card payment succeeded
    credits             \* [Checkout -> Nat], ledger rows a session produced

promiseVars == <<paid, credits>>

Init ==
    /\ paid = {}
    /\ credits = [s \in Checkout |-> 0]

Pay(s) ==
    /\ s \notin paid
    /\ paid' = paid \cup {s}
    /\ UNCHANGED credits

Credit(s) ==
    /\ s \in paid
    /\ credits[s] = 0
    /\ credits' = [credits EXCEPT ![s] = 1]
    /\ UNCHANGED paid

Next == \E s \in Checkout : Pay(s) \/ Credit(s)

Spec == Init /\ [][Next]_promiseVars /\ \A s \in Checkout : WF_promiseVars(Credit(s))
=============================================================================
