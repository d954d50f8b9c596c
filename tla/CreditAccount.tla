---------------------------- MODULE CreditAccount ----------------------------
(***************************************************************************)
(* What the credit ledger promises a customer, with no mention of locks,   *)
(* transactions or retries: an account per user, from which an extraction  *)
(* is paid in one step when the account covers it, and to which at most    *)
(* one refund of that same price may return.  ExtractionBilling is shown   *)
(* to implement it.                                                        *)
(***************************************************************************)
EXTENDS Integers

CONSTANTS
    Request,    \* extraction requests, each of which may be paid once
    User,
    UserOf,     \* [Request -> User]
    PriceOf     \* [Request -> Nat], in cents

VARIABLES
    balance,    \* [User -> Int], the credit a user can spend
    paid        \* [Request -> {"unpaid", "paid", "refunded"}]

acctVars == <<balance, paid>>

Init ==
    /\ balance \in [User -> Nat]
    /\ paid = [r \in Request |-> "unpaid"]

\* A grant or a top-up: one user's balance grows, by any amount.
Deposit(u) ==
    /\ balance' \in [User -> Int]
    /\ balance'[u] > balance[u]
    /\ \A v \in User \ {u} : balance'[v] = balance[v]
    /\ UNCHANGED paid

Pay(r) ==
    /\ paid[r] = "unpaid"
    /\ balance[UserOf[r]] >= PriceOf[r]
    /\ balance' = [balance EXCEPT ![UserOf[r]] = @ - PriceOf[r]]
    /\ paid' = [paid EXCEPT ![r] = "paid"]

Refund(r) ==
    /\ paid[r] = "paid"
    /\ balance' = [balance EXCEPT ![UserOf[r]] = @ + PriceOf[r]]
    /\ paid' = [paid EXCEPT ![r] = "refunded"]

Next ==
    \/ \E u \in User : Deposit(u)
    \/ \E r \in Request : Pay(r) \/ Refund(r)

Spec == Init /\ [][Next]_acctVars
=============================================================================
