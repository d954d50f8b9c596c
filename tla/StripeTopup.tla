----------------------------- MODULE StripeTopup -----------------------------
(***************************************************************************)
(* Buying credit: POST /v1/credit/topup (app/routes/credit.py) opens a     *)
(* Stripe Checkout session, and POST /v1/webhooks/stripe                   *)
(* (app/routes/webhooks.py) turns the events Stripe delivers about it into *)
(* one ledger row.  Stripe redelivers an event until it is answered with   *)
(* 2xx, may deliver it again after that, and may emit two events for one   *)
(* session.                                                                *)
(*                                                                         *)
(* stripe_webhook is a coroutine that never awaits once the body is read,  *)
(* so one process runs one delivery at a time and deliveries interleave    *)
(* only between processes: a Worker is a process.  A worker that stalls    *)
(* past the lease of its claim is a worker that takes no step while        *)
(* LeaseExpires does.                                                      *)
(***************************************************************************)
EXTENDS Integers

CONSTANTS
    Checkout,       \* Stripe Checkout sessions
    Event,          \* Stripe event ids
    Worker,         \* API processes
    CheckoutOf,     \* [Event -> Checkout]
    Creditable,     \* the events of type checkout.session.completed whose
                    \* payload matches the recorded session and says "paid"
    MaxFaults       \* bound: crashes, raised exceptions and lost markers

ASSUME EventsAssumption ==
    /\ CheckoutOf \in [Event -> Checkout]
    /\ Creditable \subseteq Event
    /\ MaxFaults \in Nat

VARIABLES
    checkout,       \* [Checkout -> what Stripe and its customer have done]
    topup,          \* [Checkout -> status of the topup_sessions row]
    credits,        \* [Checkout -> Nat], committed topup rows of the ledger
    seen,           \* [Event -> status of the stripe_events_seen row]
    stale,          \* events whose claimed_at is older than the lease
    acked,          \* events answered with 2xx: Stripe stops redelivering
    pc,             \* [Worker -> step of stripe_webhook]
    event,          \* [Worker -> event it was delivered]
    faults

rowVars == <<topup, credits, seen, stale>>
vars == <<checkout, rowVars, acked, pc, event, faults>>

Step == {"idle", "claim", "readback", "read_topup", "claim_topup", "credit",
         "commit_credit", "commit_plain", "mark_failed"}

TypeOK ==
    /\ checkout \in [Checkout -> {"none", "created", "offered", "lost", "paid"}]
    /\ topup \in [Checkout -> {"absent", "pending", "completed"}]
    /\ credits \in [Checkout -> Nat]
    /\ seen \in [Event -> {"absent", "processing", "processed", "failed"}]
    /\ stale \subseteq Event
    /\ acked \subseteq Event
    /\ pc \in [Worker -> Step]
    /\ event \in [Worker -> Event]
    /\ faults \in 0..MaxFaults

Init ==
    /\ checkout = [s \in Checkout |-> "none"]
    /\ topup = [s \in Checkout |-> "absent"]
    /\ credits = [s \in Checkout |-> 0]
    /\ seen = [e \in Event |-> "absent"]
    /\ stale = {}
    /\ acked = {}
    /\ pc = [w \in Worker |-> "idle"]
    /\ event \in [Worker -> Event]
    /\ faults = 0

Fault == faults < MaxFaults /\ faults' = faults + 1

Goto(w, step) == pc' = [pc EXCEPT ![w] = step]

\* The session of the event a worker handles.
Subject(w) == CheckoutOf[event[w]]

-----------------------------------------------------------------------------
(* create_credit_topup, and the customer. *)

\* create_checkout_session
CreateCheckout(s) ==
    /\ checkout[s] = "none"
    /\ checkout' = [checkout EXCEPT ![s] = "created"]
    /\ UNCHANGED <<rowVars, acked, pc, event, faults>>

\* The pending row is committed, and only then is the URL returned.
RecordTopup(s) ==
    /\ checkout[s] = "created"
    /\ topup' = [topup EXCEPT ![s] = "pending"]
    /\ checkout' = [checkout EXCEPT ![s] = "offered"]
    /\ UNCHANGED <<credits, seen, stale, acked, pc, event, faults>>

\* The request fails after Stripe created the session: nobody has its URL.
LoseCheckout(s) ==
    /\ checkout[s] = "created"
    /\ Fault
    /\ checkout' = [checkout EXCEPT ![s] = "lost"]
    /\ UNCHANGED <<rowVars, acked, pc, event>>

\* The customer pays by card on the page behind the URL.
Pay(s) ==
    /\ checkout[s] = "offered"
    /\ checkout' = [checkout EXCEPT ![s] = "paid"]
    /\ UNCHANGED <<rowVars, acked, pc, event, faults>>

-----------------------------------------------------------------------------
(* stripe_webhook. *)

\* An event that says "paid" exists once its session was paid; any other
\* event of a session may come at any time after Stripe created it.
Emitted(e) ==
    IF e \in Creditable THEN checkout[CheckoutOf[e]] = "paid"
    ELSE checkout[CheckoutOf[e]] # "none"

Deliver(w, e) ==
    /\ pc[w] = "idle"
    /\ Emitted(e)
    /\ event' = [event EXCEPT ![w] = e]
    /\ Goto(w, "claim")
    /\ UNCHANGED <<checkout, rowVars, acked, faults>>

\* Mutant: no stale-claim recovery.
ClaimableUnlessStale(e) == seen[e] \in {"absent", "failed"}

\* The row INSERT ... ON CONFLICT DO UPDATE may take.
Claimable(e) ==
    \/ seen[e] \in {"absent", "failed"}
    \/ seen[e] = "processing" /\ e \in stale

\* _claim_event: one statement and its commit.
ClaimEvent(w) ==
    /\ pc[w] = "claim"
    /\ \/ /\ Claimable(event[w])
          /\ seen' = [seen EXCEPT ![event[w]] = "processing"]
          /\ stale' = stale \ {event[w]}
          /\ Goto(w, IF event[w] \in Creditable THEN "read_topup" ELSE "commit_plain")
       \/ /\ ~Claimable(event[w])
          /\ Goto(w, "readback")
          /\ UNCHANGED <<seen, stale>>
    /\ UNCHANGED <<checkout, topup, credits, acked, event, faults>>

\* Mutant: an event in flight is answered 200, as before the cycle 8 fix.
ReadBackAcksInFlight(w) ==
    /\ pc[w] = "readback"
    /\ acked' = acked \cup {event[w]}
    /\ Goto(w, "idle")
    /\ UNCHANGED <<checkout, rowVars, event, faults>>

\* The claim was refused: 200 when the event is processed by now, else 409.
ReadBack(w) ==
    /\ pc[w] = "readback"
    /\ acked' = IF seen[event[w]] = "processed" THEN acked \cup {event[w]} ELSE acked
    /\ Goto(w, "idle")
    /\ UNCHANGED <<checkout, rowVars, event, faults>>

\* session.get(TopupSession) and the checks up to the conditional UPDATE.
ReadTopup(w) ==
    /\ pc[w] = "read_topup"
    /\ Goto(w, IF topup[Subject(w)] = "pending" THEN "claim_topup" ELSE "commit_plain")
    /\ UNCHANGED <<checkout, rowVars, acked, event, faults>>

\* The row lock of the conditional UPDATE, held to the end of the transaction.
HoldsTopupRow(w) == pc[w] \in {"credit", "commit_credit"}

TopupRowFree(w) ==
    \A v \in Worker \ {w} : HoldsTopupRow(v) => Subject(v) # Subject(w)

\* Mutant: the row is locked but its status is not looked at again.
ClaimTopupUnconditionally(w) ==
    /\ pc[w] = "claim_topup"
    /\ TopupRowFree(w)
    /\ Goto(w, "credit")
    /\ UNCHANGED <<checkout, rowVars, acked, event, faults>>

\* Mutant: a row that another transaction holds counts as claimed (SKIP LOCKED).
ClaimTopupSkipsLocked(w) ==
    /\ pc[w] = "claim_topup"
    /\ Goto(w, IF TopupRowFree(w) /\ topup[Subject(w)] = "pending"
               THEN "credit" ELSE "commit_plain")
    /\ UNCHANGED <<checkout, rowVars, acked, event, faults>>

\* UPDATE topup_sessions ... WHERE status = 'pending': waits for another
\* transaction on the row, then looks at what that one left.
ClaimTopup(w) ==
    /\ pc[w] = "claim_topup"
    /\ TopupRowFree(w)
    /\ Goto(w, IF topup[Subject(w)] = "pending" THEN "credit" ELSE "commit_plain")
    /\ UNCHANGED <<checkout, rowVars, acked, event, faults>>

\* The ledger row is flushed and the customer is mailed.
InsertCredit(w) ==
    /\ pc[w] = "credit"
    /\ Goto(w, "commit_credit")
    /\ UNCHANGED <<checkout, rowVars, acked, event, faults>>

\* _mark_event_processed in the commit of the ledger row; 200.
CommitCredit(w) ==
    /\ pc[w] = "commit_credit"
    /\ topup' = [topup EXCEPT ![Subject(w)] = "completed"]
    /\ credits' = [credits EXCEPT ![Subject(w)] = @ + 1]
    /\ seen' = [seen EXCEPT ![event[w]] = "processed"]
    /\ acked' = acked \cup {event[w]}
    /\ Goto(w, "idle")
    /\ UNCHANGED <<checkout, stale, event, faults>>

\* Nothing to credit: processed all the same; 202.
CommitPlain(w) ==
    /\ pc[w] = "commit_plain"
    /\ seen' = [seen EXCEPT ![event[w]] = "processed"]
    /\ acked' = acked \cup {event[w]}
    /\ Goto(w, "idle")
    /\ UNCHANGED <<checkout, topup, credits, stale, event, faults>>

Handling(w) == pc[w] \in {"read_topup", "claim_topup", "credit", "commit_credit", "commit_plain"}

\* The database or the mail provider raises, or the commit fails: the handler's
\* transaction is rolled back.
HandlerRaises(w) ==
    /\ Handling(w)
    /\ Fault
    /\ Goto(w, "mark_failed")
    /\ UNCHANGED <<checkout, rowVars, acked, event>>

\* Mutant: the marker is written whatever the row says by now.
MarkEventFailedBlindly(w) ==
    /\ pc[w] = "mark_failed"
    /\ seen' = [seen EXCEPT ![event[w]] = "failed"]
    /\ Goto(w, "idle")
    /\ UNCHANGED <<checkout, topup, credits, stale, acked, event, faults>>

\* _mark_event_failed, in a transaction of its own; 500.
MarkEventFailed(w) ==
    /\ pc[w] = "mark_failed"
    /\ seen' = IF seen[event[w]] = "processing"
               THEN [seen EXCEPT ![event[w]] = "failed"] ELSE seen
    /\ Goto(w, "idle")
    /\ UNCHANGED <<checkout, topup, credits, stale, acked, event, faults>>

\* The marker cannot be written either; 500.
MarkerLost(w) ==
    /\ pc[w] = "mark_failed"
    /\ Fault
    /\ Goto(w, "idle")
    /\ UNCHANGED <<checkout, rowVars, acked, event>>

Crash(w) ==
    /\ pc[w] # "idle"
    /\ Fault
    /\ Goto(w, "idle")
    /\ UNCHANGED <<checkout, rowVars, acked, event>>

\* _STALE_PROCESSING_LEASE_SECONDS pass since claimed_at.
LeaseExpires(e) ==
    /\ seen[e] = "processing"
    /\ e \notin stale
    /\ stale' = stale \cup {e}
    /\ UNCHANGED <<checkout, topup, credits, seen, acked, pc, event, faults>>

WorkerStep(w) ==
    \/ ClaimEvent(w) \/ ReadBack(w) \/ ReadTopup(w) \/ ClaimTopup(w)
    \/ InsertCredit(w) \/ CommitCredit(w) \/ CommitPlain(w) \/ MarkEventFailed(w)

Next ==
    \/ \E s \in Checkout : CreateCheckout(s) \/ RecordTopup(s) \/ LoseCheckout(s) \/ Pay(s)
    \/ \E w \in Worker, e \in Event : Deliver(w, e)
    \/ \E w \in Worker : WorkerStep(w) \/ HandlerRaises(w) \/ MarkerLost(w) \/ Crash(w)
    \/ \E e \in Event : LeaseExpires(e)

Redeliver(e) == e \notin acked /\ \E w \in Worker : Deliver(w, e)

\* A worker that can run is run, time passes, and Stripe redelivers, for days,
\* an event that was not answered with 2xx; nothing else is bound to happen.
Fairness ==
    /\ \A w \in Worker : WF_vars(WorkerStep(w))
    /\ \A e \in Event : WF_vars(LeaseExpires(e)) /\ SF_vars(Redeliver(e))

Spec == Init /\ [][Next]_vars
FairSpec == Spec /\ Fairness

-----------------------------------------------------------------------------
(* Properties. *)

\* However many workers handle however many events of one session, and
\* wherever they stall, raise or crash, the session is credited at most once.
CreditedOnce == \A s \in Checkout : credits[s] <= 1

\* "status='processed' is the ONLY state that proves the credit landed"
\* (webhooks.py lines 133-134): a paid event is never parked as processed while
\* the customer's credit is missing.
ProcessedIsCredited ==
    \A e \in Creditable : seen[e] = "processed" => credits[CheckoutOf[e]] = 1

\* Stripe is told to stop redelivering only what was credited.
AckedIsCredited == \A e \in Creditable \cap acked : credits[CheckoutOf[e]] = 1

\* A delivery that lost its claim to a stale-lease recovery, and fails later,
\* never reopens an event another delivery has processed.
ProcessedIsFinal ==
    [][\A e \in Event : seen[e] = "processed" => seen'[e] = "processed"]_vars

\* A paid session with an event about it is credited in the end, through
\* crashes, lost markers and refused redeliveries: the whole of TopupPromise,
\* its fairness included.
Promise == INSTANCE TopupPromise WITH
    paid <- {s \in Checkout : checkout[s] = "paid"}
ImplementsTopupPromise == Promise!Spec
=============================================================================
