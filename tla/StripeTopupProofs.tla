-------------------------- MODULE StripeTopupProofs --------------------------
(***************************************************************************)
(* Theorems about StripeTopup, for any sessions, events and workers and    *)
(* any number of faults.                                                   *)
(***************************************************************************)
EXTENDS StripeTopup, TLAPS

\* A row says "completed" exactly when its one ledger row is committed, and a
\* session whose URL was returned has its row.
RowInv(s) ==
    /\ credits[s] = IF topup[s] = "completed" THEN 1 ELSE 0
    /\ checkout[s] \in {"offered", "paid"} => topup[s] # "absent"
    /\ topup[s] = "completed" => checkout[s] = "paid"

\* A credit-giving event that was given up as processed is one whose session
\* was completed.
EventInv(e) ==
    e \in Creditable /\ (seen[e] = "processed" \/ e \in acked) => topup[CheckoutOf[e]] = "completed"

\* What a worker knows of the session it is about to credit.
WorkerInv(w) ==
    /\ pc[w] # "idle" /\ event[w] \in Creditable => checkout[Subject(w)] = "paid"
    /\ pc[w] \in {"read_topup", "claim_topup", "credit", "commit_credit"} => event[w] \in Creditable
    /\ HoldsTopupRow(w) => topup[Subject(w)] = "pending"
    /\ pc[w] = "commit_plain" /\ event[w] \in Creditable => topup[Subject(w)] = "completed"

RowLocksExclusive ==
    \A v, w \in Worker :
        v # w /\ HoldsTopupRow(v) /\ HoldsTopupRow(w) => Subject(v) # Subject(w)

IInv ==
    /\ TypeOK
    /\ \A s \in Checkout : RowInv(s)
    /\ \A e \in Event : EventInv(e)
    /\ \A w \in Worker : WorkerInv(w)
    /\ RowLocksExclusive

LEMMA InitIInv == Init => IInv
BY EventsAssumption
   DEF Init, IInv, TypeOK, RowInv, EventInv, WorkerInv, RowLocksExclusive, HoldsTopupRow, Subject, Step

LEMMA TypeStep == TypeOK /\ [Next]_vars => TypeOK'
<1> SUFFICES ASSUME TypeOK, [Next]_vars PROVE TypeOK'
  OBVIOUS
<1> USE EventsAssumption DEF TypeOK, Goto, Step, rowVars
<1>0. Fault => faults' \in 0..MaxFaults
  BY DEF Fault
<1>1. ASSUME NEW s \in Checkout, CreateCheckout(s) PROVE TypeOK'
  BY <1>1 DEF CreateCheckout
<1>2. ASSUME NEW s \in Checkout, RecordTopup(s) PROVE TypeOK'
  BY <1>2 DEF RecordTopup
<1>3. ASSUME NEW s \in Checkout, LoseCheckout(s) PROVE TypeOK'
  BY <1>0, <1>3 DEF LoseCheckout
<1>4. ASSUME NEW s \in Checkout, Pay(s) PROVE TypeOK'
  BY <1>4 DEF Pay
<1>5. ASSUME NEW w \in Worker, NEW e \in Event, Deliver(w, e) PROVE TypeOK'
  BY <1>5 DEF Deliver
<1>6. ASSUME NEW w \in Worker, ClaimEvent(w) PROVE TypeOK'
  BY <1>6 DEF ClaimEvent
<1>7. ASSUME NEW w \in Worker, ReadBack(w) PROVE TypeOK'
  BY <1>7 DEF ReadBack
<1>8. ASSUME NEW w \in Worker, ReadTopup(w) PROVE TypeOK'
  BY <1>8 DEF ReadTopup
<1>9. ASSUME NEW w \in Worker, ClaimTopup(w) PROVE TypeOK'
  BY <1>9 DEF ClaimTopup
<1>10. ASSUME NEW w \in Worker, InsertCredit(w) PROVE TypeOK'
  BY <1>10 DEF InsertCredit
<1>11. ASSUME NEW w \in Worker, CommitCredit(w) PROVE TypeOK'
  BY <1>11 DEF CommitCredit, Subject
<1>12. ASSUME NEW w \in Worker, CommitPlain(w) PROVE TypeOK'
  BY <1>12 DEF CommitPlain
<1>13. ASSUME NEW w \in Worker, MarkEventFailed(w) PROVE TypeOK'
  BY <1>13 DEF MarkEventFailed
<1>14. ASSUME NEW w \in Worker, HandlerRaises(w) PROVE TypeOK'
  BY <1>0, <1>14 DEF HandlerRaises, Handling
<1>15. ASSUME NEW w \in Worker, MarkerLost(w) PROVE TypeOK'
  BY <1>0, <1>15 DEF MarkerLost
<1>16. ASSUME NEW w \in Worker, Crash(w) PROVE TypeOK'
  BY <1>0, <1>16 DEF Crash
<1>17. ASSUME NEW e \in Event, LeaseExpires(e) PROVE TypeOK'
  BY <1>17 DEF LeaseExpires
<1>18. ASSUME UNCHANGED vars PROVE TypeOK'
  BY <1>18 DEF vars
<1> QED
  BY <1>1, <1>2, <1>3, <1>4, <1>5, <1>6, <1>7, <1>8, <1>9,
     <1>10, <1>11, <1>12, <1>13, <1>14, <1>15, <1>16, <1>17, <1>18
     DEF Next, WorkerStep

LEMMA StepIInv == IInv /\ TypeOK' /\ [Next]_vars => IInv'
<1> SUFFICES ASSUME IInv, TypeOK', [Next]_vars
             PROVE  /\ \A s \in Checkout : RowInv(s)'
                    /\ \A e \in Event : EventInv(e)'
                    /\ \A w \in Worker : WorkerInv(w)'
                    /\ RowLocksExclusive'
  BY DEF IInv
<1> USE EventsAssumption DEF IInv, TypeOK, rowVars
<1> DEFINE Rows == \A s \in Checkout : RowInv(s)'
           Events == \A e \in Event : EventInv(e)'
           Workers == \A w \in Worker : WorkerInv(w)'
           All == Rows /\ Events /\ Workers /\ RowLocksExclusive'
<1>1. ASSUME NEW s \in Checkout, CreateCheckout(s) PROVE All
  <2>1. Rows
    BY <1>1 DEF CreateCheckout, RowInv
  <2>2. Events
    BY <1>1 DEF CreateCheckout, EventInv, RowInv
  <2>3. Workers
    BY <1>1 DEF CreateCheckout, WorkerInv, HoldsTopupRow, Subject, RowInv
  <2>4. RowLocksExclusive'
    BY <1>1 DEF CreateCheckout, RowLocksExclusive, HoldsTopupRow, Subject
  <2> QED BY <2>1, <2>2, <2>3, <2>4
<1>2. ASSUME NEW s \in Checkout, RecordTopup(s) PROVE All
  <2>1. Rows
    BY <1>2 DEF RecordTopup, RowInv
  <2>2. Events
    BY <1>2 DEF RecordTopup, EventInv, RowInv
  <2>3. Workers
    BY <1>2 DEF RecordTopup, WorkerInv, HoldsTopupRow, Subject, RowInv
  <2>4. RowLocksExclusive'
    BY <1>2 DEF RecordTopup, RowLocksExclusive, HoldsTopupRow, Subject
  <2> QED BY <2>1, <2>2, <2>3, <2>4
<1>3. ASSUME NEW s \in Checkout, LoseCheckout(s) PROVE All
  <2>1. Rows
    BY <1>3 DEF LoseCheckout, RowInv
  <2>2. Events
    BY <1>3 DEF LoseCheckout, EventInv, RowInv
  <2>3. Workers
    BY <1>3 DEF LoseCheckout, WorkerInv, HoldsTopupRow, Subject, RowInv
  <2>4. RowLocksExclusive'
    BY <1>3 DEF LoseCheckout, RowLocksExclusive, HoldsTopupRow, Subject
  <2> QED BY <2>1, <2>2, <2>3, <2>4
<1>4. ASSUME NEW s \in Checkout, Pay(s) PROVE All
  <2>1. Rows
    BY <1>4 DEF Pay, RowInv
  <2>2. Events
    BY <1>4 DEF Pay, EventInv
  <2>3. Workers
    BY <1>4 DEF Pay, WorkerInv, HoldsTopupRow, Subject, RowInv
  <2>4. RowLocksExclusive'
    BY <1>4 DEF Pay, RowLocksExclusive, HoldsTopupRow, Subject
  <2> QED BY <2>1, <2>2, <2>3, <2>4
<1>5. ASSUME NEW w \in Worker, NEW e \in Event, Deliver(w, e) PROVE All
  <2>1. Rows
    BY <1>5 DEF Deliver, Goto, Emitted, RowInv
  <2>2. Events
    BY <1>5 DEF Deliver, Goto, Emitted, EventInv
  <2>3. Workers
    BY <1>5 DEF Deliver, Goto, Emitted, WorkerInv, HoldsTopupRow, Subject
  <2>4. RowLocksExclusive'
    BY <1>5 DEF Deliver, Goto, Emitted, RowLocksExclusive, HoldsTopupRow, Subject
  <2> QED BY <2>1, <2>2, <2>3, <2>4
<1>6. ASSUME NEW w \in Worker, ClaimEvent(w) PROVE All
  <2>1. Rows
    BY <1>6 DEF ClaimEvent, Goto, RowInv
  <2>2. Events
    BY <1>6 DEF ClaimEvent, Goto, EventInv
  <2>3. Workers
    BY <1>6 DEF ClaimEvent, Goto, WorkerInv, HoldsTopupRow, Subject
  <2>4. RowLocksExclusive'
    BY <1>6 DEF ClaimEvent, Goto, RowLocksExclusive, HoldsTopupRow, Subject
  <2> QED BY <2>1, <2>2, <2>3, <2>4
<1>7. ASSUME NEW w \in Worker, ReadBack(w) PROVE All
  <2>1. Rows
    BY <1>7 DEF ReadBack, Goto, RowInv
  <2>2. Events
    BY <1>7 DEF ReadBack, Goto, EventInv
  <2>3. Workers
    BY <1>7 DEF ReadBack, Goto, WorkerInv, HoldsTopupRow, Subject
  <2>4. RowLocksExclusive'
    BY <1>7 DEF ReadBack, Goto, RowLocksExclusive, HoldsTopupRow, Subject
  <2> QED BY <2>1, <2>2, <2>3, <2>4
<1>8. ASSUME NEW w \in Worker, ReadTopup(w) PROVE All
  <2>1. Rows
    BY <1>8 DEF ReadTopup, Goto, RowInv
  <2>2. Events
    BY <1>8 DEF ReadTopup, Goto, EventInv
  <2>3. Workers
    BY <1>8 DEF ReadTopup, Goto, WorkerInv, HoldsTopupRow, Subject, RowInv
  <2>4. RowLocksExclusive'
    BY <1>8 DEF ReadTopup, Goto, RowLocksExclusive, HoldsTopupRow, Subject
  <2> QED BY <2>1, <2>2, <2>3, <2>4
<1>9. ASSUME NEW w \in Worker, ClaimTopup(w) PROVE All
  <2>1. Rows
    BY <1>9 DEF ClaimTopup, Goto, RowInv
  <2>2. Events
    BY <1>9 DEF ClaimTopup, Goto, EventInv
  <2>3. Workers
    BY <1>9 DEF ClaimTopup, Goto, WorkerInv, HoldsTopupRow, Subject, RowInv
  <2>4. RowLocksExclusive'
    BY <1>9 DEF ClaimTopup, Goto, RowLocksExclusive, HoldsTopupRow, Subject, TopupRowFree
  <2> QED BY <2>1, <2>2, <2>3, <2>4
<1>10. ASSUME NEW w \in Worker, InsertCredit(w) PROVE All
  <2>1. Rows
    BY <1>10 DEF InsertCredit, Goto, RowInv
  <2>2. Events
    BY <1>10 DEF InsertCredit, Goto, EventInv
  <2>3. Workers
    BY <1>10 DEF InsertCredit, Goto, WorkerInv, HoldsTopupRow, Subject
  <2>4. RowLocksExclusive'
    BY <1>10 DEF InsertCredit, Goto, RowLocksExclusive, HoldsTopupRow, Subject
  <2> QED BY <2>1, <2>2, <2>3, <2>4
<1>11. ASSUME NEW w \in Worker, CommitCredit(w) PROVE All
  <2>1. Rows
    BY <1>11 DEF CommitCredit, Goto, RowInv, WorkerInv, HoldsTopupRow, Subject
  <2>2. Events
    BY <1>11 DEF CommitCredit, Goto, EventInv, WorkerInv, HoldsTopupRow, Subject, RowInv
  <2>3. Workers
    BY <1>11 DEF CommitCredit, Goto, WorkerInv, HoldsTopupRow, Subject, RowLocksExclusive
  <2>4. RowLocksExclusive'
    BY <1>11 DEF CommitCredit, Goto, RowLocksExclusive, HoldsTopupRow, Subject
  <2> QED BY <2>1, <2>2, <2>3, <2>4
<1>12. ASSUME NEW w \in Worker, CommitPlain(w) PROVE All
  <2>1. Rows
    BY <1>12 DEF CommitPlain, Goto, RowInv
  <2>2. Events
    BY <1>12 DEF CommitPlain, Goto, EventInv, WorkerInv, Subject
  <2>3. Workers
    BY <1>12 DEF CommitPlain, Goto, WorkerInv, HoldsTopupRow, Subject
  <2>4. RowLocksExclusive'
    BY <1>12 DEF CommitPlain, Goto, RowLocksExclusive, HoldsTopupRow, Subject
  <2> QED BY <2>1, <2>2, <2>3, <2>4
<1>13. ASSUME NEW w \in Worker, MarkEventFailed(w) PROVE All
  <2>1. Rows
    BY <1>13 DEF MarkEventFailed, Goto, RowInv
  <2>2. Events
    BY <1>13 DEF MarkEventFailed, Goto, EventInv
  <2>3. Workers
    BY <1>13 DEF MarkEventFailed, Goto, WorkerInv, HoldsTopupRow, Subject
  <2>4. RowLocksExclusive'
    BY <1>13 DEF MarkEventFailed, Goto, RowLocksExclusive, HoldsTopupRow, Subject
  <2> QED BY <2>1, <2>2, <2>3, <2>4
<1>14. ASSUME NEW w \in Worker, HandlerRaises(w) PROVE All
  <2>1. Rows
    BY <1>14 DEF HandlerRaises, Goto, Handling, RowInv
  <2>2. Events
    BY <1>14 DEF HandlerRaises, Goto, Handling, EventInv
  <2>3. Workers
    BY <1>14 DEF HandlerRaises, Goto, Handling, WorkerInv, HoldsTopupRow, Subject
  <2>4. RowLocksExclusive'
    BY <1>14 DEF HandlerRaises, Goto, Handling, RowLocksExclusive, HoldsTopupRow, Subject
  <2> QED BY <2>1, <2>2, <2>3, <2>4
<1>15. ASSUME NEW w \in Worker, MarkerLost(w) PROVE All
  <2>1. Rows
    BY <1>15 DEF MarkerLost, Goto, RowInv
  <2>2. Events
    BY <1>15 DEF MarkerLost, Goto, EventInv
  <2>3. Workers
    BY <1>15 DEF MarkerLost, Goto, WorkerInv, HoldsTopupRow, Subject
  <2>4. RowLocksExclusive'
    BY <1>15 DEF MarkerLost, Goto, RowLocksExclusive, HoldsTopupRow, Subject
  <2> QED BY <2>1, <2>2, <2>3, <2>4
<1>16. ASSUME NEW w \in Worker, Crash(w) PROVE All
  <2>1. Rows
    BY <1>16 DEF Crash, Goto, RowInv
  <2>2. Events
    BY <1>16 DEF Crash, Goto, EventInv
  <2>3. Workers
    BY <1>16 DEF Crash, Goto, WorkerInv, HoldsTopupRow, Subject
  <2>4. RowLocksExclusive'
    BY <1>16 DEF Crash, Goto, RowLocksExclusive, HoldsTopupRow, Subject
  <2> QED BY <2>1, <2>2, <2>3, <2>4
<1>17. ASSUME NEW e \in Event, LeaseExpires(e) PROVE All
  <2>1. Rows
    BY <1>17 DEF LeaseExpires, RowInv
  <2>2. Events
    BY <1>17 DEF LeaseExpires, EventInv
  <2>3. Workers
    BY <1>17 DEF LeaseExpires, WorkerInv, HoldsTopupRow, Subject
  <2>4. RowLocksExclusive'
    BY <1>17 DEF LeaseExpires, RowLocksExclusive, HoldsTopupRow, Subject
  <2> QED BY <2>1, <2>2, <2>3, <2>4
<1>18. ASSUME UNCHANGED vars PROVE All
  BY <1>18 DEF vars, RowInv, EventInv, WorkerInv, RowLocksExclusive, HoldsTopupRow, Subject
<1> HIDE DEF All
<1>100. All
  BY <1>1, <1>2, <1>3, <1>4, <1>5, <1>6, <1>7, <1>8, <1>9,
     <1>10, <1>11, <1>12, <1>13, <1>14, <1>15, <1>16, <1>17, <1>18
     DEF Next, WorkerStep
<1> QED BY <1>100 DEF All

LEMMA IInvAlways == Spec => []IInv
<1>1. IInv => TypeOK
  BY DEF IInv
<1> QED BY <1>1, InitIInv, TypeStep, StepIInv, PTL DEF Spec

\* Every variable keeps its type, the bound on faults included.
THEOREM TopupTypeCorrect == Spec => []TypeOK
<1>1. IInv => TypeOK
  BY DEF IInv
<1> QED BY <1>1, IInvAlways, PTL

\* No race between deliveries, stalls and crashes credits a session twice.
THEOREM NeverCreditedTwice == Spec => []CreditedOnce
<1>1. IInv => \A s \in Checkout : credits[s] \in {0, 1}
  BY DEF IInv, RowInv
<1>2. IInv => CreditedOnce
  <2> SUFFICES ASSUME IInv, NEW s \in Checkout PROVE credits[s] <= 1
    BY DEF CreditedOnce
  <2>1. CASE credits[s] = 0
    BY <2>1
  <2>2. CASE credits[s] = 1
    BY <2>2
  <2> QED BY <1>1, <2>1, <2>2
<1> QED BY <1>2, IInvAlways, PTL

\* "processed" proves the credit landed.
THEOREM ProcessedProvesCredit == Spec => []ProcessedIsCredited
<1>1. IInv => ProcessedIsCredited
  BY EventsAssumption DEF IInv, RowInv, EventInv, ProcessedIsCredited
<1> QED BY <1>1, IInvAlways, PTL

\* Stripe stops redelivering only what was credited.
THEOREM AckProvesCredit == Spec => []AckedIsCredited
<1>1. IInv => AckedIsCredited
  BY EventsAssumption DEF IInv, RowInv, EventInv, AckedIsCredited
<1> QED BY <1>1, IInvAlways, PTL

\* No late failure marker reopens a processed event.
THEOREM ProcessedStays == Spec => ProcessedIsFinal
<1>1. IInv /\ [Next]_vars => [\A e \in Event : seen[e] = "processed" => seen'[e] = "processed"]_vars
  BY EventsAssumption
     DEF IInv, TypeOK, Next, WorkerStep, vars, rowVars, CreateCheckout, RecordTopup, LoseCheckout, Pay,
         Deliver, ClaimEvent, Claimable, ReadBack, ReadTopup, ClaimTopup, InsertCredit, CommitCredit,
         CommitPlain, MarkEventFailed, HandlerRaises, MarkerLost, Crash, LeaseExpires
<1> QED BY <1>1, IInvAlways, PTL DEF Spec, ProcessedIsFinal

\* The safety half of TopupPromise: only a paid session is credited, once.
THEOREM PromiseKept == Spec => Promise!Init /\ [][Promise!Next]_(Promise!promiseVars)
<1>1. Init => Promise!Init
  BY DEF Init, Promise!Init
<1>2. IInv /\ IInv' /\ [Next]_vars => [Promise!Next]_(Promise!promiseVars)
  <2> SUFFICES ASSUME IInv, IInv', [Next]_vars PROVE Promise!Next \/ UNCHANGED Promise!promiseVars
    OBVIOUS
  <2> USE EventsAssumption DEF IInv, TypeOK, rowVars
  <2>1. ASSUME NEW s \in Checkout, Pay(s) PROVE Promise!Pay(s)
    BY <2>1 DEF Pay, Promise!Pay
  <2>2. ASSUME NEW w \in Worker, CommitCredit(w) PROVE Promise!Credit(Subject(w)) /\ Subject(w) \in Checkout
    <3> DEFINE s == Subject(w)
    <3>1. /\ event[w] \in Creditable /\ s \in Checkout
          /\ checkout[s] = "paid" /\ topup[s] = "pending" /\ UNCHANGED checkout
      BY <2>2 DEF CommitCredit, WorkerInv, HoldsTopupRow, Subject
    <3>2. credits[s] = 0
      BY <3>1 DEF RowInv
    <3>3. credits' = [credits EXCEPT ![s] = 1]
      BY <2>2, <3>1, <3>2 DEF CommitCredit
    <3> HIDE DEF s
    <3>4. Promise!Credit(s)
      BY <3>1, <3>2, <3>3 DEF Promise!Credit
    <3> QED BY <3>1, <3>4 DEF s
  <2>3. ASSUME UNCHANGED credits, \A s \in Checkout : checkout'[s] = "paid" <=> checkout[s] = "paid"
        PROVE  UNCHANGED Promise!promiseVars
    BY <2>3 DEF Promise!promiseVars
  <2>4. ASSUME NEW s \in Checkout, CreateCheckout(s) \/ RecordTopup(s) \/ LoseCheckout(s)
        PROVE  UNCHANGED Promise!promiseVars
    BY <2>3, <2>4 DEF CreateCheckout, RecordTopup, LoseCheckout
  <2>5. ASSUME NEW w \in Worker, NEW e \in Event, Deliver(w, e) \/ LeaseExpires(e)
        PROVE  UNCHANGED Promise!promiseVars
    BY <2>3, <2>5 DEF Deliver, LeaseExpires
  <2>6. ASSUME NEW w \in Worker,
               \/ ClaimEvent(w) \/ ReadBack(w) \/ ReadTopup(w) \/ ClaimTopup(w) \/ InsertCredit(w)
               \/ CommitPlain(w) \/ MarkEventFailed(w) \/ HandlerRaises(w) \/ MarkerLost(w) \/ Crash(w)
        PROVE  UNCHANGED Promise!promiseVars
    BY <2>3, <2>6 DEF ClaimEvent, ReadBack, ReadTopup, ClaimTopup, InsertCredit, CommitPlain,
                      MarkEventFailed, HandlerRaises, MarkerLost, Crash
  <2>7. ASSUME UNCHANGED vars PROVE UNCHANGED Promise!promiseVars
    BY <2>3, <2>7 DEF vars
  <2>9. ASSUME NEW e \in Event, LeaseExpires(e) PROVE UNCHANGED Promise!promiseVars
    BY <2>3, <2>9 DEF LeaseExpires
  <2>10. ASSUME NEW s \in Checkout, Pay(s) PROVE Promise!Next
    BY <2>1, <2>10 DEF Promise!Next
  <2>11. ASSUME NEW w \in Worker, CommitCredit(w) PROVE Promise!Next
    BY <2>2, <2>11 DEF Promise!Next
  <2> QED BY <2>4, <2>5, <2>6, <2>7, <2>9, <2>10, <2>11 DEF Next, WorkerStep
<1> QED BY <1>1, <1>2, IInvAlways, PTL DEF Spec
=============================================================================
