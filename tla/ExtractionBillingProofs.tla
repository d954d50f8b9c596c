----------------------- MODULE ExtractionBillingProofs -----------------------
(***************************************************************************)
(* Theorems about ExtractionBilling, for any number of requests, users,    *)
(* keys and processes, any prices and any retry bound.                     *)
(***************************************************************************)
EXTENDS ExtractionBilling, FiniteSetTheorems, TLAPS

-----------------------------------------------------------------------------
(* Sums of prices. *)

\* One more request in a set adds its price to the set's sum.
LEMMA CentsAdd ==
    ASSUME NEW S \in SUBSET Request, NEW r \in Request, r \notin S
    PROVE  /\ Cents(S) \in Nat
           /\ Cents(S \cup {r}) = Cents(S) + PriceOf[r]
<1> DEFINE pub == S \ Private
           pri == S \cap Private
<1>1. IsFiniteSet(pub) /\ IsFiniteSet(pri)
  BY KeysAssumption, FS_Subset
<1>2. Cardinality(pub) \in Nat /\ Cardinality(pri) \in Nat
  BY <1>1, FS_CardinalityType
<1>3. PublicCents \in Nat /\ PrivateCents \in Nat
  BY CentsAssumption
<1>4. Cents(S) = PublicCents * Cardinality(pub) + PrivateCents * Cardinality(pri)
  BY DEF Cents
<1>5. Cents(S) \in Nat
  <2>1. PublicCents * Cardinality(pub) \in Nat /\ PrivateCents * Cardinality(pri) \in Nat
    BY <1>2, <1>3
  <2> QED BY <2>1, <1>4
<1>6. CASE r \in Private
  <2>1. (S \cup {r}) \ Private = pub /\ (S \cup {r}) \cap Private = pri \cup {r}
    BY <1>6
  <2>2. Cardinality(pri \cup {r}) = Cardinality(pri) + 1
    BY <1>1, FS_AddElement
  <2>3. Cents(S \cup {r}) = PublicCents * Cardinality(pub) + PrivateCents * (Cardinality(pri) + 1)
    BY <2>1, <2>2 DEF Cents
  <2>4. PriceOf[r] = PrivateCents
    BY <1>6 DEF PriceOf
  <2>5. PrivateCents * (Cardinality(pri) + 1) = PrivateCents * Cardinality(pri) + PrivateCents
    BY <1>2, <1>3
  <2> HIDE DEF pub, pri
  <2> QED BY <2>3, <2>4, <2>5, <1>2, <1>3, <1>4, <1>5
<1>7. CASE r \notin Private
  <2>1. (S \cup {r}) \ Private = pub \cup {r} /\ (S \cup {r}) \cap Private = pri
    BY <1>7
  <2>2. Cardinality(pub \cup {r}) = Cardinality(pub) + 1
    BY <1>1, FS_AddElement
  <2>3. Cents(S \cup {r}) = PublicCents * (Cardinality(pub) + 1) + PrivateCents * Cardinality(pri)
    BY <2>1, <2>2 DEF Cents
  <2>4. PriceOf[r] = PublicCents
    BY <1>7 DEF PriceOf
  <2>5. PublicCents * (Cardinality(pub) + 1) = PublicCents * Cardinality(pub) + PublicCents
    BY <1>2, <1>3
  <2> HIDE DEF pub, pri
  <2> QED BY <2>3, <2>4, <2>5, <1>2, <1>3, <1>4, <1>5
<1> QED BY <1>5, <1>6, <1>7

-----------------------------------------------------------------------------
(* Where a request stands determines what its rows say. *)

BeforeCharge == {"idle", "read_balance", "read_cap", "enter_lock"} \cup CriticalSection

\* What is known of the rows and the answer of request r from its pc.
ControlInv(r) ==
    /\ pc[r] \in BeforeCharge => /\ extraction[r] = "none"
                                 /\ failure[r] = NoFailure
                                 /\ attempt[r] < MaxRetries
    /\ pc[r] \in {"extract", "persist", "bridge_error", "storage_error"}
         => extraction[r] = "pending"
    /\ pc[r] = "storage_error" => failure[r] = PersistError
    /\ pc[r] \in {"score", "commit_refund"} => extraction[r] = "ok"
    /\ pc[r] # "done" => /\ reply[r] = "none"
                         /\ extraction[r] \notin {"failed", "low_quality"}
    /\ reply[r] \in Refusal => extraction[r] = "none"
    /\ reply[r] \in Reply \ (Refusal \cup {"none"}) => extraction[r] # "none"
    /\ reply[r] = "ok" => extraction[r] = "ok"
    /\ reply[r] = "server_error" => extraction[r] = "pending"
    /\ reply[r] = "storage_failed" => extraction[r] = "failed" /\ failure[r] = PersistError
    /\ reply[r] = "low_quality" <=> extraction[r] = "low_quality"
    /\ r \in audited <=> extraction[r] = "low_quality"

RefundDue(r) ==
    \/ extraction[r] = "low_quality"
    \/ extraction[r] = "failed" /\ failure[r] \in Refundable

\* RowMatchesLedger of one request, with the two notes written out.
RowInv(r) ==
    /\ extraction[r] # "none" <=> r \in charged
    /\ RefundDue(r) <=>
         (r \in refundRows["extraction_failed"] \/ r \in refundRows["low_quality_refund"])
    /\ r \notin refundRows["extraction_failed"] \/ r \notin refundRows["low_quality_refund"]

StatusInv == TypeOK /\ \A r \in Request : ControlInv(r) /\ RowInv(r)

LEMMA RefundedNotes ==
    ASSUME NEW r
    PROVE  Refunded(r) <=>
             (r \in refundRows["extraction_failed"] \/ r \in refundRows["low_quality_refund"])
BY DEF Refunded, RefundNote

LEMMA StatusInit == Init => StatusInv
<1> SUFFICES ASSUME Init PROVE StatusInv
  OBVIOUS
<1> USE KeysAssumption, CentsAssumption, PolicyAssumption DEF Init
<1>1. TypeOK
  <2>1. pc \in [Request -> Step] /\ attempt \in [Request -> 0..MaxRetries]
    BY DEF Step
  <2>2. deposits \in [User -> Nat] /\ charged \subseteq Request /\ recent \subseteq charged
    OBVIOUS
  <2>3. refundRows \in [RefundNote -> SUBSET Request]
    OBVIOUS
  <2>4. /\ extraction \in [Request -> Status]
        /\ failure \in [Request -> FailureCode \cup {NoFailure}]
    BY DEF Status
  <2>5. cap \in [Key -> CapCents \cup {NoCap}] /\ capSeen \in [Request -> CapCents \cup {NoCap}]
    OBVIOUS
  <2>6. emailed \subseteq Request /\ audited \subseteq Request /\ reply \in [Request -> Reply]
    BY DEF Reply
  <2> QED BY <2>1, <2>2, <2>3, <2>4, <2>5, <2>6 DEF TypeOK
<1>2. ASSUME NEW r \in Request PROVE ControlInv(r)
  BY DEF ControlInv, BeforeCharge, CriticalSection, Refusal, Reply
<1>3. ASSUME NEW r \in Request PROVE RowInv(r)
  <2>1. refundRows["extraction_failed"] = {} /\ refundRows["low_quality_refund"] = {}
    BY DEF RefundNote
  <2>2. extraction[r] = "none" /\ charged = {}
    OBVIOUS
  <2> QED BY <2>1, <2>2 DEF RowInv, RefundDue
<1> QED BY <1>1, <1>2, <1>3 DEF StatusInv

LEMMA RefundEffect ==
    ASSUME TypeOK, NEW r \in Request, NEW note \in RefundNote, _refund(r, note)
    PROVE  /\ refundRows' \in [RefundNote -> SUBSET Request]
           /\ Refunded(r) => refundRows' = refundRows
           /\ ~Refunded(r) => \A n \in RefundNote :
                refundRows'[n] = IF n = note THEN refundRows[n] \cup {r} ELSE refundRows[n]
<1>1. refundRows \in [RefundNote -> SUBSET Request]
  BY DEF TypeOK
<1>2. CASE Refunded(r)
  BY <1>1, <1>2 DEF _refund
<1>3. CASE ~Refunded(r)
  <2>1. refundRows' = [refundRows EXCEPT ![note] = @ \cup {r}]
    BY <1>3 DEF _refund
  <2> QED BY <1>1, <1>3, <2>1
<1> QED BY <1>2, <1>3

\* A request whose own columns a step leaves alone keeps its invariants.
LEMMA Frame ==
    ASSUME NEW q, ControlInv(q), RowInv(q),
           pc'[q] = pc[q], attempt'[q] = attempt[q], extraction'[q] = extraction[q],
           failure'[q] = failure[q], reply'[q] = reply[q],
           q \in charged' <=> q \in charged,
           q \in audited' <=> q \in audited,
           \A n \in RefundNote : q \in refundRows'[n] <=> q \in refundRows[n]
    PROVE  ControlInv(q)' /\ RowInv(q)'
BY DEF ControlInv, RowInv, RefundDue, RefundNote

LEMMA StatusStep == StatusInv /\ [Next]_vars => StatusInv'
<1> SUFFICES ASSUME StatusInv, [Next]_vars PROVE StatusInv'
  OBVIOUS
<1> USE PolicyAssumption
<1> USE DEF Goto, Answer, ledgerVars, capVars, noticeVars
<1> DEFINE Inv(q) == ControlInv(q) /\ RowInv(q)
<1>0. TypeOK /\ \A q \in Request : Inv(q)
  BY DEF StatusInv
<1>1. ASSUME NEW r \in Request, Authenticate(r) PROVE StatusInv'
  <2>1. TypeOK'
    BY <1>0, <1>1, KeysAssumption DEF Authenticate, TypeOK, Step
  <2>2. ASSUME NEW q \in Request PROVE Inv(q)'
    BY <1>0, <1>1, KeysAssumption DEF Authenticate, TypeOK, ControlInv, RowInv, RefundDue, BeforeCharge, CriticalSection
  <2> QED BY <2>1, <2>2 DEF StatusInv
<1>2. ASSUME NEW r \in Request, ReadBalance(r) PROVE StatusInv'
  <2>1. TypeOK'
    BY <1>0, <1>2 DEF ReadBalance, TypeOK, Step, Reply, Refusal
  <2>2. ASSUME NEW q \in Request, q # r PROVE Inv(q)'
    <3>1. /\ pc'[q] = pc[q] /\ attempt'[q] = attempt[q] /\ extraction'[q] = extraction[q]
          /\ failure'[q] = failure[q] /\ reply'[q] = reply[q]
          /\ q \in charged' <=> q \in charged
          /\ q \in audited' <=> q \in audited
          /\ \A note \in RefundNote : q \in refundRows'[note] <=> q \in refundRows[note]
      BY <1>0, <1>2, <2>2 DEF ReadBalance, TypeOK
    <3> QED BY <1>0, <2>2, <3>1, Frame
  <2>3. ControlInv(r)'
    BY <1>0, <1>2 DEF ReadBalance, TypeOK, ControlInv, BeforeCharge, CriticalSection, Reply, Refusal
  <2>4. RowInv(r)'
    BY <1>0, <1>2 DEF ReadBalance, TypeOK, ControlInv, RowInv, RefundDue, BeforeCharge, CriticalSection
  <2> QED BY <2>1, <2>2, <2>3, <2>4 DEF StatusInv
<1>3. ASSUME NEW r \in Request, ReadCap(r) PROVE StatusInv'
  <2>1. TypeOK'
    BY <1>0, <1>3 DEF ReadCap, TypeOK, Step, Reply, Refusal
  <2>2. ASSUME NEW q \in Request, q # r PROVE Inv(q)'
    <3>1. /\ pc'[q] = pc[q] /\ attempt'[q] = attempt[q] /\ extraction'[q] = extraction[q]
          /\ failure'[q] = failure[q] /\ reply'[q] = reply[q]
          /\ q \in charged' <=> q \in charged
          /\ q \in audited' <=> q \in audited
          /\ \A note \in RefundNote : q \in refundRows'[note] <=> q \in refundRows[note]
      BY <1>0, <1>3, <2>2 DEF ReadCap, TypeOK
    <3> QED BY <1>0, <2>2, <3>1, Frame
  <2>3. ControlInv(r)'
    BY <1>0, <1>3 DEF ReadCap, TypeOK, ControlInv, BeforeCharge, CriticalSection, Reply, Refusal
  <2>4. RowInv(r)'
    BY <1>0, <1>3 DEF ReadCap, TypeOK, ControlInv, RowInv, RefundDue, BeforeCharge, CriticalSection
  <2> QED BY <2>1, <2>2, <2>3, <2>4 DEF StatusInv
<1>4. ASSUME NEW r \in Request, EnterUserLock(r) PROVE StatusInv'
  <2>1. TypeOK'
    BY <1>0, <1>4 DEF EnterUserLock, TypeOK, Step, CriticalSection
  <2>2. ASSUME NEW q \in Request PROVE Inv(q)'
    BY <1>0, <1>4 DEF EnterUserLock, TypeOK, ControlInv, RowInv, RefundDue, BeforeCharge, CriticalSection
  <2> QED BY <2>1, <2>2 DEF StatusInv
<1>5. ASSUME NEW r \in Request, LockUserRow(r) PROVE StatusInv'
  <2>1. TypeOK'
    BY <1>0, <1>5 DEF LockUserRow, TypeOK, Step, CriticalSection
  <2>2. ASSUME NEW q \in Request PROVE Inv(q)'
    BY <1>0, <1>5 DEF LockUserRow, TypeOK, ControlInv, RowInv, RefundDue, BeforeCharge, CriticalSection
  <2> QED BY <2>1, <2>2 DEF StatusInv
<1>6. ASSUME NEW r \in Request, RecheckBalance(r) PROVE StatusInv'
  <2>1. TypeOK'
    BY <1>0, <1>6 DEF RecheckBalance, TypeOK, Step, Reply, Refusal, CriticalSection
  <2>2. ASSUME NEW q \in Request, q # r PROVE Inv(q)'
    <3>1. /\ pc'[q] = pc[q] /\ attempt'[q] = attempt[q] /\ extraction'[q] = extraction[q]
          /\ failure'[q] = failure[q] /\ reply'[q] = reply[q]
          /\ q \in charged' <=> q \in charged
          /\ q \in audited' <=> q \in audited
          /\ \A note \in RefundNote : q \in refundRows'[note] <=> q \in refundRows[note]
      BY <1>0, <1>6, <2>2 DEF RecheckBalance, TypeOK
    <3> QED BY <1>0, <2>2, <3>1, Frame
  <2>3. ControlInv(r)'
    BY <1>0, <1>6 DEF RecheckBalance, TypeOK, ControlInv, BeforeCharge, CriticalSection, Reply, Refusal
  <2>4. RowInv(r)'
    BY <1>0, <1>6 DEF RecheckBalance, TypeOK, ControlInv, RowInv, RefundDue, BeforeCharge, CriticalSection
  <2> QED BY <2>1, <2>2, <2>3, <2>4 DEF StatusInv
<1>7. ASSUME NEW r \in Request, RecheckCap(r) PROVE StatusInv'
  <2>1. TypeOK'
    BY <1>0, <1>7 DEF RecheckCap, TypeOK, Step, Reply, Refusal, CriticalSection
  <2>2. ASSUME NEW q \in Request, q # r PROVE Inv(q)'
    <3>1. /\ pc'[q] = pc[q] /\ attempt'[q] = attempt[q] /\ extraction'[q] = extraction[q]
          /\ failure'[q] = failure[q] /\ reply'[q] = reply[q]
          /\ q \in charged' <=> q \in charged
          /\ q \in audited' <=> q \in audited
          /\ \A note \in RefundNote : q \in refundRows'[note] <=> q \in refundRows[note]
      BY <1>0, <1>7, <2>2 DEF RecheckCap, TypeOK
    <3> QED BY <1>0, <2>2, <3>1, Frame
  <2>3. ControlInv(r)'
    BY <1>0, <1>7 DEF RecheckCap, TypeOK, ControlInv, BeforeCharge, CriticalSection, Reply, Refusal
  <2>4. RowInv(r)'
    BY <1>0, <1>7 DEF RecheckCap, TypeOK, ControlInv, RowInv, RefundDue, BeforeCharge, CriticalSection
  <2> QED BY <2>1, <2>2, <2>3, <2>4 DEF StatusInv
<1>8. ASSUME NEW r \in Request, InsertCharge(r) PROVE StatusInv'
  <2>1. TypeOK'
    <3>1. attempt[r] \in 0..MaxRetries /\ attempt[r] < MaxRetries
      BY <1>0, <1>8 DEF InsertCharge, TypeOK, ControlInv, BeforeCharge, CriticalSection
    <3>2. attempt[r] + 1 \in 0..MaxRetries
      BY <3>1
    <3>3. attempt' \in [Request -> 0..MaxRetries]
      BY <1>0, <1>8, <3>2 DEF InsertCharge, TypeOK
    <3>4. pc' \in [Request -> Step] /\ reply' \in [Request -> Reply]
      BY <1>0, <1>8 DEF InsertCharge, TypeOK, Step, CriticalSection, Reply, Refusal
    <3> QED BY <1>0, <1>8, <3>3, <3>4 DEF InsertCharge, TypeOK
  <2>2. ASSUME NEW q \in Request, q # r PROVE Inv(q)'
    <3>1. /\ pc'[q] = pc[q] /\ attempt'[q] = attempt[q] /\ extraction'[q] = extraction[q]
          /\ failure'[q] = failure[q] /\ reply'[q] = reply[q]
          /\ q \in charged' <=> q \in charged
          /\ q \in audited' <=> q \in audited
          /\ \A note \in RefundNote : q \in refundRows'[note] <=> q \in refundRows[note]
      BY <1>0, <1>8, <2>2 DEF InsertCharge, TypeOK
    <3> QED BY <1>0, <2>2, <3>1, Frame
  <2>3. ControlInv(r)'
    BY <1>0, <1>8 DEF InsertCharge, TypeOK, ControlInv, BeforeCharge, CriticalSection, Reply, Refusal
  <2>4. RowInv(r)'
    BY <1>0, <1>8 DEF InsertCharge, TypeOK, ControlInv, RowInv, RefundDue, BeforeCharge, CriticalSection
  <2> QED BY <2>1, <2>2, <2>3, <2>4 DEF StatusInv
<1>9. ASSUME NEW r \in Request, CommitCharge(r) PROVE StatusInv'
  <2>1. TypeOK'
    BY <1>0, <1>9 DEF CommitCharge, TypeOK, Step, Status
  <2>2. ASSUME NEW q \in Request, q # r PROVE Inv(q)'
    <3>1. /\ pc'[q] = pc[q] /\ attempt'[q] = attempt[q] /\ extraction'[q] = extraction[q]
          /\ failure'[q] = failure[q] /\ reply'[q] = reply[q]
          /\ q \in charged' <=> q \in charged
          /\ q \in audited' <=> q \in audited
          /\ \A note \in RefundNote : q \in refundRows'[note] <=> q \in refundRows[note]
      BY <1>0, <1>9, <2>2 DEF CommitCharge, TypeOK
    <3> QED BY <1>0, <2>2, <3>1, Frame
  <2>3. ControlInv(r)'
    BY <1>0, <1>9 DEF CommitCharge, TypeOK, ControlInv, BeforeCharge, CriticalSection, Reply, Refusal
  <2>4. RowInv(r)'
    BY <1>0, <1>9 DEF CommitCharge, TypeOK, ControlInv, RowInv, RefundDue, BeforeCharge, CriticalSection
  <2> QED BY <2>1, <2>2, <2>3, <2>4 DEF StatusInv
<1>10. ASSUME NEW r \in Request, RunExtractor(r) PROVE StatusInv'
  <2>1. TypeOK'
    BY <1>0, <1>10 DEF RunExtractor, TypeOK, Step
  <2>2. ASSUME NEW q \in Request, q # r PROVE Inv(q)'
    <3>1. /\ pc'[q] = pc[q] /\ attempt'[q] = attempt[q] /\ extraction'[q] = extraction[q]
          /\ failure'[q] = failure[q] /\ reply'[q] = reply[q]
          /\ q \in charged' <=> q \in charged
          /\ q \in audited' <=> q \in audited
          /\ \A note \in RefundNote : q \in refundRows'[note] <=> q \in refundRows[note]
      BY <1>0, <1>10, <2>2 DEF RunExtractor, TypeOK
    <3> QED BY <1>0, <2>2, <3>1, Frame
  <2>3. ControlInv(r)'
    BY <1>0, <1>10 DEF RunExtractor, TypeOK, ControlInv, BeforeCharge, CriticalSection, Reply, Refusal
  <2>4. RowInv(r)'
    BY <1>0, <1>10 DEF RunExtractor, TypeOK, ControlInv, RowInv, RefundDue, BeforeCharge, CriticalSection
  <2> QED BY <2>1, <2>2, <2>3, <2>4 DEF StatusInv
<1>11. ASSUME NEW r \in Request, RecordBridgeError(r) PROVE StatusInv'
  <2>1. TypeOK'
    <3>1. refundRows' \in [RefundNote -> SUBSET Request]
      BY <1>0, <1>11, RefundEffect DEF RecordBridgeError, TypeOK, RefundNote
    <3> QED BY <1>0, <1>11, <3>1 DEF RecordBridgeError, TypeOK, Step, Status, Reply
  <2>2. ASSUME NEW q \in Request, q # r PROVE Inv(q)'
    <3>1. /\ pc'[q] = pc[q] /\ attempt'[q] = attempt[q] /\ extraction'[q] = extraction[q]
          /\ failure'[q] = failure[q] /\ reply'[q] = reply[q]
          /\ q \in charged' <=> q \in charged
          /\ q \in audited' <=> q \in audited
          /\ \A note \in RefundNote : q \in refundRows'[note] <=> q \in refundRows[note]
      BY <1>0, <1>11, <2>2, RefundEffect DEF RecordBridgeError, TypeOK, RefundNote
    <3> QED BY <1>0, <2>2, <3>1, Frame
  <2> DEFINE note == "extraction_failed"
              other == "low_quality_refund"
  <2>r. /\ pc[r] = "bridge_error" /\ extraction[r] = "pending" /\ reply[r] = "none"
        /\ r \in charged /\ r \notin audited /\ ~Refunded(r)
        /\ r \notin refundRows[note] /\ r \notin refundRows[other]
    BY <1>0, <1>11, RefundedNotes DEF RecordBridgeError, ControlInv, RowInv, RefundDue
  <2>s. /\ pc'[r] = "done" /\ extraction'[r] = "failed" /\ reply'[r] = "extractor_failed"
        /\ failure'[r] = failure[r] /\ charged' = charged /\ (r \in audited' <=> r \in audited)
    BY <1>0, <1>11, <2>r DEF RecordBridgeError, TypeOK
  <2>3. ControlInv(r)'
    BY <2>r, <2>s DEF ControlInv, BeforeCharge, CriticalSection, Reply, Refusal
  <2>4. RowInv(r)'
    <3>1. note \in RefundNote /\ other \in RefundNote /\ note # other
      BY DEF RefundNote
    <3>2. failure[r] \in Refundable => _refund(r, note)
      BY <1>11 DEF RecordBridgeError
    <3>3. failure[r] \in Refundable => r \in refundRows'[note] /\ r \notin refundRows'[other]
      <4> HIDE DEF note, other
      <4>1. ASSUME _refund(r, note)
            PROVE  \A m \in RefundNote : refundRows'[m] = IF m = note THEN refundRows[m] \cup {r} ELSE refundRows[m]
        BY <1>0, <2>r, <3>1, <4>1, RefundEffect
      <4> QED BY <2>r, <3>1, <3>2, <4>1
    <3>4. failure[r] \notin Refundable => refundRows' = refundRows
      BY <1>11 DEF RecordBridgeError
    <3> QED BY <2>r, <2>s, <3>3, <3>4 DEF RowInv, RefundDue
  <2> QED BY <2>1, <2>2, <2>3, <2>4 DEF StatusInv
<1>12. ASSUME NEW r \in Request, RecordStorageError(r) PROVE StatusInv'
  <2>1. TypeOK'
    <3>1. refundRows' \in [RefundNote -> SUBSET Request]
      BY <1>0, <1>12, RefundEffect DEF RecordStorageError, TypeOK, RefundNote
    <3> QED BY <1>0, <1>12, <3>1 DEF RecordStorageError, TypeOK, Step, Status, Reply
  <2>2. ASSUME NEW q \in Request, q # r PROVE Inv(q)'
    <3>1. /\ pc'[q] = pc[q] /\ attempt'[q] = attempt[q] /\ extraction'[q] = extraction[q]
          /\ failure'[q] = failure[q] /\ reply'[q] = reply[q]
          /\ q \in charged' <=> q \in charged
          /\ q \in audited' <=> q \in audited
          /\ \A note \in RefundNote : q \in refundRows'[note] <=> q \in refundRows[note]
      BY <1>0, <1>12, <2>2, RefundEffect DEF RecordStorageError, TypeOK, RefundNote
    <3> QED BY <1>0, <2>2, <3>1, Frame
  <2> DEFINE note == "extraction_failed"
              other == "low_quality_refund"
  <2>r. /\ pc[r] = "storage_error" /\ extraction[r] = "pending" /\ reply[r] = "none"
        /\ r \in charged /\ r \notin audited /\ ~Refunded(r)
        /\ r \notin refundRows[note] /\ r \notin refundRows[other] /\ failure[r] = PersistError
    BY <1>0, <1>12, RefundedNotes DEF RecordStorageError, ControlInv, RowInv, RefundDue
  <2>s. /\ pc'[r] = "done" /\ extraction'[r] = "failed" /\ reply'[r] = "storage_failed"
        /\ failure'[r] = failure[r] /\ charged' = charged /\ (r \in audited' <=> r \in audited)
    BY <1>0, <1>12, <2>r DEF RecordStorageError, TypeOK
  <2>3. ControlInv(r)'
    BY <2>r, <2>s DEF ControlInv, BeforeCharge, CriticalSection, Reply, Refusal
  <2>4. RowInv(r)'
    <3>1. note \in RefundNote /\ other \in RefundNote /\ note # other
      BY DEF RefundNote
    <3>2. _refund(r, note)
      BY <1>12 DEF RecordStorageError
    <3>3. r \in refundRows'[note] /\ r \notin refundRows'[other]
      <4> HIDE DEF note, other
      <4>1. ASSUME _refund(r, note)
            PROVE  \A m \in RefundNote : refundRows'[m] = IF m = note THEN refundRows[m] \cup {r} ELSE refundRows[m]
        BY <1>0, <2>r, <3>1, <4>1, RefundEffect
      <4> QED BY <2>r, <3>1, <3>2, <4>1
    <3> QED BY <2>r, <2>s, <3>3 DEF RowInv, RefundDue
  <2> QED BY <2>1, <2>2, <2>3, <2>4 DEF StatusInv
<1>13. ASSUME NEW r \in Request, PersistBundle(r) PROVE StatusInv'
  <2>1. TypeOK'
    BY <1>0, <1>13 DEF PersistBundle, TypeOK, Step, Status
  <2>2. ASSUME NEW q \in Request PROVE Inv(q)'
    BY <1>0, <1>13 DEF PersistBundle, TypeOK, ControlInv, RowInv, RefundDue, BeforeCharge, CriticalSection
  <2> QED BY <2>1, <2>2 DEF StatusInv
<1>14. ASSUME NEW r \in Request, PersistRaises(r) PROVE StatusInv'
  <2>1. TypeOK'
    BY <1>0, <1>14 DEF PersistRaises, TypeOK, Step, Reply, Refusal
  <2>2. ASSUME NEW q \in Request, q # r PROVE Inv(q)'
    <3>1. /\ pc'[q] = pc[q] /\ attempt'[q] = attempt[q] /\ extraction'[q] = extraction[q]
          /\ failure'[q] = failure[q] /\ reply'[q] = reply[q]
          /\ q \in charged' <=> q \in charged
          /\ q \in audited' <=> q \in audited
          /\ \A note \in RefundNote : q \in refundRows'[note] <=> q \in refundRows[note]
      BY <1>0, <1>14, <2>2 DEF PersistRaises, TypeOK
    <3> QED BY <1>0, <2>2, <3>1, Frame
  <2>3. ControlInv(r)'
    BY <1>0, <1>14 DEF PersistRaises, TypeOK, ControlInv, BeforeCharge, CriticalSection, Reply, Refusal
  <2>4. RowInv(r)'
    BY <1>0, <1>14 DEF PersistRaises, TypeOK, ControlInv, RowInv, RefundDue, BeforeCharge, CriticalSection
  <2> QED BY <2>1, <2>2, <2>3, <2>4 DEF StatusInv
<1>15. ASSUME NEW r \in Request, ScorePasses(r) PROVE StatusInv'
  <2>1. TypeOK'
    BY <1>0, <1>15 DEF ScorePasses, TypeOK, Step, Reply, Refusal
  <2>2. ASSUME NEW q \in Request, q # r PROVE Inv(q)'
    <3>1. /\ pc'[q] = pc[q] /\ attempt'[q] = attempt[q] /\ extraction'[q] = extraction[q]
          /\ failure'[q] = failure[q] /\ reply'[q] = reply[q]
          /\ q \in charged' <=> q \in charged
          /\ q \in audited' <=> q \in audited
          /\ \A note \in RefundNote : q \in refundRows'[note] <=> q \in refundRows[note]
      BY <1>0, <1>15, <2>2 DEF ScorePasses, TypeOK
    <3> QED BY <1>0, <2>2, <3>1, Frame
  <2>3. ControlInv(r)'
    BY <1>0, <1>15 DEF ScorePasses, TypeOK, ControlInv, BeforeCharge, CriticalSection, Reply, Refusal
  <2>4. RowInv(r)'
    BY <1>0, <1>15 DEF ScorePasses, TypeOK, ControlInv, RowInv, RefundDue, BeforeCharge, CriticalSection
  <2> QED BY <2>1, <2>2, <2>3, <2>4 DEF StatusInv
<1>16. ASSUME NEW r \in Request, ScoreFails(r) PROVE StatusInv'
  <2>1. TypeOK'
    BY <1>0, <1>16 DEF ScoreFails, TypeOK, Step
  <2>2. ASSUME NEW q \in Request, q # r PROVE Inv(q)'
    <3>1. /\ pc'[q] = pc[q] /\ attempt'[q] = attempt[q] /\ extraction'[q] = extraction[q]
          /\ failure'[q] = failure[q] /\ reply'[q] = reply[q]
          /\ q \in charged' <=> q \in charged
          /\ q \in audited' <=> q \in audited
          /\ \A note \in RefundNote : q \in refundRows'[note] <=> q \in refundRows[note]
      BY <1>0, <1>16, <2>2 DEF ScoreFails, TypeOK
    <3> QED BY <1>0, <2>2, <3>1, Frame
  <2>3. ControlInv(r)'
    BY <1>0, <1>16 DEF ScoreFails, TypeOK, ControlInv, BeforeCharge, CriticalSection, Reply, Refusal
  <2>4. RowInv(r)'
    BY <1>0, <1>16 DEF ScoreFails, TypeOK, ControlInv, RowInv, RefundDue, BeforeCharge, CriticalSection
  <2> QED BY <2>1, <2>2, <2>3, <2>4 DEF StatusInv
<1>17. ASSUME NEW r \in Request, CommitLowQuality(r) PROVE StatusInv'
  <2>1. TypeOK'
    <3>1. refundRows' \in [RefundNote -> SUBSET Request]
      BY <1>0, <1>17, RefundEffect DEF CommitLowQuality, TypeOK, RefundNote
    <3> QED BY <1>0, <1>17, <3>1 DEF CommitLowQuality, TypeOK, Step, Status, Reply
  <2>2. ASSUME NEW q \in Request, q # r PROVE Inv(q)'
    <3>1. /\ pc'[q] = pc[q] /\ attempt'[q] = attempt[q] /\ extraction'[q] = extraction[q]
          /\ failure'[q] = failure[q] /\ reply'[q] = reply[q]
          /\ q \in charged' <=> q \in charged
          /\ q \in audited' <=> q \in audited
          /\ \A note \in RefundNote : q \in refundRows'[note] <=> q \in refundRows[note]
      BY <1>0, <1>17, <2>2, RefundEffect DEF CommitLowQuality, TypeOK, RefundNote
    <3> QED BY <1>0, <2>2, <3>1, Frame
  <2> DEFINE note == "low_quality_refund"
              other == "extraction_failed"
  <2>r. /\ pc[r] = "commit_refund" /\ extraction[r] = "ok" /\ reply[r] = "none"
        /\ r \in charged /\ r \notin audited /\ ~Refunded(r)
        /\ r \notin refundRows[note] /\ r \notin refundRows[other]
    BY <1>0, <1>17, RefundedNotes DEF CommitLowQuality, ControlInv, RowInv, RefundDue
  <2>s. /\ pc'[r] = "done" /\ extraction'[r] = "low_quality" /\ reply'[r] = "low_quality"
        /\ failure'[r] = failure[r] /\ charged' = charged /\ r \in audited'
    BY <1>0, <1>17, <2>r DEF CommitLowQuality, TypeOK
  <2>3. ControlInv(r)'
    BY <2>r, <2>s DEF ControlInv, BeforeCharge, CriticalSection, Reply, Refusal
  <2>4. RowInv(r)'
    <3>1. note \in RefundNote /\ other \in RefundNote /\ note # other
      BY DEF RefundNote
    <3>2. _refund(r, note)
      BY <1>17 DEF CommitLowQuality
    <3>3. r \in refundRows'[note] /\ r \notin refundRows'[other]
      <4> HIDE DEF note, other
      <4>1. ASSUME _refund(r, note)
            PROVE  \A m \in RefundNote : refundRows'[m] = IF m = note THEN refundRows[m] \cup {r} ELSE refundRows[m]
        BY <1>0, <2>r, <3>1, <4>1, RefundEffect
      <4> QED BY <2>r, <3>1, <3>2, <4>1
    <3> QED BY <2>r, <2>s, <3>3 DEF RowInv, RefundDue
  <2> QED BY <2>1, <2>2, <2>3, <2>4 DEF StatusInv
<1>18. ASSUME NEW r \in Request, LeaveWindow(r) PROVE StatusInv'
  <2>1. TypeOK'
    BY <1>0, <1>18 DEF LeaveWindow, TypeOK, Step
  <2>2. ASSUME NEW q \in Request PROVE Inv(q)'
    BY <1>0, <1>18 DEF LeaveWindow, TypeOK, ControlInv, RowInv, RefundDue, BeforeCharge, CriticalSection
  <2> QED BY <2>1, <2>2 DEF StatusInv
<1>19. ASSUME NEW u \in User, TopUp(u) PROVE StatusInv'
  <2>1. TypeOK'
    BY <1>0, <1>19, CentsAssumption DEF TopUp, TypeOK, Step
  <2>2. ASSUME NEW q \in Request PROVE Inv(q)'
    BY <1>0, <1>19, CentsAssumption DEF TopUp, TypeOK, ControlInv, RowInv, RefundDue, BeforeCharge, CriticalSection
  <2> QED BY <2>1, <2>2 DEF StatusInv
<1>20. ASSUME NEW k \in Key, update_spend_cap(k) PROVE StatusInv'
  <2>1. TypeOK'
    BY <1>0, <1>20 DEF update_spend_cap, TypeOK, Step
  <2>2. ASSUME NEW q \in Request PROVE Inv(q)'
    BY <1>0, <1>20 DEF update_spend_cap, TypeOK, ControlInv, RowInv, RefundDue, BeforeCharge, CriticalSection
  <2> QED BY <2>1, <2>2 DEF StatusInv
<1>21. ASSUME NEW p \in Process, Crash(p) PROVE StatusInv'
  <2>1. TypeOK'
    BY <1>0, <1>21 DEF Crash, TypeOK, Step, InFlight
  <2>2. ASSUME NEW q \in Request PROVE Inv(q)'
    BY <1>0, <1>21 DEF Crash, TypeOK, ControlInv, RowInv, RefundDue, BeforeCharge, CriticalSection, InFlight
  <2> QED BY <2>1, <2>2 DEF StatusInv
<1>22. CASE UNCHANGED vars
  <2>1. TypeOK'
    BY <1>0, <1>22 DEF vars, TypeOK
  <2>2. ASSUME NEW q \in Request PROVE Inv(q)'
    BY <1>0, <1>22 DEF vars, ControlInv, RowInv, RefundDue
  <2> QED BY <2>1, <2>2 DEF StatusInv
<1> QED
  BY <1>1, <1>2, <1>3, <1>4, <1>5, <1>6, <1>7, <1>8, <1>9, <1>10, <1>11, <1>12, <1>13, <1>14, <1>15, <1>16, <1>17, <1>18, <1>19, <1>20, <1>21, <1>22 DEF Next, RequestStep, AllEnded

\* Rows, answers and locks keep their types in every reachable state.
THEOREM TypeCorrect == Spec => []TypeOK
<1>1. Spec => []StatusInv
  BY StatusInit, StatusStep, PTL DEF Spec
<1>2. StatusInv => TypeOK
  BY DEF StatusInv
<1> QED BY <1>1, <1>2, PTL

\* No crash and no interleaving leaves a row, its charge and its refund in
\* disagreement.
THEOREM RowsMatchLedger == Spec => []RowMatchesLedger
<1>1. Spec => []StatusInv
  BY StatusInit, StatusStep, PTL DEF Spec
<1>2. StatusInv => RowMatchesLedger
  BY RefundedNotes DEF StatusInv, RowInv, RefundDue, RowMatchesLedger, RefundNote
<1> QED BY <1>1, <1>2, PTL

\* No client is told of its money what the ledger does not say.
THEOREM AnswersMatchLedger == Spec => []AnswerMatchesLedger
<1>1. Spec => []StatusInv
  BY StatusInit, StatusStep, PTL DEF Spec
<1>2. StatusInv => AnswerMatchesLedger
  BY RefundedNotes, PolicyAssumption
     DEF StatusInv, ControlInv, RowInv, RefundDue, AnswerMatchesLedger, Refusal, Reply
<1> QED BY <1>1, <1>2, PTL

-----------------------------------------------------------------------------
(* What a step does to a balance and to a key's spend. *)

LEMMA CentsType == ASSUME NEW S \in SUBSET Request PROVE Cents(S) \in Nat
<1>1. IsFiniteSet(S \ Private) /\ IsFiniteSet(S \cap Private)
  BY KeysAssumption, FS_Subset
<1>2. Cardinality(S \ Private) \in Nat /\ Cardinality(S \cap Private) \in Nat
  BY <1>1, FS_CardinalityType
<1>3. /\ PublicCents * Cardinality(S \ Private) \in Nat
      /\ PrivateCents * Cardinality(S \cap Private) \in Nat
  BY <1>2, CentsAssumption
<1> QED BY <1>3 DEF Cents

LEMMA UserOfType == \A r \in Request : UserOf[r] \in User /\ KeyOf[r] \in Key /\ PriceOf[r] \in Nat
BY KeysAssumption, CentsAssumption DEF UserOf, PriceOf

\* The sums credit_balance is made of.
Debits(u) == Cents(charged \cap Of(u))
Refunds(note, u) == Cents(refundRows[note] \cap Of(u))

LEMMA BalanceSum ==
    ASSUME NEW u
    PROVE  /\ credit_balance(u) = deposits[u] - Debits(u)
                + Refunds("extraction_failed", u) + Refunds("low_quality_refund", u)
           /\ credit_balance(u)' = deposits'[u] - Debits(u)'
                + Refunds("extraction_failed", u)' + Refunds("low_quality_refund", u)'
BY DEF credit_balance, Debits, Refunds

LEMMA BalanceParts ==
    ASSUME TypeOK, NEW u \in User
    PROVE  /\ deposits[u] \in Nat /\ Debits(u) \in Nat
           /\ Refunds("extraction_failed", u) \in Nat /\ Refunds("low_quality_refund", u) \in Nat
<1>1. deposits[u] \in Nat
  BY DEF TypeOK
<1>2. charged \cap Of(u) \in SUBSET Request
  BY DEF TypeOK
<1>3. /\ refundRows["extraction_failed"] \in SUBSET Request
      /\ refundRows["low_quality_refund"] \in SUBSET Request
  BY DEF TypeOK, RefundNote
<1>4. /\ refundRows["extraction_failed"] \cap Of(u) \in SUBSET Request
      /\ refundRows["low_quality_refund"] \cap Of(u) \in SUBSET Request
  BY <1>3
<1> QED BY <1>1, <1>2, <1>4, CentsType DEF Debits, Refunds

BalanceTyped == \A u \in User : credit_balance(u) \in Int
SpentTyped == \A k \in Key : spend_cap_spent_cents(k) \in Nat

LEMMA BalanceType == TypeOK => BalanceTyped
<1> SUFFICES ASSUME TypeOK, NEW u \in User PROVE credit_balance(u) \in Int
  BY DEF BalanceTyped
<1>1. credit_balance(u) = deposits[u] - Debits(u)
        + Refunds("extraction_failed", u) + Refunds("low_quality_refund", u)
  BY BalanceSum
<1>2. /\ deposits[u] \in Nat /\ Debits(u) \in Nat
      /\ Refunds("extraction_failed", u) \in Nat /\ Refunds("low_quality_refund", u) \in Nat
  BY BalanceParts
<1> QED BY <1>1, <1>2

LEMMA SpentType == TypeOK => SpentTyped
BY CentsType DEF TypeOK, spend_cap_spent_cents, SpentTyped

\* The same in the state after a step.
LEMMA SumsTypeNext == TypeOK' => BalanceTyped' /\ SpentTyped'
<1>1. TypeOK' => BalanceTyped'
  BY BalanceType, PTL
<1>2. TypeOK' => SpentTyped'
  BY SpentType, PTL
<1> QED BY <1>1, <1>2

\* What request r weighs in the sums of user u.
Share(r, u) == IF u = UserOf[r] THEN PriceOf[r] ELSE 0

LEMMA ShareType == ASSUME NEW r \in Request, NEW u PROVE Share(r, u) \in Nat
BY UserOfType DEF Share

\* One row more, of request r, in a set of rows S, seen by user u.
LEMMA CentsOfUser ==
    ASSUME NEW S \in SUBSET Request, NEW r \in Request, r \notin S, NEW u \in User
    PROVE  Cents((S \cup {r}) \cap Of(u)) = Cents(S \cap Of(u)) + Share(r, u)
<1>0. S \cap Of(u) \in SUBSET Request /\ r \notin S \cap Of(u) /\ Cents(S \cap Of(u)) \in Nat
  BY CentsType
<1>1. CASE u = UserOf[r]
  <2>1. (S \cup {r}) \cap Of(u) = (S \cap Of(u)) \cup {r}
    BY <1>1 DEF Of
  <2>2. Cents((S \cap Of(u)) \cup {r}) = Cents(S \cap Of(u)) + PriceOf[r]
    BY <1>0, CentsAdd
  <2> QED BY <1>1, <2>1, <2>2 DEF Share
<1>2. CASE u # UserOf[r]
  <2>1. (S \cup {r}) \cap Of(u) = S \cap Of(u)
    BY <1>2 DEF Of
  <2>2. Share(r, u) = 0
    BY <1>2 DEF Share
  <2> QED BY <1>0, <2>1, <2>2
<1> QED BY <1>1, <1>2

LEMMA BalanceOfCharge ==
    ASSUME TypeOK, NEW r \in Request, r \notin charged,
           charged' = charged \cup {r}, UNCHANGED <<deposits, refundRows>>, NEW u \in User
    PROVE  credit_balance(u)' = credit_balance(u) - Share(r, u)
<1>1. charged \in SUBSET Request
  BY DEF TypeOK
<1>2. Debits(u)' = Debits(u) + Share(r, u)
  <2>1. Cents(charged' \cap Of(u)) = Cents(charged \cap Of(u)) + Share(r, u)
    BY <1>1, CentsOfUser
  <2>2. Debits(u)' = Cents(charged' \cap Of(u))
    BY DEF Debits, Cents, Of
  <2> QED BY <2>1, <2>2 DEF Debits
<1>3. /\ Refunds("extraction_failed", u)' = Refunds("extraction_failed", u)
      /\ Refunds("low_quality_refund", u)' = Refunds("low_quality_refund", u)
      /\ deposits'[u] = deposits[u]
  BY DEF Refunds, Cents, Of
<1>8. /\ deposits[u] \in Nat /\ Debits(u) \in Nat
      /\ Refunds("extraction_failed", u) \in Nat /\ Refunds("low_quality_refund", u) \in Nat
  BY BalanceParts
<1>9. /\ credit_balance(u) = deposits[u] - Debits(u)
           + Refunds("extraction_failed", u) + Refunds("low_quality_refund", u)
      /\ credit_balance(u)' = deposits'[u] - Debits(u)'
           + Refunds("extraction_failed", u)' + Refunds("low_quality_refund", u)'
  BY BalanceSum
<1>10. Share(r, u) \in Nat
  BY ShareType
<1> QED BY <1>2, <1>3, <1>8, <1>9, <1>10

LEMMA BalanceOfRefund ==
    ASSUME TypeOK, NEW r \in Request, NEW note \in RefundNote, ~Refunded(r),
           _refund(r, note), UNCHANGED <<deposits, charged>>, NEW u \in User
    PROVE  credit_balance(u)' = credit_balance(u) + Share(r, u)
<1>1. \A n \in RefundNote : refundRows[n] \in SUBSET Request /\ r \notin refundRows[n]
  BY DEF TypeOK, Refunded
<1>2. ASSUME NEW n \in RefundNote
      PROVE  Refunds(n, u)' = IF n = note THEN Refunds(n, u) + Share(r, u) ELSE Refunds(n, u)
  <2>1. refundRows'[n] = IF n = note THEN refundRows[n] \cup {r} ELSE refundRows[n]
    BY RefundEffect
  <2>2. Refunds(n, u)' = Cents(refundRows'[n] \cap Of(u))
    BY DEF Refunds, Cents, Of
  <2>3. Cents((refundRows[n] \cup {r}) \cap Of(u)) = Cents(refundRows[n] \cap Of(u)) + Share(r, u)
    BY <1>1, CentsOfUser
  <2> QED BY <2>1, <2>2, <2>3 DEF Refunds
<1>3. deposits'[u] = deposits[u] /\ Debits(u)' = Debits(u)
  BY DEF Debits, Cents, Of
<1>8. /\ deposits[u] \in Nat /\ Debits(u) \in Nat
      /\ Refunds("extraction_failed", u) \in Nat /\ Refunds("low_quality_refund", u) \in Nat
  BY BalanceParts
<1>9. /\ credit_balance(u) = deposits[u] - Debits(u)
           + Refunds("extraction_failed", u) + Refunds("low_quality_refund", u)
      /\ credit_balance(u)' = deposits'[u] - Debits(u)'
           + Refunds("extraction_failed", u)' + Refunds("low_quality_refund", u)'
  BY BalanceSum
<1>10. Share(r, u) \in Nat
  BY ShareType
<1>11. CASE note = "extraction_failed"
  <2>1. /\ Refunds("extraction_failed", u)' = Refunds("extraction_failed", u) + Share(r, u)
        /\ Refunds("low_quality_refund", u)' = Refunds("low_quality_refund", u)
    BY <1>2, <1>11 DEF RefundNote
  <2> QED BY <1>3, <1>8, <1>9, <1>10, <2>1
<1>12. CASE note = "low_quality_refund"
  <2>1. /\ Refunds("low_quality_refund", u)' = Refunds("low_quality_refund", u) + Share(r, u)
        /\ Refunds("extraction_failed", u)' = Refunds("extraction_failed", u)
    BY <1>2, <1>12 DEF RefundNote
  <2> QED BY <1>3, <1>8, <1>9, <1>10, <2>1
<1> QED BY <1>11, <1>12 DEF RefundNote

\* What request r weighs in the trailing spend of key k.
KeyShare(r, k) == IF k = KeyOf[r] THEN PriceOf[r] ELSE 0

LEMMA SpentOfCharge ==
    ASSUME TypeOK, NEW r \in Request, r \notin recent, recent' = recent \cup {r}, NEW k \in Key
    PROVE  spend_cap_spent_cents(k)' = spend_cap_spent_cents(k) + KeyShare(r, k)
<1> DEFINE S == {q \in recent : KeyOf[q] = k}
<1>1. S \in SUBSET Request /\ r \notin S /\ Cents(S) \in Nat
  BY CentsType DEF TypeOK
<1>2. S' = IF k = KeyOf[r] THEN S \cup {r} ELSE S
  OBVIOUS
<1>3. spend_cap_spent_cents(k) = Cents(S) /\ spend_cap_spent_cents(k)' = Cents(S')
  BY DEF spend_cap_spent_cents, Cents
<1>4. Cents(S \cup {r}) = Cents(S) + PriceOf[r]
  BY <1>1, CentsAdd
<1> HIDE DEF S
<1>5. CASE k = KeyOf[r]
  BY <1>2, <1>3, <1>4, <1>5 DEF KeyShare
<1>6. CASE k # KeyOf[r]
  BY <1>1, <1>2, <1>3, <1>6 DEF KeyShare
<1> QED BY <1>5, <1>6

LEMMA SpentOfAgeing ==
    ASSUME TypeOK, NEW r \in Request, r \in recent, recent' = recent \ {r}, NEW k \in Key
    PROVE  spend_cap_spent_cents(k)' <= spend_cap_spent_cents(k)
<1> DEFINE S == {q \in recent : KeyOf[q] = k} \ {r}
<1>1. S \in SUBSET Request /\ r \notin S /\ Cents(S) \in Nat /\ PriceOf[r] \in Nat
  BY CentsType, UserOfType DEF TypeOK
<1>2. {q \in recent : KeyOf[q] = k} = IF k = KeyOf[r] THEN S \cup {r} ELSE S
  OBVIOUS
<1>3. {q \in recent : KeyOf[q] = k}' = S
  OBVIOUS
<1>4. /\ spend_cap_spent_cents(k) = Cents({q \in recent : KeyOf[q] = k})
      /\ spend_cap_spent_cents(k)' = Cents({q \in recent : KeyOf[q] = k}')
  BY DEF spend_cap_spent_cents, Cents
<1>5. Cents(S \cup {r}) = Cents(S) + PriceOf[r]
  BY <1>1, CentsAdd
<1> HIDE DEF S
<1>6. CASE k = KeyOf[r]
  <2>1. /\ spend_cap_spent_cents(k) = Cents(S) + PriceOf[r]
        /\ spend_cap_spent_cents(k)' = Cents(S)
    BY <1>2, <1>3, <1>4, <1>5, <1>6
  <2> QED BY <1>1, <2>1
<1>7. CASE k # KeyOf[r]
  BY <1>1, <1>2, <1>3, <1>4, <1>7
<1> QED BY <1>6, <1>7
-----------------------------------------------------------------------------
(* The locks, and what is known while they are held. *)

\* No two transactions hold row locks that exclude each other.
LocksExclusive ==
    \A r, s \in Request :
        r # s /\ HoldsRowLock(r) /\ HoldsRowLock(s) => Postgres /\ UserOf[r] # UserOf[s]

\* Steps at which the balance is known to cover the price.
Covered == IF Postgres THEN {"recheck_cap", "insert_charge", "commit_charge"} ELSE {"commit_charge"}

FundsOf(r) ==
    /\ pc[r] \in Covered => credit_balance(UserOf[r]) >= PriceOf[r]
    /\ Postgres /\ pc[r] \in {"insert_charge", "commit_charge"} => WithinCap(r)
    /\ Postgres => attempt[r] = 0 /\ reply[r] # "charge_contention"

FundsInv ==
    /\ BalanceNonNegative
    /\ LocksExclusive
    /\ \A r \in Request : FundsOf(r)

LEMMA NoCents == Cents({}) = 0
<1>1. {} \ Private = {} /\ {} \cap Private = {} /\ Cardinality({}) = 0
  BY FS_EmptySet
<1> QED BY <1>1, CentsAssumption DEF Cents

LEMMA FundsInit == Init => FundsInv
<1> SUFFICES ASSUME Init PROVE FundsInv
  OBVIOUS
<1>1. ASSUME NEW u \in User PROVE credit_balance(u) >= 0
  <2>1. /\ deposits[u] \in Nat /\ charged \cap Of(u) = {}
        /\ refundRows["extraction_failed"] \cap Of(u) = {}
        /\ refundRows["low_quality_refund"] \cap Of(u) = {}
    BY CentsAssumption DEF Init, RefundNote
  <2>2. credit_balance(u) = deposits[u] - Cents({}) + Cents({}) + Cents({})
    BY <2>1 DEF credit_balance
  <2> QED BY NoCents, <2>1, <2>2
<1>2. LocksExclusive
  BY DEF Init, LocksExclusive, HoldsRowLock
<1>3. ASSUME NEW r \in Request PROVE FundsOf(r)
  BY <1>1 DEF Init, FundsOf, Covered
<1> QED BY <1>1, <1>2, <1>3 DEF FundsInv, BalanceNonNegative

\* The columns of the locks and of FundsOf that belong to q stay as they are.
Still(q) ==
    pc'[q] = pc[q] /\ capSeen'[q] = capSeen[q] /\ attempt'[q] = attempt[q] /\ reply'[q] = reply[q]

\* A request that is still keeps its FundsOf while no sum it reads gets worse.
LEMMA StillFunds ==
    ASSUME TypeOK, TypeOK', NEW q \in Request, FundsOf(q), Still(q),
           HoldsRowLock(q) =>
             /\ credit_balance(UserOf[q])' >= credit_balance(UserOf[q])
             /\ spend_cap_spent_cents(KeyOf[q])' <= spend_cap_spent_cents(KeyOf[q])
    PROVE  FundsOf(q)'
<1>1. UserOf[q] \in User /\ KeyOf[q] \in Key /\ PriceOf[q] \in Nat
  BY UserOfType
<1>2. UserOf'[q] = UserOf[q] /\ PriceOf'[q] = PriceOf[q]
  BY DEF UserOf, PriceOf
<1>3. credit_balance(UserOf[q]) \in Int /\ credit_balance(UserOf[q])' \in Int
  BY <1>1, BalanceType, SumsTypeNext DEF BalanceTyped
<1>4. spend_cap_spent_cents(KeyOf[q]) \in Nat /\ spend_cap_spent_cents(KeyOf[q])' \in Nat
  BY <1>1, SpentType, SumsTypeNext DEF SpentTyped
<1>5. capSeen[q] \in Nat \cup {NoCap} /\ capSeen'[q] = capSeen[q]
  BY CentsAssumption DEF TypeOK, Still
<1>6. pc'[q] = pc[q] /\ attempt'[q] = attempt[q] /\ reply'[q] = reply[q]
  BY DEF Still
<1>7. (pc[q] \in Covered => HoldsRowLock(q)) /\ (Postgres /\ pc[q] \in {"insert_charge", "commit_charge"} => HoldsRowLock(q))
  BY DEF Covered, HoldsRowLock
<1>8. HoldsRowLock(q) /\ WithinCap(q) => WithinCap(q)'
  BY <1>1, <1>4, <1>5 DEF WithinCap, UserOf, PriceOf
<1>9. pc'[q] \in Covered => credit_balance(UserOf[q])' >= PriceOf[q]
  BY <1>1, <1>3, <1>6, <1>7 DEF FundsOf
<1>10. Postgres /\ pc'[q] \in {"insert_charge", "commit_charge"} => WithinCap(q)'
  BY <1>6, <1>7, <1>8 DEF FundsOf
<1>11. Postgres => attempt'[q] = 0 /\ reply'[q] # "charge_contention"
  BY <1>6 DEF FundsOf
<1> QED BY <1>9, <1>10, <1>11 DEF FundsOf, Covered, UserOf, PriceOf

\* A step that takes no row lock, and that lowers no balance and raises no
\* spend, preserves everything but what the moved requests must show.
LEMMA QuietStep ==
    ASSUME FundsInv, TypeOK, TypeOK',
           \A q \in Request : Still(q) \/ ((HoldsRowLock(q)' => HoldsRowLock(q)) /\ FundsOf(q)'),
           \A u \in User : credit_balance(u)' >= credit_balance(u),
           \A k \in Key : spend_cap_spent_cents(k)' <= spend_cap_spent_cents(k)
    PROVE  FundsInv'
<1>1. BalanceNonNegative'
  <2> SUFFICES ASSUME NEW u \in User PROVE credit_balance(u)' >= 0
    BY DEF BalanceNonNegative
  <2>1. credit_balance(u) >= 0 /\ credit_balance(u)' >= credit_balance(u)
    BY DEF FundsInv, BalanceNonNegative
  <2>2. credit_balance(u) \in Int /\ credit_balance(u)' \in Int
    BY BalanceType, SumsTypeNext DEF BalanceTyped
  <2> QED BY <2>1, <2>2
<1>2. LocksExclusive'
  <2>1. \A q \in Request : HoldsRowLock(q)' => HoldsRowLock(q)
    BY DEF Still, HoldsRowLock
  <2> SUFFICES ASSUME NEW r \in Request, NEW s \in Request, r # s, HoldsRowLock(r)', HoldsRowLock(s)'
               PROVE  Postgres /\ UserOf[r] # UserOf[s]
    BY DEF LocksExclusive, UserOf
  <2> QED BY <2>1 DEF FundsInv, LocksExclusive
<1>3. ASSUME NEW q \in Request PROVE FundsOf(q)'
  <2>1. UserOf[q] \in User /\ KeyOf[q] \in Key
    BY UserOfType
  <2> QED BY <2>1, StillFunds DEF FundsInv
<1> QED BY <1>1, <1>2, <1>3 DEF FundsInv

\* With the ledger untouched no sum changes.
LEMMA LedgerFrame ==
    ASSUME TypeOK, UNCHANGED <<deposits, charged, refundRows>>
    PROVE  \A u \in User : credit_balance(u)' = credit_balance(u) /\ credit_balance(u)' >= credit_balance(u)
<1> SUFFICES ASSUME NEW u \in User
             PROVE  credit_balance(u)' = credit_balance(u) /\ credit_balance(u)' >= credit_balance(u)
  OBVIOUS
<1>1. credit_balance(u)' = credit_balance(u)
  BY DEF credit_balance, Cents, Of
<1>2. credit_balance(u) \in Int
  BY BalanceType DEF BalanceTyped
<1> QED BY <1>1, <1>2

LEMMA SpentFrame ==
    ASSUME TypeOK, UNCHANGED recent
    PROVE  \A k \in Key : /\ spend_cap_spent_cents(k)' = spend_cap_spent_cents(k)
                          /\ spend_cap_spent_cents(k)' <= spend_cap_spent_cents(k)
<1> SUFFICES ASSUME NEW k \in Key
             PROVE  /\ spend_cap_spent_cents(k)' = spend_cap_spent_cents(k)
                    /\ spend_cap_spent_cents(k)' <= spend_cap_spent_cents(k)
  OBVIOUS
<1>1. spend_cap_spent_cents(k)' = spend_cap_spent_cents(k)
  BY DEF spend_cap_spent_cents, Cents
<1>2. spend_cap_spent_cents(k) \in Nat
  BY SpentType DEF SpentTyped
<1> QED BY <1>1, <1>2

\* A request that leaves the lock, or never had it, disturbs nobody.
LEMMA Release ==
    ASSUME FundsInv, TypeOK, TypeOK', NEW r \in Request,
           \A q \in Request \ {r} : Still(q),
           pc'[r] \notin {"recheck_balance", "recheck_cap", "insert_charge", "commit_charge"},
           attempt'[r] = attempt[r],
           reply'[r] = reply[r] \/ reply'[r] # "charge_contention",
           \A u \in User : credit_balance(u)' >= credit_balance(u),
           \A k \in Key : spend_cap_spent_cents(k)' <= spend_cap_spent_cents(k)
    PROVE  FundsInv'
<1>1. ASSUME NEW q \in Request, q = r PROVE FundsOf(q)' /\ ~HoldsRowLock(q)'
  BY <1>1 DEF FundsInv, FundsOf, Covered, HoldsRowLock
<1>2. \A q \in Request : Still(q) \/ ((HoldsRowLock(q)' => HoldsRowLock(q)) /\ FundsOf(q)')
  <2> SUFFICES ASSUME NEW q \in Request
               PROVE  Still(q) \/ ((HoldsRowLock(q)' => HoldsRowLock(q)) /\ FundsOf(q)')
    OBVIOUS
  <2>1. CASE q = r
    BY <1>1, <2>1
  <2>2. CASE q # r
    BY <2>2
  <2> QED BY <2>1, <2>2
<1> QED BY <1>2, QuietStep

\* A request that takes the lock when the lock was free.
LEMMA Acquire ==
    ASSUME FundsInv, TypeOK, TypeOK', NEW r \in Request,
           \A q \in Request \ {r} : Still(q),
           Writable(UserOf[r]), FundsOf(r)',
           UNCHANGED ledgerVars
    PROVE  FundsInv'
<1>1. BalanceNonNegative'
  <2>1. \A u \in User : credit_balance(u)' = credit_balance(u)
    BY LedgerFrame DEF ledgerVars
  <2> QED BY <2>1 DEF FundsInv, BalanceNonNegative
<1>2. LocksExclusive'
  <2>1. \A q \in Request \ {r} : HoldsRowLock(q)' => HoldsRowLock(q)
    BY DEF Still, HoldsRowLock
  <2>2. \A q \in Request : HoldsRowLock(q) => Postgres /\ UserOf[q] # UserOf[r]
    BY DEF Writable
  <2> SUFFICES ASSUME NEW q \in Request, NEW s \in Request, q # s, HoldsRowLock(q)', HoldsRowLock(s)'
               PROVE  Postgres /\ UserOf[q] # UserOf[s]
    BY DEF LocksExclusive, UserOf
  <2> QED BY <2>1, <2>2 DEF FundsInv, LocksExclusive
<1>3. ASSUME NEW q \in Request \ {r} PROVE FundsOf(q)'
  <2>1. UserOf[q] \in User /\ KeyOf[q] \in Key
    BY UserOfType
  <2> QED BY <2>1, StillFunds, LedgerFrame, SpentFrame DEF FundsInv, ledgerVars
<1> QED BY <1>1, <1>2, <1>3 DEF FundsInv

\* A refund lowers no balance, whether or not it inserts the row.
LEMMA RefundRaises ==
    ASSUME TypeOK, TypeOK', NEW r \in Request, NEW note \in RefundNote, _refund(r, note),
           UNCHANGED <<deposits, charged>>
    PROVE  \A u \in User : credit_balance(u)' >= credit_balance(u)
<1>1. CASE Refunded(r)
  <2>1. UNCHANGED refundRows
    BY <1>1 DEF _refund
  <2> QED BY <2>1, LedgerFrame
<1>2. CASE ~Refunded(r)
  <2> SUFFICES ASSUME NEW u \in User PROVE credit_balance(u)' >= credit_balance(u)
    OBVIOUS
  <2>1. credit_balance(u)' = credit_balance(u) + Share(r, u)
    BY <1>2, BalanceOfRefund
  <2>2. credit_balance(u) \in Int /\ Share(r, u) \in Nat
    BY BalanceType, ShareType DEF BalanceTyped
  <2> QED BY <2>1, <2>2
<1> QED BY <1>1, <1>2

LEMMA BalanceOfDeposit ==
    ASSUME TypeOK, NEW v \in User, NEW cents \in Nat, deposits' = [deposits EXCEPT ![v] = @ + cents],
           UNCHANGED <<charged, refundRows>>, NEW u \in User
    PROVE  credit_balance(u)' = IF u = v THEN credit_balance(u) + cents ELSE credit_balance(u)
<1>1. /\ Debits(u)' = Debits(u)
      /\ Refunds("extraction_failed", u)' = Refunds("extraction_failed", u)
      /\ Refunds("low_quality_refund", u)' = Refunds("low_quality_refund", u)
  BY DEF Debits, Refunds, Cents, Of
<1>2. /\ deposits[u] \in Nat /\ Debits(u) \in Nat
      /\ Refunds("extraction_failed", u) \in Nat /\ Refunds("low_quality_refund", u) \in Nat
  BY BalanceParts
<1>3. deposits'[u] = IF u = v THEN deposits[u] + cents ELSE deposits[u]
  BY DEF TypeOK
<1>4. /\ credit_balance(u) = deposits[u] - Debits(u)
           + Refunds("extraction_failed", u) + Refunds("low_quality_refund", u)
      /\ credit_balance(u)' = deposits'[u] - Debits(u)'
           + Refunds("extraction_failed", u)' + Refunds("low_quality_refund", u)'
  BY BalanceSum
<1> QED BY <1>1, <1>2, <1>3, <1>4

\* The one step that lowers a balance and raises a spend: the lock it ends
\* kept every other transaction of that user away since the balance was read.
LEMMA ChargeFunds ==
    ASSUME FundsInv, StatusInv, TypeOK', NEW r \in Request, CommitCharge(r)
    PROVE  FundsInv'
<1> USE DEF CommitCharge
<1>1. HoldsRowLock(r)
  BY DEF HoldsRowLock
<1>2. TypeOK /\ r \notin charged /\ r \notin recent
  BY DEF StatusInv, ControlInv, RowInv, BeforeCharge, CriticalSection, TypeOK
<1>3. \A u \in User : credit_balance(u)' = credit_balance(u) - Share(r, u)
  BY <1>2, BalanceOfCharge
<1>4. \A k \in Key : spend_cap_spent_cents(k)' = spend_cap_spent_cents(k) + KeyShare(r, k)
  BY <1>2, SpentOfCharge
<1>5. UserOf[r] \in User /\ PriceOf[r] \in Nat /\ KeyOf[r] \in Key
  BY UserOfType
<1>6. BalanceNonNegative'
  <2> SUFFICES ASSUME NEW u \in User PROVE credit_balance(u)' >= 0
    BY DEF BalanceNonNegative
  <2>1. credit_balance(u) \in Int /\ credit_balance(u) >= 0
    BY <1>2, BalanceType DEF BalanceTyped, FundsInv, BalanceNonNegative
  <2>2. credit_balance(UserOf[r]) >= PriceOf[r]
    BY DEF FundsInv, FundsOf, Covered
  <2>3. credit_balance(u)' = credit_balance(u) - Share(r, u)
    BY <1>3
  <2>4. CASE u = UserOf[r]
    BY <1>5, <2>1, <2>2, <2>3, <2>4 DEF Share
  <2>5. CASE u # UserOf[r]
    BY <2>1, <2>3, <2>5 DEF Share
  <2> QED BY <2>4, <2>5
<1>7. pc' = [pc EXCEPT ![r] = "extract"] /\ pc \in [Request -> Step] /\ pc'[r] = "extract"
  BY <1>2 DEF Goto, TypeOK
<1>8. \A q \in Request \ {r} : Still(q)
  BY <1>7 DEF Still, capVars
<1>9. ~HoldsRowLock(r)' /\ \A q \in Request \ {r} : HoldsRowLock(q)' => HoldsRowLock(q)
  BY <1>7 DEF HoldsRowLock
<1>10. LocksExclusive'
  <2> SUFFICES ASSUME NEW q \in Request, NEW s \in Request, q # s, HoldsRowLock(q)', HoldsRowLock(s)'
               PROVE  Postgres /\ UserOf[q] # UserOf[s]
    BY DEF LocksExclusive, UserOf
  <2> QED BY <1>9 DEF FundsInv, LocksExclusive
<1>11. FundsOf(r)'
  BY <1>7 DEF FundsOf, FundsInv, Covered
<1>12. ASSUME NEW q \in Request \ {r} PROVE FundsOf(q)'
  <2>1. UserOf[q] \in User /\ KeyOf[q] \in Key
    BY UserOfType
  <2>2. HoldsRowLock(q) => UserOf[q] # UserOf[r] /\ KeyOf[q] # KeyOf[r]
    BY <1>1 DEF FundsInv, LocksExclusive, UserOf
  <2>3. credit_balance(UserOf[q]) \in Int /\ spend_cap_spent_cents(KeyOf[q]) \in Nat
    BY <1>2, <2>1, BalanceType, SpentType DEF BalanceTyped, SpentTyped
  <2>4. ASSUME HoldsRowLock(q)
        PROVE  /\ credit_balance(UserOf[q])' >= credit_balance(UserOf[q])
               /\ spend_cap_spent_cents(KeyOf[q])' <= spend_cap_spent_cents(KeyOf[q])
    <3>1. Share(r, UserOf[q]) = 0 /\ KeyShare(r, KeyOf[q]) = 0
      BY <2>2, <2>4 DEF Share, KeyShare
    <3>2. UserOf'[q] = UserOf[q]
      BY DEF UserOf
    <3> QED BY <1>3, <1>4, <2>1, <2>3, <3>1, <3>2
  <2> QED BY <1>2, <1>8, <2>4, StillFunds DEF FundsInv
<1> QED BY <1>6, <1>10, <1>11, <1>12 DEF FundsInv

LEMMA FundsStep == StatusInv /\ StatusInv' /\ FundsInv /\ [Next]_vars => FundsInv'
<1> SUFFICES ASSUME StatusInv, StatusInv', FundsInv, [Next]_vars PROVE FundsInv'
  OBVIOUS
<1>0. TypeOK /\ TypeOK'
  BY DEF StatusInv
<1>F. UNCHANGED ledgerVars =>
        /\ \A u \in User : credit_balance(u)' >= credit_balance(u)
        /\ \A k \in Key : spend_cap_spent_cents(k)' <= spend_cap_spent_cents(k)
  BY <1>0, LedgerFrame, SpentFrame DEF ledgerVars
<1>T. /\ pc \in [Request -> Step] /\ attempt \in [Request -> 0..MaxRetries]
      /\ capSeen \in [Request -> CapCents \cup {NoCap}] /\ reply \in [Request -> Reply]
  BY <1>0 DEF TypeOK
<1>1. ASSUME NEW r \in Request, Authenticate(r) PROVE FundsInv'
  <2>1. /\ \A q \in Request \ {r} : Still(q)
        /\ pc'[r] \notin {"recheck_balance", "recheck_cap", "insert_charge", "commit_charge"}
        /\ attempt'[r] = attempt[r]
        /\ reply'[r] = reply[r] \/ reply'[r] # "charge_contention"
        /\ UNCHANGED ledgerVars
    BY <1>1, <1>T DEF Authenticate, Goto, Answer, Still, capVars
  <2> QED BY <2>1, <1>0, <1>F, Release
<1>2. ASSUME NEW r \in Request, ReadBalance(r) PROVE FundsInv'
  <2>1. /\ \A q \in Request \ {r} : Still(q)
        /\ pc'[r] \notin {"recheck_balance", "recheck_cap", "insert_charge", "commit_charge"}
        /\ attempt'[r] = attempt[r]
        /\ reply'[r] = reply[r] \/ reply'[r] # "charge_contention"
        /\ UNCHANGED ledgerVars
    BY <1>2, <1>T DEF ReadBalance, Goto, Answer, Still, capVars
  <2> QED BY <2>1, <1>0, <1>F, Release
<1>3. ASSUME NEW r \in Request, ReadCap(r) PROVE FundsInv'
  <2>1. /\ \A q \in Request \ {r} : Still(q)
        /\ pc'[r] \notin {"recheck_balance", "recheck_cap", "insert_charge", "commit_charge"}
        /\ attempt'[r] = attempt[r]
        /\ reply'[r] = reply[r] \/ reply'[r] # "charge_contention"
        /\ UNCHANGED ledgerVars
    BY <1>3, <1>T DEF ReadCap, Goto, Answer, Still, capVars
  <2> QED BY <2>1, <1>0, <1>F, Release
<1>4. ASSUME NEW r \in Request, EnterUserLock(r) PROVE FundsInv'
  <2>1. /\ \A q \in Request \ {r} : Still(q)
        /\ pc'[r] \notin {"recheck_balance", "recheck_cap", "insert_charge", "commit_charge"}
        /\ attempt'[r] = attempt[r]
        /\ reply'[r] = reply[r] \/ reply'[r] # "charge_contention"
        /\ UNCHANGED ledgerVars
    BY <1>4, <1>T DEF EnterUserLock, Goto, Answer, Still, capVars
  <2> QED BY <2>1, <1>0, <1>F, Release
<1>5. ASSUME NEW r \in Request, RunExtractor(r) PROVE FundsInv'
  <2>1. /\ \A q \in Request \ {r} : Still(q)
        /\ pc'[r] \notin {"recheck_balance", "recheck_cap", "insert_charge", "commit_charge"}
        /\ attempt'[r] = attempt[r]
        /\ reply'[r] = reply[r] \/ reply'[r] # "charge_contention"
        /\ UNCHANGED ledgerVars
    BY <1>5, <1>T DEF RunExtractor, Goto, Answer, Still, capVars
  <2> QED BY <2>1, <1>0, <1>F, Release
<1>6. ASSUME NEW r \in Request, PersistBundle(r) PROVE FundsInv'
  <2>1. /\ \A q \in Request \ {r} : Still(q)
        /\ pc'[r] \notin {"recheck_balance", "recheck_cap", "insert_charge", "commit_charge"}
        /\ attempt'[r] = attempt[r]
        /\ reply'[r] = reply[r] \/ reply'[r] # "charge_contention"
        /\ UNCHANGED ledgerVars
    BY <1>6, <1>T DEF PersistBundle, Goto, Answer, Still, capVars
  <2> QED BY <2>1, <1>0, <1>F, Release
<1>7. ASSUME NEW r \in Request, PersistRaises(r) PROVE FundsInv'
  <2>1. /\ \A q \in Request \ {r} : Still(q)
        /\ pc'[r] \notin {"recheck_balance", "recheck_cap", "insert_charge", "commit_charge"}
        /\ attempt'[r] = attempt[r]
        /\ reply'[r] = reply[r] \/ reply'[r] # "charge_contention"
        /\ UNCHANGED ledgerVars
    BY <1>7, <1>T DEF PersistRaises, Goto, Answer, Still, capVars
  <2> QED BY <2>1, <1>0, <1>F, Release
<1>8. ASSUME NEW r \in Request, ScorePasses(r) PROVE FundsInv'
  <2>1. /\ \A q \in Request \ {r} : Still(q)
        /\ pc'[r] \notin {"recheck_balance", "recheck_cap", "insert_charge", "commit_charge"}
        /\ attempt'[r] = attempt[r]
        /\ reply'[r] = reply[r] \/ reply'[r] # "charge_contention"
        /\ UNCHANGED ledgerVars
    BY <1>8, <1>T DEF ScorePasses, Goto, Answer, Still, capVars
  <2> QED BY <2>1, <1>0, <1>F, Release
<1>9. ASSUME NEW r \in Request, ScoreFails(r) PROVE FundsInv'
  <2>1. /\ \A q \in Request \ {r} : Still(q)
        /\ pc'[r] \notin {"recheck_balance", "recheck_cap", "insert_charge", "commit_charge"}
        /\ attempt'[r] = attempt[r]
        /\ reply'[r] = reply[r] \/ reply'[r] # "charge_contention"
        /\ UNCHANGED ledgerVars
    BY <1>9, <1>T DEF ScoreFails, Goto, Answer, Still, capVars
  <2> QED BY <2>1, <1>0, <1>F, Release
<1>10. ASSUME NEW r \in Request, RecordBridgeError(r) PROVE FundsInv'
  <2>1. /\ \A q \in Request \ {r} : Still(q)
        /\ pc'[r] \notin {"recheck_balance", "recheck_cap", "insert_charge", "commit_charge"}
        /\ attempt'[r] = attempt[r]
        /\ reply'[r] = reply[r] \/ reply'[r] # "charge_contention"
        /\ UNCHANGED <<deposits, charged, recent>>
    BY <1>10, <1>T DEF RecordBridgeError, Goto, Answer, Still, capVars
  <2>2. \A u \in User : credit_balance(u)' >= credit_balance(u)
    <3>1. _refund(r, "extraction_failed") \/ UNCHANGED refundRows
      BY <1>10 DEF RecordBridgeError
    <3> QED BY <3>1, <2>1, <1>0, RefundRaises, LedgerFrame DEF RefundNote
  <2>3. \A k \in Key : spend_cap_spent_cents(k)' <= spend_cap_spent_cents(k)
    BY <2>1, <1>0, SpentFrame
  <2> QED BY <2>1, <2>2, <2>3, <1>0, Release
<1>11. ASSUME NEW r \in Request, RecordStorageError(r) PROVE FundsInv'
  <2>1. /\ \A q \in Request \ {r} : Still(q)
        /\ pc'[r] \notin {"recheck_balance", "recheck_cap", "insert_charge", "commit_charge"}
        /\ attempt'[r] = attempt[r]
        /\ reply'[r] = reply[r] \/ reply'[r] # "charge_contention"
        /\ UNCHANGED <<deposits, charged, recent>>
    BY <1>11, <1>T DEF RecordStorageError, Goto, Answer, Still, capVars
  <2>2. \A u \in User : credit_balance(u)' >= credit_balance(u)
    <3>1. _refund(r, "extraction_failed")
      BY <1>11 DEF RecordStorageError
    <3> QED BY <3>1, <2>1, <1>0, RefundRaises, LedgerFrame DEF RefundNote
  <2>3. \A k \in Key : spend_cap_spent_cents(k)' <= spend_cap_spent_cents(k)
    BY <2>1, <1>0, SpentFrame
  <2> QED BY <2>1, <2>2, <2>3, <1>0, Release
<1>12. ASSUME NEW r \in Request, CommitLowQuality(r) PROVE FundsInv'
  <2>1. /\ \A q \in Request \ {r} : Still(q)
        /\ pc'[r] \notin {"recheck_balance", "recheck_cap", "insert_charge", "commit_charge"}
        /\ attempt'[r] = attempt[r]
        /\ reply'[r] = reply[r] \/ reply'[r] # "charge_contention"
        /\ UNCHANGED <<deposits, charged, recent>>
    BY <1>12, <1>T DEF CommitLowQuality, Goto, Answer, Still, capVars
  <2>2. \A u \in User : credit_balance(u)' >= credit_balance(u)
    <3>1. _refund(r, "low_quality_refund")
      BY <1>12 DEF CommitLowQuality
    <3> QED BY <3>1, <2>1, <1>0, RefundRaises, LedgerFrame DEF RefundNote
  <2>3. \A k \in Key : spend_cap_spent_cents(k)' <= spend_cap_spent_cents(k)
    BY <2>1, <1>0, SpentFrame
  <2> QED BY <2>1, <2>2, <2>3, <1>0, Release
<1>13. ASSUME NEW r \in Request, LockUserRow(r) PROVE FundsInv'
  <2>1. /\ \A q \in Request \ {r} : Still(q)
        /\ pc'[r] = "recheck_balance"
        /\ attempt'[r] = attempt[r] /\ reply'[r] = reply[r]
        /\ UNCHANGED ledgerVars
    BY <1>13, <1>T DEF LockUserRow, Goto, Still, capVars
  <2>2. FundsOf(r)'
    BY <2>1 DEF FundsInv, FundsOf, Covered
  <2>3. CASE Postgres
    BY <2>1, <2>2, <2>3, <1>13, <1>0, Acquire DEF LockUserRow
  <2>4. CASE ~Postgres
    <3>1. ASSUME NEW q \in Request, q = r PROVE FundsOf(q)' /\ ~HoldsRowLock(q)'
      BY <2>1, <2>4, <3>1 DEF FundsInv, FundsOf, Covered, HoldsRowLock
    <3>2. \A q \in Request : Still(q) \/ ((HoldsRowLock(q)' => HoldsRowLock(q)) /\ FundsOf(q)')
      <4> SUFFICES ASSUME NEW q \in Request
                   PROVE  Still(q) \/ ((HoldsRowLock(q)' => HoldsRowLock(q)) /\ FundsOf(q)')
        OBVIOUS
      <4> QED BY <2>1, <3>1
    <3> QED BY <3>2, <2>1, <1>0, <1>F, QuietStep
  <2> QED BY <2>3, <2>4
<1>14. ASSUME NEW r \in Request, RecheckBalance(r) PROVE FundsInv'
  <2>1. /\ \A q \in Request \ {r} : Still(q)
        /\ attempt'[r] = attempt[r] /\ capSeen'[r] = capSeen[r]
        /\ UNCHANGED ledgerVars
    BY <1>14, <1>T DEF RecheckBalance, Goto, Answer, Still, capVars
  <2>2. CASE Answer(r, "insufficient_credit")
    <3>1. pc'[r] = "done" /\ reply'[r] = "insufficient_credit"
      BY <2>2, <1>T DEF Answer, Goto
    <3> QED BY <3>1, <2>1, <1>0, <1>F, Release
  <2>3. CASE credit_balance(UserOf[r]) >= PriceOf[r] /\ Goto(r, "recheck_cap") /\ UNCHANGED reply
    <3>1. pc[r] = "recheck_balance" /\ pc'[r] = "recheck_cap" /\ reply'[r] = reply[r]
      BY <1>14, <2>3, <1>T DEF RecheckBalance, Goto
    <3>2. UserOf[r] \in User /\ KeyOf[r] \in Key
      BY UserOfType
    <3>3. /\ credit_balance(UserOf[r])' = credit_balance(UserOf[r])
          /\ spend_cap_spent_cents(KeyOf[r])' = spend_cap_spent_cents(KeyOf[r])
      BY <3>2, <2>1, <1>0, LedgerFrame, SpentFrame DEF ledgerVars
    <3>4. credit_balance(UserOf[r])' >= PriceOf[r]
      BY <2>3, <3>3
    <3>5. ASSUME NEW q \in Request, q = r
          PROVE  FundsOf(q)' /\ (HoldsRowLock(q)' => HoldsRowLock(q))
      <4>1. HoldsRowLock(r)' => HoldsRowLock(r)
        BY <3>1 DEF HoldsRowLock
      <4> QED BY <2>1, <3>1, <3>4, <3>5, <4>1 DEF FundsInv, FundsOf, Covered, UserOf, PriceOf, HoldsRowLock
    <3>6. \A q \in Request : Still(q) \/ ((HoldsRowLock(q)' => HoldsRowLock(q)) /\ FundsOf(q)')
      <4> SUFFICES ASSUME NEW q \in Request
                   PROVE  Still(q) \/ ((HoldsRowLock(q)' => HoldsRowLock(q)) /\ FundsOf(q)')
        OBVIOUS
      <4> QED BY <2>1, <3>5
    <3> QED BY <3>6, <2>1, <1>0, <1>F, QuietStep
  <2> QED BY <1>14, <2>2, <2>3 DEF RecheckBalance
<1>15. ASSUME NEW r \in Request, RecheckCap(r) PROVE FundsInv'
  <2>1. /\ \A q \in Request \ {r} : Still(q)
        /\ attempt'[r] = attempt[r] /\ capSeen'[r] = capSeen[r]
        /\ UNCHANGED ledgerVars
    BY <1>15, <1>T DEF RecheckCap, Goto, Answer, Still, capVars
  <2>2. CASE Answer(r, "spend_cap_exceeded")
    <3>1. pc'[r] = "done" /\ reply'[r] = "spend_cap_exceeded"
      BY <2>2, <1>T DEF Answer, Goto
    <3> QED BY <3>1, <2>1, <1>0, <1>F, Release
  <2>3. CASE WithinCap(r) /\ Goto(r, "insert_charge") /\ UNCHANGED reply
    <3>1. pc[r] = "recheck_cap" /\ pc'[r] = "insert_charge" /\ reply'[r] = reply[r]
      BY <1>15, <2>3, <1>T DEF RecheckCap, Goto
    <3>2. UserOf[r] \in User /\ KeyOf[r] \in Key
      BY UserOfType
    <3>3. /\ credit_balance(UserOf[r])' = credit_balance(UserOf[r])
          /\ spend_cap_spent_cents(KeyOf[r])' = spend_cap_spent_cents(KeyOf[r])
      BY <3>2, <2>1, <1>0, LedgerFrame, SpentFrame DEF ledgerVars
    <3>4. WithinCap(r)' /\ (Postgres => credit_balance(UserOf[r])' >= PriceOf[r])
      BY <2>1, <2>3, <3>1, <3>3 DEF WithinCap, UserOf, PriceOf, FundsInv, FundsOf, Covered
    <3>5. ASSUME NEW q \in Request, q = r
          PROVE  FundsOf(q)' /\ (HoldsRowLock(q)' => HoldsRowLock(q))
      <4>1. HoldsRowLock(r)' => HoldsRowLock(r)
        BY <3>1 DEF HoldsRowLock
      <4> QED BY <2>1, <3>1, <3>4, <3>5, <4>1 DEF FundsInv, FundsOf, Covered, UserOf, PriceOf, HoldsRowLock
    <3>6. \A q \in Request : Still(q) \/ ((HoldsRowLock(q)' => HoldsRowLock(q)) /\ FundsOf(q)')
      <4> SUFFICES ASSUME NEW q \in Request
                   PROVE  Still(q) \/ ((HoldsRowLock(q)' => HoldsRowLock(q)) /\ FundsOf(q)')
        OBVIOUS
      <4> QED BY <2>1, <3>5
    <3> QED BY <3>6, <2>1, <1>0, <1>F, QuietStep
  <2> QED BY <1>15, <2>2, <2>3 DEF RecheckCap
<1>16. ASSUME NEW r \in Request, InsertCharge(r) PROVE FundsInv'
  <2>1. /\ \A q \in Request \ {r} : Still(q)
        /\ pc[r] = "insert_charge" /\ pc'[r] # "insert_charge" /\ capSeen'[r] = capSeen[r]
        /\ UNCHANGED ledgerVars
    BY <1>16, <1>T DEF InsertCharge, Goto, Answer, Still, capVars
  <2>2. UserOf[r] \in User /\ KeyOf[r] \in Key /\ PriceOf[r] \in Nat
    BY UserOfType
  <2>3. credit_balance(UserOf[r]) \in Int
    BY <2>2, <1>0, BalanceType DEF BalanceTyped
  <2>4. /\ credit_balance(UserOf[r])' = credit_balance(UserOf[r])
        /\ spend_cap_spent_cents(KeyOf[r])' = spend_cap_spent_cents(KeyOf[r])
    BY <2>1, <2>2, <1>0, LedgerFrame, SpentFrame DEF ledgerVars
  <2>5. CheckPasses(r) => credit_balance(UserOf[r])' >= PriceOf[r]
    BY <2>2, <2>3, <2>4 DEF CheckPasses
  <2>6. CASE Postgres
    <3>1. CheckPasses(r)
      BY <2>1, <2>2, <2>3, <2>6 DEF CheckPasses, FundsInv, FundsOf, Covered
    <3>2. pc'[r] = "commit_charge" /\ attempt'[r] = attempt[r] /\ reply'[r] = reply[r]
      BY <1>16, <3>1, <1>T DEF InsertCharge, Goto
    <3>3. WithinCap(r)'
      BY <2>1, <2>4, <2>6 DEF FundsInv, FundsOf, WithinCap, UserOf, PriceOf
    <3>4. ASSUME NEW q \in Request, q = r
          PROVE  FundsOf(q)' /\ (HoldsRowLock(q)' => HoldsRowLock(q))
      <4>1. HoldsRowLock(r)
        BY <2>1, <2>6 DEF HoldsRowLock
      <4> QED BY <2>5, <3>1, <3>2, <3>3, <3>4, <4>1, <2>6 DEF FundsInv, FundsOf, Covered, UserOf, PriceOf
    <3>5. \A q \in Request : Still(q) \/ ((HoldsRowLock(q)' => HoldsRowLock(q)) /\ FundsOf(q)')
      <4> SUFFICES ASSUME NEW q \in Request
                   PROVE  Still(q) \/ ((HoldsRowLock(q)' => HoldsRowLock(q)) /\ FundsOf(q)')
        OBVIOUS
      <4> QED BY <2>1, <3>4
    <3> QED BY <3>5, <2>1, <1>0, <1>F, QuietStep
  <2>7. CASE ~Postgres
    <3>1. FundsOf(r)'
      <4>1. pc'[r] = "commit_charge" => CheckPasses(r)
        BY <1>16, <1>T DEF InsertCharge, Goto, Answer
      <4> QED BY <2>5, <2>7, <4>1 DEF FundsOf, Covered, UserOf, PriceOf
    <3>2. Writable(UserOf[r])
      BY <1>16, <2>7 DEF InsertCharge
    <3> QED BY <2>1, <3>1, <3>2, <1>0, Acquire
  <2> QED BY <2>6, <2>7
<1>17. ASSUME NEW r \in Request, CommitCharge(r) PROVE FundsInv'
  BY <1>17, <1>0, ChargeFunds
<1>18. ASSUME NEW u \in User, TopUp(u) PROVE FundsInv'
  <2>1. PICK cents \in TopUpCents : deposits' = [deposits EXCEPT ![u] = @ + cents]
    BY <1>18 DEF TopUp
  <2>2. cents \in Nat /\ UNCHANGED <<charged, recent, refundRows>> /\ \A q \in Request : Still(q)
    BY <1>18, CentsAssumption DEF TopUp, Still, capVars
  <2>3. ASSUME NEW v \in User PROVE credit_balance(v)' >= credit_balance(v)
    <3>1. credit_balance(v)' = IF v = u THEN credit_balance(v) + cents ELSE credit_balance(v)
      BY <2>1, <2>2, <1>0, BalanceOfDeposit
    <3>2. credit_balance(v) \in Int
      BY <1>0, BalanceType DEF BalanceTyped
    <3> QED BY <2>2, <3>1, <3>2
  <2>4. \A k \in Key : spend_cap_spent_cents(k)' <= spend_cap_spent_cents(k)
    BY <2>2, <1>0, SpentFrame
  <2> QED BY <2>2, <2>3, <2>4, <1>0, QuietStep
<1>19. ASSUME NEW k \in Key, update_spend_cap(k) PROVE FundsInv'
  <2>1. (\A q \in Request : Still(q)) /\ UNCHANGED ledgerVars
    BY <1>19 DEF update_spend_cap, Still
  <2> QED BY <2>1, <1>0, <1>F, QuietStep
<1>20. ASSUME NEW r \in Request, LeaveWindow(r) PROVE FundsInv'
  <2>1. (\A q \in Request : Still(q)) /\ UNCHANGED <<deposits, charged, refundRows>>
    BY <1>20 DEF LeaveWindow, Still, capVars
  <2>2. \A k \in Key : spend_cap_spent_cents(k)' <= spend_cap_spent_cents(k)
    BY <1>20, <1>0, SpentOfAgeing DEF LeaveWindow
  <2> QED BY <2>1, <2>2, <1>0, LedgerFrame, QuietStep
<1>21. ASSUME NEW p \in Process, Crash(p) PROVE FundsInv'
  <2>1. UNCHANGED <<ledgerVars, capSeen, attempt, reply>>
    BY <1>21 DEF Crash, capVars
  <2>2. \A q \in Request : pc'[q] = pc[q] \/ pc'[q] = "lost"
    BY <1>21 DEF Crash
  <2>3. \A q \in Request : Still(q) \/ ((HoldsRowLock(q)' => HoldsRowLock(q)) /\ FundsOf(q)')
    <3> SUFFICES ASSUME NEW q \in Request
                 PROVE  Still(q) \/ ((HoldsRowLock(q)' => HoldsRowLock(q)) /\ FundsOf(q)')
      OBVIOUS
    <3>1. CASE pc'[q] = pc[q]
      BY <2>1, <3>1 DEF Still
    <3>2. CASE pc'[q] = "lost"
      BY <2>1, <3>2 DEF FundsInv, FundsOf, Covered, HoldsRowLock
    <3> QED BY <2>2, <3>1, <3>2
  <2> QED BY <2>1, <2>3, <1>0, <1>F, QuietStep
<1>22. ASSUME UNCHANGED vars PROVE FundsInv'
  <2>1. (\A q \in Request : Still(q)) /\ UNCHANGED ledgerVars
    BY <1>22 DEF vars, Still, capVars
  <2> QED BY <2>1, <1>0, <1>F, QuietStep
<1> QED
  BY <1>1, <1>2, <1>3, <1>4, <1>5, <1>6, <1>7, <1>8, <1>9, <1>10, <1>11, <1>12, <1>13,
     <1>14, <1>15, <1>16, <1>17, <1>18, <1>19, <1>20, <1>21, <1>22
     DEF Next, RequestStep, AllEnded

LEMMA FundsAlways == Spec => [](StatusInv /\ FundsInv)
<1>1. Init => StatusInv /\ FundsInv
  BY StatusInit, FundsInit
<1>2. (StatusInv /\ FundsInv) /\ [Next]_vars => (StatusInv /\ FundsInv)'
  BY StatusStep, FundsStep
<1> QED BY <1>1, <1>2, PTL DEF Spec

\* No number of concurrent requests, processes, refunds and top-ups overdraws
\* a user, on PostgreSQL or on SQLite.
THEOREM NeverNegative == Spec => []BalanceNonNegative
<1>1. StatusInv /\ FundsInv => BalanceNonNegative
  BY DEF FundsInv
<1> QED BY <1>1, FundsAlways, PTL

\* On PostgreSQL the retry loop of the charge runs once and 409 is dead code.
THEOREM NoContention == Spec => []ContentionUnreachable
<1>1. StatusInv /\ FundsInv => ContentionUnreachable
  BY DEF FundsInv, FundsOf, ContentionUnreachable
<1> QED BY <1>1, FundsAlways, PTL

-----------------------------------------------------------------------------
(* The spend cap, and the account the ledger implements. *)

\* What each step does to the committed ledger.
LEMMA LedgerSteps ==
    ASSUME [Next]_vars
    PROVE  \/ UNCHANGED <<deposits, charged, refundRows>>
           \/ \E r \in Request : CommitCharge(r)
           \/ \E r \in Request, note \in RefundNote :
                _refund(r, note) /\ UNCHANGED <<deposits, charged>>
                /\ (RecordBridgeError(r) \/ RecordStorageError(r) \/ CommitLowQuality(r))
           \/ \E u \in User : TopUp(u)
<1> DEFINE Goal ==
      \/ UNCHANGED <<deposits, charged, refundRows>>
      \/ \E r \in Request : CommitCharge(r)
      \/ \E r \in Request, note \in RefundNote :
           _refund(r, note) /\ UNCHANGED <<deposits, charged>>
           /\ (RecordBridgeError(r) \/ RecordStorageError(r) \/ CommitLowQuality(r))
      \/ \E u \in User : TopUp(u)
<1>1. ASSUME NEW r \in Request,
             \/ Authenticate(r) \/ ReadBalance(r) \/ ReadCap(r) \/ EnterUserLock(r)
             \/ LockUserRow(r) \/ RecheckBalance(r) \/ RecheckCap(r) \/ InsertCharge(r)
      PROVE  Goal
  BY <1>1 DEF Authenticate, ReadBalance, ReadCap, EnterUserLock, LockUserRow, RecheckBalance,
              RecheckCap, InsertCharge, ledgerVars
<1>2. ASSUME NEW r \in Request,
             \/ RunExtractor(r) \/ PersistBundle(r) \/ PersistRaises(r)
             \/ ScorePasses(r) \/ ScoreFails(r) \/ LeaveWindow(r)
      PROVE  Goal
  BY <1>2 DEF RunExtractor, PersistBundle, PersistRaises, ScorePasses, ScoreFails, LeaveWindow,
              ledgerVars
<1>3. ASSUME NEW r \in Request, RecordBridgeError(r) PROVE Goal
  BY <1>3 DEF RecordBridgeError, RefundNote
<1>4. ASSUME NEW r \in Request, RecordStorageError(r) PROVE Goal
  BY <1>4 DEF RecordStorageError, RefundNote
<1>5. ASSUME NEW r \in Request, CommitLowQuality(r) PROVE Goal
  BY <1>5 DEF CommitLowQuality, RefundNote
<1>6. ASSUME NEW k \in Key, update_spend_cap(k) PROVE Goal
  BY <1>6 DEF update_spend_cap, ledgerVars
<1>7. ASSUME NEW p \in Process, Crash(p) PROVE Goal
  BY <1>7 DEF Crash, ledgerVars
<1>8. ASSUME UNCHANGED vars PROVE Goal
  BY <1>8 DEF vars, ledgerVars
<1>9. ASSUME NEW r \in Request, CommitCharge(r) PROVE Goal
  BY <1>9
<1>10. ASSUME NEW u \in User, TopUp(u) PROVE Goal
  BY <1>10
<1> HIDE DEF Goal
<1>11. Goal
  BY <1>1, <1>2, <1>3, <1>4, <1>5, <1>6, <1>7, <1>8, <1>9, <1>10 DEF Next, RequestStep, AllEnded
<1> QED BY <1>11 DEF Goal

\* On PostgreSQL no interleaving of requests on a key lets a debit through
\* that takes its trailing spend over the cap the request was given.
THEOREM CapRespected == Postgres => (Spec => SpendCapRespected)
<1> SUFFICES ASSUME Postgres PROVE Spec => SpendCapRespected
  OBVIOUS
<1>1. ASSUME StatusInv, StatusInv', FundsInv, [Next]_vars, NEW r \in charged' \ charged,
             capSeen[r] # NoCap
      PROVE  spend_cap_spent_cents(KeyOf[r])' <= capSeen[r]
  <2>1. PICK q \in Request : CommitCharge(q)
    BY <1>1, LedgerSteps DEF TopUp
  <2>2. q = r /\ pc[r] = "commit_charge" /\ recent' = recent \cup {r}
    BY <1>1, <2>1 DEF CommitCharge
  <2>3. TypeOK /\ r \in Request /\ r \notin recent /\ KeyOf[r] \in Key
    BY <1>1, <2>2, UserOfType DEF StatusInv, TypeOK
  <2>4. WithinCap(r)
    BY <1>1, <2>2, <2>3 DEF FundsInv, FundsOf
  <2>5. spend_cap_spent_cents(KeyOf[r])' = spend_cap_spent_cents(KeyOf[r]) + PriceOf[r]
    BY <2>2, <2>3, SpentOfCharge DEF KeyShare
  <2> QED BY <1>1, <2>4, <2>5 DEF WithinCap
<1>2. StatusInv /\ StatusInv' /\ FundsInv /\ [Next]_vars =>
        [\A r \in charged' \ charged :
           capSeen[r] # NoCap => spend_cap_spent_cents(KeyOf[r])' <= capSeen[r]]_vars
  BY <1>1
<1> QED BY <1>2, FundsAlways, PTL DEF Spec, SpendCapRespected


LEMMA AccountInit == Init => Account!Init
<1> SUFFICES ASSUME Init PROVE Account!Init
  OBVIOUS
<1>1. ASSUME NEW u \in User PROVE credit_balance(u) \in Nat
  <2>1. /\ deposits[u] \in Nat /\ charged \cap Of(u) = {}
        /\ refundRows["extraction_failed"] \cap Of(u) = {}
        /\ refundRows["low_quality_refund"] \cap Of(u) = {}
    BY CentsAssumption DEF Init, RefundNote
  <2>2. credit_balance(u) = deposits[u] - Cents({}) + Cents({}) + Cents({})
    BY <2>1 DEF credit_balance
  <2> QED BY NoCents, <2>1, <2>2
<1>2. \A r \in Request : ~Refunded(r) /\ r \notin charged
  BY DEF Init, Refunded
<1> QED BY <1>1, <1>2 DEF Account!Init

LEMMA AccountStep ==
    StatusInv /\ StatusInv' /\ FundsInv /\ [Next]_vars => [Account!Next]_(Account!acctVars)
<1> SUFFICES ASSUME StatusInv, StatusInv', FundsInv, [Next]_vars
             PROVE  Account!Next \/ UNCHANGED Account!acctVars
  OBVIOUS
<1>0. TypeOK /\ TypeOK' /\ \A u \in User : credit_balance(u) \in Int
  BY BalanceType DEF StatusInv, BalanceTyped
<1>1. ASSUME UNCHANGED <<deposits, charged, refundRows>> PROVE UNCHANGED Account!acctVars
  <2>1. \A u \in User : credit_balance(u)' = credit_balance(u)
    BY <1>0, <1>1, LedgerFrame
  <2>2. \A r \in Request : (Refunded(r)' <=> Refunded(r)) /\ (r \in charged' <=> r \in charged)
    BY <1>1 DEF Refunded
  <2> QED BY <2>1, <2>2 DEF Account!acctVars
<1>2. ASSUME NEW r \in Request, CommitCharge(r) PROVE Account!Pay(r)
  <2>1. r \notin charged /\ ~Refunded(r) /\ charged' = charged \cup {r} /\ UNCHANGED <<deposits, refundRows>>
    BY <1>2, RefundedNotes DEF CommitCharge, StatusInv, ControlInv, RowInv, RefundDue, BeforeCharge, CriticalSection
  <2>2. credit_balance(UserOf[r]) >= PriceOf[r] /\ UserOf[r] \in User
    BY <1>2, UserOfType DEF CommitCharge, FundsInv, FundsOf, Covered
  <2>3. \A u \in User : credit_balance(u)' = credit_balance(u) - Share(r, u)
    BY <1>0, <2>1, BalanceOfCharge
  <2>4. \A u \in User : credit_balance(u)' =
           IF u = UserOf[r] THEN credit_balance(u) - PriceOf[r] ELSE credit_balance(u)
    BY <1>0, <2>3 DEF Share
  <2>5. \A q \in Request : (Refunded(q)' <=> Refunded(q)) /\ (q \in charged' <=> q \in charged \/ q = r)
    BY <2>1 DEF Refunded
  <2> QED BY <2>1, <2>2, <2>4, <2>5 DEF Account!Pay
<1>3. ASSUME NEW r \in Request, NEW note \in RefundNote, _refund(r, note), UNCHANGED <<deposits, charged>>,
             RecordBridgeError(r) \/ RecordStorageError(r) \/ CommitLowQuality(r), ~Refunded(r)
      PROVE  Account!Refund(r)
  <2>1. r \in charged
    BY <1>3 DEF RecordBridgeError, RecordStorageError, CommitLowQuality, StatusInv, ControlInv, RowInv
  <2>2. \A u \in User : credit_balance(u)' = credit_balance(u) + Share(r, u)
    BY <1>0, <1>3, BalanceOfRefund
  <2>3. \A u \in User : credit_balance(u)' =
           IF u = UserOf[r] THEN credit_balance(u) + PriceOf[r] ELSE credit_balance(u)
    BY <1>0, <2>2 DEF Share
  <2>4. \A q \in Request : (Refunded(q)' <=> Refunded(q) \/ q = r) /\ (q \in charged' <=> q \in charged)
    <3>1. \A n \in RefundNote :
            refundRows'[n] = IF n = note THEN refundRows[n] \cup {r} ELSE refundRows[n]
      BY <1>0, <1>3, RefundEffect
    <3> QED BY <1>3, <3>1 DEF Refunded
  <2> QED BY <1>3, <2>1, <2>3, <2>4, UserOfType DEF Account!Refund
<1>4. ASSUME NEW r \in Request, NEW note \in RefundNote, _refund(r, note), UNCHANGED <<deposits, charged>>,
             Refunded(r)
      PROVE  UNCHANGED Account!acctVars
  BY <1>1, <1>4 DEF _refund
<1>5. ASSUME NEW u \in User, TopUp(u) PROVE Account!Deposit(u)
  <2>1. PICK cents \in TopUpCents : deposits' = [deposits EXCEPT ![u] = @ + cents]
    BY <1>5 DEF TopUp
  <2>2. cents \in Nat \ {0} /\ UNCHANGED <<charged, refundRows>>
    BY <1>5, CentsAssumption DEF TopUp
  <2>3. \A v \in User : credit_balance(v)' = IF v = u THEN credit_balance(v) + cents ELSE credit_balance(v)
    BY <1>0, <2>1, <2>2, BalanceOfDeposit
  <2>4. \A r \in Request : (Refunded(r)' <=> Refunded(r)) /\ (r \in charged' <=> r \in charged)
    BY <2>2 DEF Refunded
  <2>5. \A v \in User : credit_balance(v)' \in Int
    BY <1>0, <2>2, <2>3
  <2>6. credit_balance(u)' > credit_balance(u)
    BY <1>0, <2>2, <2>3
  <2> QED BY <2>3, <2>4, <2>5, <2>6 DEF Account!Deposit
<1>6. ASSUME NEW r \in Request, CommitCharge(r) PROVE Account!Next
  BY <1>2, <1>6 DEF Account!Next
<1>7. ASSUME NEW u \in User, TopUp(u) PROVE Account!Next
  BY <1>5, <1>7 DEF Account!Next
<1>8. ASSUME NEW r \in Request, NEW note \in RefundNote, _refund(r, note), UNCHANGED <<deposits, charged>>,
             RecordBridgeError(r) \/ RecordStorageError(r) \/ CommitLowQuality(r)
      PROVE  Account!Next \/ UNCHANGED Account!acctVars
  BY <1>3, <1>4, <1>8 DEF Account!Next
<1> QED BY <1>1, <1>6, <1>7, <1>8, LedgerSteps

\* The locks, the retries, the two commits and the crashes are invisible to a
\* customer: what is left is an account that pays once and refunds once.
THEOREM LedgerIsAnAccount == Spec => ImplementsCreditAccount
<1>1. Spec => Account!Init
  BY AccountInit DEF Spec
<1>2. Spec => [][Account!Next]_(Account!acctVars)
  BY AccountStep, FundsAlways, PTL DEF Spec
<1> QED BY <1>1, <1>2 DEF ImplementsCreditAccount, Account!Spec
=============================================================================
