-------------------------- MODULE ExtractionBilling --------------------------
(***************************************************************************)
(* POST /v1/extractions (app/routes/extractions.py): the charge, the run   *)
(* of the extractor, and the refund, of concurrent requests that are       *)
(* spread over API processes and share the credit ledger.                  *)
(*                                                                         *)
(* A request is a thread of its process; pc is where it stands between     *)
(* two database statements.  Committed rows are the variables extraction,  *)
(* charged, recent and refundRows; a row that is inserted and not yet      *)
(* committed exists only as pc = "commit_charge", because no other         *)
(* transaction sees it (READ COMMITTED).  The locks are predicates of pc:  *)
(* whoever is between the statement that takes a lock and the one that     *)
(* releases it holds it, and a crash releases it by moving pc.             *)
(***************************************************************************)
EXTENDS Integers, FiniteSets

CONSTANTS
    Request, User, Key, Process,
    KeyOf,          \* [Request -> Key], the API key the request presents
    OwnerOf,        \* [Key -> User]
    ProcessOf,      \* [Request -> Process], the API process that serves it
    Private,        \* the requests with "private": true
    PublicCents,    \* EXTRACTION_PUBLIC_CENTS
    PrivateCents,   \* EXTRACTION_PRIVATE_CENTS
    Postgres,       \* TRUE on PostgreSQL, FALSE on SQLite
    MaxRetries,     \* CHARGE_MAX_RETRIES
    FailureCode,    \* the codes an ExtractionBridgeError may carry
    Refundable,     \* those among them that is_refundable() accepts
    OpeningCents,   \* balances a user may start with
    TopUpCents,     \* amounts a top-up may add
    MaxDeposit,     \* bound: what a user's grants and top-ups may sum to
    CapCents,       \* values PATCH .../spend_cap may set
    NoCap           \* spend_cap_cents IS NULL

ASSUME KeysAssumption ==
    /\ IsFiniteSet(Request)
    /\ KeyOf \in [Request -> Key]
    /\ OwnerOf \in [Key -> User]
    /\ ProcessOf \in [Request -> Process]
    /\ Private \subseteq Request

ASSUME CentsAssumption ==
    /\ PublicCents \in Nat \ {0}
    /\ PrivateCents \in Nat \ {0}
    /\ OpeningCents \subseteq Nat
    /\ TopUpCents \subseteq Nat \ {0}
    /\ MaxDeposit \in Nat
    /\ CapCents \subseteq Nat
    /\ NoCap \notin Nat

PersistError == "persist_error"

ASSUME PolicyAssumption ==
    /\ Postgres \in BOOLEAN
    /\ MaxRetries \in Nat \ {0}
    /\ Refundable \subseteq FailureCode
    /\ PersistError \in Refundable

VARIABLES
    pc,           \* [Request -> Step]
    attempt,      \* failed rounds of the charge retry loop
    deposits,     \* [User -> Nat], sum of the grant and top-up rows
    charged,      \* requests with an extraction_charge row
    recent,       \* those whose charge is younger than SPEND_CAP_WINDOW_DAYS
    refundRows,   \* [RefundNote -> SUBSET Request], the refund rows by note
    extraction,   \* [Request -> status of its extractions row]
    failure,      \* [Request -> code the failed row was classified with]
    cap,          \* [Key -> spend_cap_cents now]
    capSeen,      \* [Request -> spend_cap_cents the auth middleware loaded]
    emailed,      \* requests whose auto-refund email was sent
    audited,      \* requests with an auto_refund_audit_events row
    reply         \* [Request -> what the client was answered]

ledgerVars == <<deposits, charged, recent, refundRows>>
capVars == <<cap, capSeen>>
noticeVars == <<emailed, audited>>
vars == <<pc, attempt, ledgerVars, extraction, failure, capVars, noticeVars, reply>>

-----------------------------------------------------------------------------
(* Types. *)

\* Steps between session.commit() under the lock and the end of the charge.
CriticalSection ==
    {"lock_user_row", "recheck_balance", "recheck_cap", "insert_charge", "commit_charge"}

Step == CriticalSection \cup
    {"idle", "read_balance", "read_cap", "enter_lock", "extract", "bridge_error",
     "storage_error", "persist", "score", "commit_refund", "done", "lost"}

Status == {"none", "pending", "ok", "failed", "low_quality"}

\* The two notes _refund() is called with.
RefundNote == {"extraction_failed", "low_quality_refund"}

Refusal == {"insufficient_credit", "spend_cap_exceeded", "charge_contention"}
Reply == Refusal \cup
    {"none", "ok", "low_quality", "extractor_failed", "storage_failed", "server_error"}

NoFailure == "no_failure"

TypeOK ==
    /\ pc \in [Request -> Step]
    /\ attempt \in [Request -> 0..MaxRetries]
    /\ deposits \in [User -> Nat]
    /\ charged \subseteq Request
    /\ recent \subseteq charged
    /\ refundRows \in [RefundNote -> SUBSET Request]
    /\ extraction \in [Request -> Status]
    /\ failure \in [Request -> FailureCode \cup {NoFailure}]
    /\ cap \in [Key -> CapCents \cup {NoCap}]
    /\ capSeen \in [Request -> CapCents \cup {NoCap}]
    /\ emailed \subseteq Request
    /\ audited \subseteq Request
    /\ reply \in [Request -> Reply]

-----------------------------------------------------------------------------
(* Queries. *)

UserOf == [r \in Request |-> OwnerOf[KeyOf[r]]]

\* extraction_price_cents
PriceOf == [r \in Request |-> IF r \in Private THEN PrivateCents ELSE PublicCents]

\* The prices of a set of requests, summed.
Cents(S) ==
    PublicCents * Cardinality(S \ Private) + PrivateCents * Cardinality(S \cap Private)

Of(u) == {r \in Request : UserOf[r] = u}

\* credit_balance: the sum of a user's ledger rows.
credit_balance(u) ==
    deposits[u] - Cents(charged \cap Of(u))
      + Cents(refundRows["extraction_failed"] \cap Of(u))
      + Cents(refundRows["low_quality_refund"] \cap Of(u))

\* spend_cap_spent_cents: debits of the window; a refund does not restore it.
spend_cap_spent_cents(k) == Cents({r \in recent : KeyOf[r] = k})

WithinCap(r) ==
    \/ capSeen[r] = NoCap
    \/ /\ capSeen[r] # NoCap
       /\ spend_cap_spent_cents(KeyOf[r]) + PriceOf[r] <= capSeen[r]

Refunded(r) == \E note \in RefundNote : r \in refundRows[note]

\* _refund: idempotent on the extraction.
_refund(r, note) ==
    refundRows' = IF Refunded(r) THEN refundRows
                  ELSE [refundRows EXCEPT ![note] = @ \cup {r}]

-----------------------------------------------------------------------------
(* Locks. *)

\* _lock_for_user: one threading.Lock per process and user.
HoldsUserLock(r) == pc[r] \in CriticalSection

UserLockFree(r) ==
    \A s \in Request \ {r} :
        HoldsUserLock(s) => ProcessOf[s] # ProcessOf[r] \/ UserOf[s] # UserOf[r]

\* Mutant: SELECT without FOR UPDATE.
HoldsRowLockNoForUpdate(r) == ~Postgres /\ pc[r] = "commit_charge"

\* Mutant: the unlocked balance check reads the users row FOR SHARE, up to the
\* commit inside the user lock, so the two locks are taken in either order.
HoldsRowLockFromFirstRead(r) ==
    pc[r] \in IF Postgres
              THEN {"read_cap", "enter_lock",
                    "recheck_balance", "recheck_cap", "insert_charge", "commit_charge"}
              ELSE {"commit_charge"}

\* On PostgreSQL SELECT ... FOR UPDATE of the users row, held to the end of
\* the transaction; SQLite ignores FOR UPDATE, and its one write lock is
\* taken by the first INSERT.
HoldsRowLock(r) ==
    pc[r] \in IF Postgres
              THEN {"recheck_balance", "recheck_cap", "insert_charge", "commit_charge"}
              ELSE {"commit_charge"}

\* A row of user u can be written: every such row references users(u), and
\* that foreign key waits for FOR UPDATE; on SQLite any writer waits.
Writable(u) == \A s \in Request : HoldsRowLock(s) => Postgres /\ UserOf[s] # u

\* A row that references no user again: only SQLite makes its writer wait.
Updatable == Postgres \/ \A s \in Request : ~HoldsRowLock(s)

-----------------------------------------------------------------------------
Init ==
    /\ pc = [r \in Request |-> "idle"]
    /\ attempt = [r \in Request |-> 0]
    /\ deposits \in [User -> OpeningCents]
    /\ charged = {}
    /\ recent = {}
    /\ refundRows = [note \in RefundNote |-> {}]
    /\ extraction = [r \in Request |-> "none"]
    /\ failure = [r \in Request |-> NoFailure]
    /\ cap \in [Key -> CapCents \cup {NoCap}]
    /\ capSeen = [r \in Request |-> NoCap]
    /\ emailed = {}
    /\ audited = {}
    /\ reply = [r \in Request |-> "none"]

Goto(r, step) == pc' = [pc EXCEPT ![r] = step]

\* Return to the client: the thread is done and every lock is released.
Answer(r, body) ==
    /\ Goto(r, "done")
    /\ reply' = [reply EXCEPT ![r] = body]

\* The auth middleware loads the key once; the handler reads that copy.
Authenticate(r) ==
    /\ pc[r] = "idle"
    /\ capSeen' = [capSeen EXCEPT ![r] = cap[KeyOf[r]]]
    /\ Goto(r, "read_balance")
    /\ UNCHANGED <<attempt, ledgerVars, extraction, failure, cap, noticeVars, reply>>

\* The two fast-path refusals before the lock.
ReadBalance(r) ==
    /\ pc[r] = "read_balance"
    /\ \/ /\ credit_balance(UserOf[r]) < PriceOf[r]
          /\ Answer(r, "insufficient_credit")
       \/ /\ credit_balance(UserOf[r]) >= PriceOf[r]
          /\ Goto(r, "read_cap")
          /\ UNCHANGED reply
    /\ UNCHANGED <<attempt, ledgerVars, extraction, failure, capVars, noticeVars>>

ReadCap(r) ==
    /\ pc[r] = "read_cap"
    /\ \/ /\ ~WithinCap(r)
          /\ Answer(r, "spend_cap_exceeded")
       \/ /\ WithinCap(r)
          /\ Goto(r, "enter_lock")
          /\ UNCHANGED reply
    /\ UNCHANGED <<attempt, ledgerVars, extraction, failure, capVars, noticeVars>>

\* with _lock_for_user(user.id): session.commit() drops the old snapshot.
EnterUserLock(r) ==
    /\ pc[r] = "enter_lock"
    /\ UserLockFree(r)
    /\ Goto(r, "lock_user_row")
    /\ UNCHANGED <<attempt, ledgerVars, extraction, failure, capVars, noticeVars, reply>>

\* SELECT users.id ... FOR UPDATE; on SQLite the statement is skipped.
LockUserRow(r) ==
    /\ pc[r] = "lock_user_row"
    /\ Postgres => Writable(UserOf[r])
    /\ Goto(r, "recheck_balance")
    /\ UNCHANGED <<attempt, ledgerVars, extraction, failure, capVars, noticeVars, reply>>

\* Mutant: the re-read balance is compared with zero, not with the price.
RecheckBalanceAgainstZero(r) ==
    /\ pc[r] = "recheck_balance"
    /\ credit_balance(UserOf[r]) >= 0
    /\ Goto(r, "recheck_cap")
    /\ UNCHANGED <<attempt, ledgerVars, extraction, failure, capVars, noticeVars, reply>>

RecheckBalance(r) ==
    /\ pc[r] = "recheck_balance"
    /\ \/ /\ credit_balance(UserOf[r]) < PriceOf[r]
          /\ Answer(r, "insufficient_credit")
       \/ /\ credit_balance(UserOf[r]) >= PriceOf[r]
          /\ Goto(r, "recheck_cap")
          /\ UNCHANGED reply
    /\ UNCHANGED <<attempt, ledgerVars, extraction, failure, capVars, noticeVars>>

\* Mutant: only the check before the lock is left.
RecheckCapOmitted(r) ==
    /\ pc[r] = "recheck_cap"
    /\ Goto(r, "insert_charge")
    /\ UNCHANGED <<attempt, ledgerVars, extraction, failure, capVars, noticeVars, reply>>

RecheckCap(r) ==
    /\ pc[r] = "recheck_cap"
    /\ \/ /\ ~WithinCap(r)
          /\ Answer(r, "spend_cap_exceeded")
       \/ /\ WithinCap(r)
          /\ Goto(r, "insert_charge")
          /\ UNCHANGED reply
    /\ UNCHANGED <<attempt, ledgerVars, extraction, failure, capVars, noticeVars>>

\* Mutant: no CHECK constraint on credit_ledger.
CheckPassesAlways(r) == TRUE

\* balance_after_cents is the live sum less the price, and CHECK wants it >= 0.
CheckPasses(r) == credit_balance(UserOf[r]) - PriceOf[r] >= 0

\* session.flush() and _charge(): INSERT the pending extraction and its debit.
\* A violated CHECK rolls back, and after the last attempt answers 409.
InsertCharge(r) ==
    /\ pc[r] = "insert_charge"
    /\ Postgres \/ Writable(UserOf[r])
    /\ \/ /\ CheckPasses(r)
          /\ Goto(r, "commit_charge")
          /\ UNCHANGED <<attempt, reply>>
       \/ /\ ~CheckPasses(r)
          /\ attempt' = [attempt EXCEPT ![r] = @ + 1]
          /\ IF attempt[r] + 1 < MaxRetries
             THEN Goto(r, "lock_user_row") /\ UNCHANGED reply
             ELSE Answer(r, "charge_contention")
    /\ UNCHANGED <<ledgerVars, extraction, failure, capVars, noticeVars>>

CommitCharge(r) ==
    /\ pc[r] = "commit_charge"
    /\ charged' = charged \cup {r}
    /\ recent' = recent \cup {r}
    /\ extraction' = [extraction EXCEPT ![r] = "pending"]
    /\ Goto(r, "extract")
    /\ UNCHANGED <<attempt, deposits, refundRows, failure, capVars, noticeVars, reply>>

\* extractor(url) and the upload of the ZIP; the tokens.json upload may fail
\* without effect.
RunExtractor(r) ==
    /\ pc[r] = "extract"
    /\ \/ Goto(r, "persist") /\ UNCHANGED failure
       \/ /\ \E code \in FailureCode : failure' = [failure EXCEPT ![r] = code]
          /\ Goto(r, "bridge_error")
       \/ /\ failure' = [failure EXCEPT ![r] = PersistError]
          /\ Goto(r, "storage_error")
    /\ UNCHANGED <<attempt, ledgerVars, extraction, capVars, noticeVars, reply>>

\* except ExtractionBridgeError: refund only what is_refundable() accepts.
RecordBridgeError(r) ==
    /\ pc[r] = "bridge_error"
    /\ extraction' = [extraction EXCEPT ![r] = "failed"]
    /\ \/ /\ failure[r] \in Refundable
          /\ Writable(UserOf[r])
          /\ _refund(r, "extraction_failed")
       \/ /\ failure[r] \notin Refundable
          /\ Updatable
          /\ UNCHANGED refundRows
    /\ Answer(r, "extractor_failed")
    /\ UNCHANGED <<attempt, deposits, charged, recent, failure, capVars, noticeVars>>

\* Mutant: the handler of a storage error forgets the refund.
RecordStorageErrorUnrefunded(r) ==
    /\ pc[r] = "storage_error"
    /\ Writable(UserOf[r])
    /\ extraction' = [extraction EXCEPT ![r] = "failed"]
    /\ Answer(r, "storage_failed")
    /\ UNCHANGED <<attempt, ledgerVars, failure, capVars, noticeVars>>

\* except Exception: PERSIST_ERROR, always refunded.
RecordStorageError(r) ==
    /\ pc[r] = "storage_error"
    /\ Writable(UserOf[r])
    /\ extraction' = [extraction EXCEPT ![r] = "failed"]
    /\ _refund(r, "extraction_failed")
    /\ Answer(r, "storage_failed")
    /\ UNCHANGED <<attempt, deposits, charged, recent, failure, capVars, noticeVars>>

\* status = "ok", the asset version and the indexer job, first commit.
PersistBundle(r) ==
    /\ pc[r] = "persist"
    /\ Updatable
    /\ extraction' = [extraction EXCEPT ![r] = "ok"]
    /\ Goto(r, "score")
    /\ UNCHANGED <<attempt, ledgerVars, failure, capVars, noticeVars, reply>>

\* insert_or_reuse_asset_version or the commit raises outside every try: the
\* transaction is rolled back and the client gets a bare 500.
PersistRaises(r) ==
    /\ pc[r] = "persist"
    /\ Answer(r, "server_error")
    /\ UNCHANGED <<attempt, ledgerVars, extraction, failure, capVars, noticeVars>>

\* The score clears the threshold, or the scorer raised: the row stays "ok".
ScorePasses(r) ==
    /\ pc[r] = "score"
    /\ Updatable
    /\ Answer(r, "ok")
    /\ UNCHANGED <<attempt, ledgerVars, extraction, failure, capVars, noticeVars>>

\* Below the threshold: when a refund row is about to be added the customer
\* is mailed (best effort), before anything of it is committed.
ScoreFails(r) ==
    /\ pc[r] = "score"
    /\ emailed' \in IF Refunded(r) THEN {emailed} ELSE {emailed, emailed \cup {r}}
    /\ Goto(r, "commit_refund")
    /\ UNCHANGED <<attempt, ledgerVars, extraction, failure, capVars, audited, reply>>

\* Mutant: the refund_now result is read the wrong way round.
CommitLowQualityUnaudited(r) ==
    /\ pc[r] = "commit_refund"
    /\ Writable(UserOf[r])
    /\ extraction' = [extraction EXCEPT ![r] = "low_quality"]
    /\ _refund(r, "low_quality_refund")
    /\ audited' = IF Refunded(r) THEN audited \cup {r} ELSE audited
    /\ Answer(r, "low_quality")
    /\ UNCHANGED <<attempt, deposits, charged, recent, failure, capVars, emailed>>

\* Second commit: status, refund row and audit row together.
CommitLowQuality(r) ==
    /\ pc[r] = "commit_refund"
    /\ Writable(UserOf[r])
    /\ extraction' = [extraction EXCEPT ![r] = "low_quality"]
    /\ _refund(r, "low_quality_refund")
    /\ audited' = IF Refunded(r) THEN audited ELSE audited \cup {r}
    /\ Answer(r, "low_quality")
    /\ UNCHANGED <<attempt, deposits, charged, recent, failure, capVars, emailed>>

RequestStep(r) ==
    \/ ReadBalance(r) \/ ReadCap(r) \/ EnterUserLock(r) \/ LockUserRow(r)
    \/ RecheckBalance(r) \/ RecheckCap(r) \/ InsertCharge(r) \/ CommitCharge(r)
    \/ RunExtractor(r) \/ RecordBridgeError(r) \/ RecordStorageError(r)
    \/ PersistBundle(r) \/ PersistRaises(r)
    \/ ScorePasses(r) \/ ScoreFails(r) \/ CommitLowQuality(r)

-----------------------------------------------------------------------------
(* What else writes while requests run. *)

\* The Stripe webhook credits a paid top-up (see StripeTopup).
TopUp(u) ==
    /\ Writable(u)
    /\ \E cents \in TopUpCents :
         /\ deposits[u] + cents <= MaxDeposit
         /\ deposits' = [deposits EXCEPT ![u] = @ + cents]
    /\ UNCHANGED <<pc, attempt, charged, recent, refundRows, extraction, failure,
                   capVars, noticeVars, reply>>

\* PATCH /v1/api_keys/{id}/spend_cap
update_spend_cap(k) ==
    /\ cap' \in {[cap EXCEPT ![k] = c] : c \in CapCents \cup {NoCap}}
    /\ UNCHANGED <<pc, attempt, ledgerVars, extraction, failure, capSeen, noticeVars, reply>>

\* Thirty days pass over a charge whose request has long ended.
LeaveWindow(r) ==
    /\ r \in recent
    /\ pc[r] \in {"done", "lost"}
    /\ recent' = recent \ {r}
    /\ UNCHANGED <<pc, attempt, deposits, charged, refundRows, extraction, failure,
                   capVars, noticeVars, reply>>

InFlight(r) == pc[r] \notin {"idle", "done", "lost"}

\* The process dies: its threads, locks and open transactions go with it.
Crash(p) ==
    /\ \E r \in Request : ProcessOf[r] = p /\ InFlight(r)
    /\ pc' = [r \in Request |->
                IF ProcessOf[r] = p /\ InFlight(r) THEN "lost" ELSE pc[r]]
    /\ UNCHANGED <<attempt, ledgerVars, extraction, failure, capVars, noticeVars, reply>>

\* Every request has ended; nothing more has to happen.
AllEnded ==
    /\ \A r \in Request : pc[r] \in {"done", "lost"}
    /\ UNCHANGED vars

Next ==
    \/ \E r \in Request : Authenticate(r) \/ RequestStep(r) \/ LeaveWindow(r)
    \/ \E u \in User : TopUp(u)
    \/ \E k \in Key : update_spend_cap(k)
    \/ \E p \in Process : Crash(p)
    \/ AllEnded

\* A thread that can run is run, a lock that is free is granted, and the
\* extractor returns (it is under a timeout).  Nothing makes a client call,
\* a top-up arrive, or a process crash.
Fairness == \A r \in Request : WF_vars(RequestStep(r))

Spec == Init /\ [][Next]_vars
FairSpec == Spec /\ Fairness

-----------------------------------------------------------------------------
(* Properties. *)

\* Whatever requests, processes, refunds and top-ups interleave, no user's
\* ledger sums to less than zero: CHECK (balance_after_cents >= 0) sees one
\* inserted row at a time, and the locks must make that enough.
BalanceNonNegative == \A u \in User : credit_balance(u) >= 0

\* A debit lands only while the key's trailing spend, that debit included,
\* is within the cap its request was authenticated with, however many
\* requests passed the unlocked check at lines 567-578 together.
SpendCapRespected ==
    [][\A r \in charged' \ charged :
          capSeen[r] # NoCap => spend_cap_spent_cents(KeyOf[r])' <= capSeen[r]]_vars

\* On PostgreSQL the row lock leaves nothing for CHECK to refuse: no round of
\* the retry loop is ever lost and 409 charge_contention is never answered.
ContentionUnreachable ==
    Postgres => \A r \in Request : attempt[r] = 0 /\ reply[r] # "charge_contention"

\* The extractions row and the ledger agree in every committed state, hence
\* at every point a crash may hit: a row exists exactly when it was charged,
\* and a refund exists, once, exactly for a low-quality row and for a row
\* that failed for a reason that is not the customer's.
RowMatchesLedger ==
    \A r \in Request :
        /\ extraction[r] # "none" <=> r \in charged
        /\ Refunded(r) <=>
             \/ extraction[r] = "low_quality"
             \/ extraction[r] = "failed" /\ failure[r] \in Refundable
        /\ \E once \in RefundNote : \A note \in RefundNote \ {once} : r \notin refundRows[note]

\* What the client is told is what happened to its money: a refusal cost
\* nothing, "ok" was paid for, a storage failure and a low-quality result
\* were refunded and the latter has its audit row.
AnswerMatchesLedger ==
    \A r \in Request :
        /\ reply[r] \in Refusal => r \notin charged
        /\ reply[r] \in Reply \ (Refusal \cup {"none"}) => r \in charged
        /\ reply[r] \in {"ok", "server_error"} => ~Refunded(r)
        /\ reply[r] \in {"storage_failed", "low_quality"} => Refunded(r)
        /\ reply[r] = "low_quality" <=> r \in audited

\* Every request that got past authentication is answered, unless its
\* process died: whoever waits for the row lock already holds its process's
\* user lock, which the database's deadlock detector does not see, so nobody
\* may wait for the user lock with the row locked.
EveryRequestEnds == \A r \in Request : pc[r] = "read_balance" ~> pc[r] \in {"done", "lost"}

\* The ledger is an account: each committed step is a deposit, one payment
\* out of a sufficient balance, one refund of that payment, or invisible.
Account == INSTANCE CreditAccount WITH
    balance <- [u \in User |-> credit_balance(u)],
    paid <- [r \in Request |-> IF Refunded(r) THEN "refunded"
                               ELSE IF r \in charged THEN "paid" ELSE "unpaid"]

ImplementsCreditAccount == Account!Spec

=============================================================================
