------------------------- MODULE AnonymousExtraction -------------------------
(***************************************************************************)
(* The anonymous funnel: POST /v1/anonymous/extractions with its daily cap *)
(* per IP (app/routes/extractions_anonymous.py), the claim of the result   *)
(* by a new account (claim_anonymous_extraction, app/routes/               *)
(* internal_auth.py) and the daily reaper (scripts/                        *)
(* reap_anonymous_extractions.py), for the visitors behind one IP.  Each   *)
(* step is one statement or one commit, as Postgres at READ COMMITTED      *)
(* interleaves them.  Its names are apart from WebSession's: FunnelProofs  *)
(* extends both.                                                           *)
(***************************************************************************)
EXTENDS Integers, FiniteSets

CONSTANTS
    Request,        \* anonymous extraction requests of one IP
    Claim,          \* claim requests, each of an account of its own
    Token,          \* claim tokens that mint_claim_token may return
    Caps,           \* values that ANON_EXTRACT_PER_IP_PER_DAY may have
    LastDay,        \* bound: the UTC days 1..LastDay
    Service,        \* the service user
    NoOne           \* no row, no owner

ASSUME FunnelAssumption ==
    /\ Caps \subseteq Nat \ {0}
    /\ LastDay \in Nat \ {0}
    /\ Service \notin Claim
    /\ NoOne \notin Request \cup Claim \cup {Service}

VARIABLES
    cap,            \* per_ip_daily_cap(), fixed by the environment
    today,          \* today_bucket()
    count,          \* [day -> anon_extract_counters.count, 0 for no row]
    req,            \* [Request -> the state of its handler]
    owner,          \* [Request -> user_id of its extractions row]
    registry,       \* [Token -> the request of its row, or NoOne]
    status,         \* [Token -> status of its row]
    claimed,        \* tokens whose row has a claimed_at
    age,            \* [Token -> how old its row is]
    claim           \* [Claim -> the state of its handler]

counters == <<cap, today, count>>
rows == <<owner, registry, status, claimed, age>>
funnelVars == <<counters, rows, req, claim>>

Day == 1..LastDay
Age == {"fresh", "expired", "ancient"}

\* An allowed request ends in one of these; collisions counts the tokens it
\* drew that were taken.
ReqStep == {"idle", "read", "check", "classify", "insert", "out_of_scope",
            "accepted", "rate_limited", "claim_token_collision"}

ReqState ==
    [pc : ReqStep, day : Day, seen : Nat, attempts : 0..3, collisions : Nat]

FunnelTypeOK ==
    /\ cap \in Caps
    /\ today \in Day
    /\ count \in [Day -> Nat]
    /\ req \in [Request -> ReqState]
    /\ owner \in [Request -> Claim \cup {Service, NoOne}]
    /\ registry \in [Token -> Request \cup {NoOne}]
    /\ status \in [Token -> {"pending", "expired", "claimed"}]
    /\ claimed \subseteq Token
    /\ age \in [Token -> Age]
    /\ claim \in [Claim -> [pc : {"idle", "found", "ok", "refused"}, token : Token]]

FunnelInit ==
    /\ cap \in Caps
    /\ today = 1
    /\ count = [d \in Day |-> 0]
    /\ req = [r \in Request |->
                [pc |-> "idle", day |-> 1, seen |-> 0, attempts |-> 0, collisions |-> 0]]
    /\ owner = [r \in Request |-> NoOne]
    /\ registry = [t \in Token |-> NoOne]
    /\ status = [t \in Token |-> "pending"]
    /\ claimed = {}
    /\ age = [t \in Token |-> "fresh"]
    /\ claim \in [Claim -> [pc : {"idle"}, token : Token]]

-----------------------------------------------------------------------------
(* The daily cap: _check_and_increment_ip_counter. *)

MoveTo(r, step) == req' = [req EXCEPT ![r].pc = step]

\* A request arrives; its day bucket is fixed here.
Arrive(r) ==
    /\ req[r].pc = "idle"
    /\ req' = [req EXCEPT ![r].pc = "read", ![r].day = today]
    /\ UNCHANGED <<counters, rows, claim>>

\* The first SELECT, and the one after a lost INSERT race.
ReadCounter(r) ==
    /\ req[r].pc = "read"
    /\ req' = [req EXCEPT ![r].pc = "check", ![r].seen = count[req[r].day]]
    /\ UNCHANGED <<counters, rows, claim>>

\* Mutant: an INSERT .. ON CONFLICT that resets the count.
InsertCounterUpsert(r) ==
    /\ req[r].pc = "check" /\ req[r].seen = 0
    /\ count' = [count EXCEPT ![req[r].day] = 1]
    /\ MoveTo(r, "classify")
    /\ UNCHANGED <<cap, today, rows, claim>>

\* INSERT of the day's row; UNIQUE (ip_hash, day) lets one request through.
InsertCounter(r) ==
    /\ req[r].pc = "check" /\ req[r].seen = 0
    /\ \/ /\ count[req[r].day] = 0
          /\ count' = [count EXCEPT ![req[r].day] = 1]
          /\ MoveTo(r, "classify")
       \/ /\ count[req[r].day] # 0
          /\ MoveTo(r, "read")
          /\ UNCHANGED count
    /\ UNCHANGED <<cap, today, rows, claim>>

Limit(r) ==
    /\ req[r].pc = "check" /\ req[r].seen # 0
    /\ req[r].seen >= cap
    /\ MoveTo(r, "rate_limited")
    /\ UNCHANGED <<counters, rows, claim>>

\* The ORM writes the number it computed from what it read.
Increment(r) ==
    /\ req[r].pc = "check" /\ req[r].seen # 0
    /\ req[r].seen < cap
    /\ count' = [count EXCEPT ![req[r].day] = req[r].seen + 1]
    /\ MoveTo(r, "classify")
    /\ UNCHANGED <<cap, today, rows, claim>>

Midnight ==
    /\ today < LastDay
    /\ today' = today + 1
    /\ UNCHANGED <<cap, count, rows, req, claim>>

-----------------------------------------------------------------------------
(* The rows of an accepted request. *)

\* classify_url, and the short-circuit of an unsupported class.
Classify(r) ==
    /\ req[r].pc = "classify"
    /\ \E step \in {"insert", "out_of_scope"} : MoveTo(r, step)
    /\ UNCHANGED <<counters, rows, claim>>

\* One pass of the token loop.  The extractions row is flushed before the loop
\* and undone by the rollback of a pass that fails, so the INSERT of a later
\* pass refers to a row that is gone and fails as well.
Insert(r) ==
    /\ req[r].pc = "insert" /\ req[r].attempts < 3
    /\ \E t \in Token :
         LET taken == registry[t] # NoOne IN
         \/ /\ ~taken /\ req[r].attempts = 0
            /\ registry' = [registry EXCEPT ![t] = r]
            /\ status' = [status EXCEPT ![t] = "pending"]
            /\ age' = [age EXCEPT ![t] = "fresh"]
            /\ owner' = [owner EXCEPT ![r] = Service]
            /\ MoveTo(r, "accepted")
            /\ UNCHANGED claimed
         \/ /\ taken \/ req[r].attempts > 0
            /\ req' = [req EXCEPT ![r].attempts = @ + 1,
                                  ![r].collisions = IF taken THEN @ + 1 ELSE @]
            /\ UNCHANGED rows
    /\ UNCHANGED <<counters, claim>>

GiveUp(r) ==
    /\ req[r].pc = "insert" /\ req[r].attempts = 3
    /\ MoveTo(r, "claim_token_collision")
    /\ UNCHANGED <<counters, rows, claim>>

-----------------------------------------------------------------------------
(* The claim: claim_anonymous_extraction. *)

\* The reads and checks.  The three refusals (404, 409, 410) change nothing.
FindClaim(c) ==
    LET t == claim[c].token IN
    /\ claim[c].pc = "idle"
    /\ claim' = [claim EXCEPT ![c].pc =
                   IF registry[t] # NoOne /\ t \notin claimed /\ age[t] = "fresh"
                   THEN "found" ELSE "refused"]
    /\ UNCHANGED <<counters, rows, req>>

\* The commit of the rebinding: two UPDATEs by primary key.
Rebind(c) ==
    LET t == claim[c].token IN
    /\ claim[c].pc = "found"
    /\ owner' = [owner EXCEPT ![registry[t]] = c]
    /\ claimed' = claimed \cup {t}
    /\ status' = [status EXCEPT ![t] = "claimed"]
    /\ claim' = [claim EXCEPT ![c].pc = "ok"]
    /\ UNCHANGED <<counters, req, registry, age>>

-----------------------------------------------------------------------------
(* Time and the reaper. *)

\* The claim window closes; 30 days later the row is ancient.  A claim that
\* found the row takes less than 30 days.
AgeRow(t) ==
    /\ registry[t] # NoOne
    /\ \/ age[t] = "fresh" /\ age' = [age EXCEPT ![t] = "expired"]
       \/ /\ age[t] = "expired"
          /\ \A c \in Claim : ~(claim[c].pc = "found" /\ claim[c].token = t)
          /\ age' = [age EXCEPT ![t] = "ancient"]
    /\ UNCHANGED <<counters, req, owner, registry, status, claimed, claim>>

\* Mutant: the flip forgets that only pending rows expire.
ReapAnyStatus ==
    /\ status' = [t \in Token |->
                    IF registry[t] # NoOne /\ age[t] # "fresh" THEN "expired" ELSE status[t]]
    /\ registry' = [t \in Token |-> IF age[t] = "ancient" THEN NoOne ELSE registry[t]]
    /\ claimed' = {t \in claimed : age[t] # "ancient"}
    /\ UNCHANGED <<counters, req, owner, age, claim>>

\* reap: the flip and the hard delete, in one commit.
Reap ==
    /\ status' = [t \in Token |->
                    IF registry[t] # NoOne /\ age[t] # "fresh" /\ status[t] = "pending"
                    THEN "expired" ELSE status[t]]
    /\ registry' = [t \in Token |-> IF age[t] = "ancient" THEN NoOne ELSE registry[t]]
    /\ claimed' = {t \in claimed : age[t] # "ancient"}
    /\ UNCHANGED <<counters, req, owner, age, claim>>

FunnelNext ==
    \/ \E r \in Request :
         \/ Arrive(r) \/ ReadCounter(r) \/ InsertCounter(r) \/ Limit(r)
         \/ Increment(r) \/ Classify(r) \/ Insert(r) \/ GiveUp(r)
    \/ \E c \in Claim : FindClaim(c) \/ Rebind(c)
    \/ \E t \in Token : AgeRow(t)
    \/ Midnight
    \/ Reap

FunnelSpec == FunnelInit /\ [][FunnelNext]_funnelVars

-----------------------------------------------------------------------------
(* Properties. *)

\* The requests of day d that passed the cap.
Allowed(d) ==
    {r \in Request : /\ req[r].day = d
                     /\ req[r].pc \in {"classify", "insert", "out_of_scope",
                                       "accepted", "claim_token_collision"}}

\* Under the default cap an IP passes once a day, however its requests race and
\* whenever midnight falls: UNIQUE (ip_hash, day) serialises the insert.  A
\* larger cap is not kept, for the increment is not serialised by anything,
\* against the docstring of _check_and_increment_ip_counter.
CapRespected == cap = 1 => \A d \in Day : Cardinality(Allowed(d)) <= 1

\* A live row and the extraction it stands for agree: claimed exactly when the
\* extraction left the service user, and then for an account whose claim was
\* answered with success.
ClaimedIsRebound ==
    \A t \in Token : registry[t] # NoOne =>
        /\ t \in claimed <=> owner[registry[t]] # Service
        /\ t \in claimed <=> status[t] = "claimed"
        /\ t \in claimed =>
             \E c \in Claim : /\ claim[c] = [pc |-> "ok", token |-> t]
                              /\ owner[registry[t]] = c

=============================================================================
