----------------------------- MODULE WebSession -----------------------------
(***************************************************************************)
(* Passwordless login of one email address (app/routes/internal_auth.py):  *)
(* magic links are requested, redeemed and expire, a redemption creates    *)
(* the account if need be and replaces the account's BFF session key, and  *)
(* logout revokes a key.  A key is named after the redemption that minted  *)
(* it.  A redemption is one transaction; the steps are its reads and       *)
(* writes as Postgres (READ COMMITTED, SELECT .. FOR UPDATE) or SQLite     *)
(* (FOR UPDATE ignored, one writer) interleave them.                       *)
(***************************************************************************)
EXTENDS Integers, FiniteSets

CONSTANTS
    Link,           \* magic links of the address, one per request
    Redeem,         \* redemption requests
    Engines,        \* database engines considered
    NoKey           \* no session row

ASSUME SessionAssumption ==
    /\ Engines \subseteq {"postgres", "sqlite"}
    /\ NoKey \notin Redeem

VARIABLES
    engine,         \* the engine behind DATABASE_URL
    link,           \* [Link -> where its request and its token stand]
    consumed,       \* links with a consumed_at
    redeem,         \* [Redeem -> the state of its handler]
    account,        \* does the users row exist?
    granted,        \* onboarding grants in the ledger
    active,         \* keys with status active
    sessions,       \* keys that web_session_keys rows point at
    leaving         \* keys whose logout has resolved them

vars == <<engine, link, consumed, redeem, account, granted, active, sessions, leaving>>

LinkState == {"unasked", "clear", "throttled", "recent", "valid", "expired"}
Step == {"idle", "found", "consumed", "new_account", "ready", "minting",
         "ok", "refused", "error", "lost"}

TypeOK ==
    /\ engine \in Engines
    /\ link \in [Link -> LinkState]
    /\ consumed \subseteq Link
    /\ redeem \in [Redeem -> [pc : Step, link : Link, old : Redeem \cup {NoKey},
                              creates : BOOLEAN]]
    /\ account \in BOOLEAN
    /\ granted \in Nat
    /\ active \subseteq Redeem
    /\ sessions \subseteq Redeem
    /\ leaving \subseteq Redeem

Init ==
    /\ engine \in Engines
    /\ link = [l \in Link |-> "unasked"]
    /\ consumed = {}
    /\ redeem \in [Redeem -> [pc : {"idle"}, link : Link, old : {NoKey}, creates : {FALSE}]]
    /\ account = FALSE
    /\ granted = 0
    /\ active = {}
    /\ sessions = {}
    /\ leaving = {}

-----------------------------------------------------------------------------
(* request_magic_link *)

\* What a request does not touch, and what a redemption does not before its commit.
login == <<engine, redeem, account, granted, active, sessions, leaving>>
committed == <<engine, link, consumed, account, granted, active, sessions, leaving>>

\* The cooldown: the youngest unconsumed link is less than 60 seconds old.
CheckCooldown(l) ==
    /\ link[l] = "unasked"
    /\ link' = [link EXCEPT ![l] =
                  IF \E k \in Link \ consumed : link[k] = "recent" THEN "throttled" ELSE "clear"]
    /\ UNCHANGED <<consumed, login>>

\* The insert of the token row.
MintLink(l) ==
    /\ link[l] = "clear"
    /\ link' = [link EXCEPT ![l] = "recent"]
    /\ UNCHANGED <<consumed, login>>

\* The cooldown ends, later the link does.
GrowOld(l) ==
    /\ \/ link[l] = "recent" /\ link' = [link EXCEPT ![l] = "valid"]
       \/ link[l] = "valid" /\ link' = [link EXCEPT ![l] = "expired"]
    /\ UNCHANGED <<consumed, login>>

-----------------------------------------------------------------------------
(* redeem_magic_link *)

Goto(a, step) == redeem' = [redeem EXCEPT ![a].pc = step]

\* Redemptions with uncommitted writes.
Writing == {a \in Redeem : redeem[a].pc \in {"consumed", "new_account", "ready", "minting"}}
Running == Writing \cup {a \in Redeem : redeem[a].pc = "found"}

\* The SELECT of the token row and the checks on it; on Postgres it locks the
\* row, and waits for the redemption that holds it.
FindLink(a) ==
    LET l == redeem[a].link IN
    /\ redeem[a].pc = "idle"
    /\ engine = "postgres" => \A b \in Running : redeem[b].link # l
    /\ Goto(a, IF link[l] \in {"recent", "valid"} /\ l \notin consumed
               THEN "found" ELSE "refused")
    /\ UNCHANGED committed

\* SQLite has one writer; Postgres does not wait here.
MayWrite == engine = "postgres" \/ Writing = {}

\* Mutant: the row count of the conditional UPDATE is ignored.
ConsumeLinkBlindly(a) ==
    /\ redeem[a].pc = "found"
    /\ MayWrite
    /\ Goto(a, "consumed")
    /\ UNCHANGED committed

\* UPDATE .. WHERE consumed_at IS NULL and its row count.
ConsumeLink(a) ==
    /\ redeem[a].pc = "found"
    /\ MayWrite
    /\ Goto(a, IF redeem[a].link \in consumed THEN "refused" ELSE "consumed")
    /\ UNCHANGED committed

\* SELECT of the users row.
ReadAccount(a) ==
    /\ redeem[a].pc = "consumed"
    /\ Goto(a, IF account THEN "ready" ELSE "new_account")
    /\ UNCHANGED committed

\* Mutant: users.email is not unique.
InsertAccountTwice(a) ==
    /\ redeem[a].pc = "new_account"
    /\ redeem' = [redeem EXCEPT ![a].pc = "ready", ![a].creates = TRUE]
    /\ UNCHANGED committed

\* INSERT of the users row: UNIQUE (email) waits for a racing insert and fails
\* once that one has committed, which rolls the redemption back.
InsertAccount(a) ==
    /\ redeem[a].pc = "new_account"
    /\ \A b \in Writing : ~redeem[b].creates
    /\ redeem' = [redeem EXCEPT ![a].pc = IF account THEN "error" ELSE "ready",
                                ![a].creates = ~account]
    /\ UNCHANGED committed

\* scalar_one_or_none over the account's session rows: more than one raises.
ReadSession(a) ==
    /\ redeem[a].pc = "ready"
    /\ \/ /\ sessions = {}
          /\ redeem' = [redeem EXCEPT ![a].pc = "minting", ![a].old = NoKey]
       \/ \E k \in sessions :
            /\ sessions = {k}
            /\ redeem' = [redeem EXCEPT ![a].pc = "minting", ![a].old = k]
       \/ /\ \E j, k \in sessions : j # k
          /\ Goto(a, "error")
    /\ UNCHANGED committed

\* Mutant: the session row is replaced and the old key stays active.
MintLeavesOldKey(a) ==
    /\ redeem[a].pc = "minting"
    /\ consumed' = consumed \cup {redeem[a].link}
    /\ account' = TRUE
    /\ granted' = IF redeem[a].creates THEN granted + 1 ELSE granted
    /\ active' = active \cup {a}
    /\ sessions' = (sessions \ {redeem[a].old}) \cup {a}
    /\ Goto(a, "ok")
    /\ UNCHANGED <<engine, link, leaving>>

\* The revocation of the old key, the new key and its row: the commit.
Mint(a) ==
    /\ redeem[a].pc = "minting"
    /\ consumed' = consumed \cup {redeem[a].link}
    /\ account' = TRUE
    /\ granted' = IF redeem[a].creates THEN granted + 1 ELSE granted
    /\ active' = (active \ {redeem[a].old}) \cup {a}
    /\ sessions' = (sessions \ {redeem[a].old}) \cup {a}
    /\ Goto(a, "ok")
    /\ UNCHANGED <<engine, link, leaving>>

\* The process dies; the transaction is rolled back and its locks are freed.
Crash(a) ==
    /\ a \in Running
    /\ Goto(a, "lost")
    /\ UNCHANGED committed

-----------------------------------------------------------------------------
(* logout *)

\* _resolve_bff_key: only an active key gets this far.
ResolveKey(k) ==
    /\ k \in active /\ k \notin leaving
    /\ leaving' = leaving \cup {k}
    /\ UNCHANGED <<engine, link, consumed, redeem, account, granted, active, sessions>>

\* The revocation and the deletion of the key's session row.
Logout(k) ==
    /\ k \in leaving
    /\ MayWrite
    /\ active' = active \ {k}
    /\ sessions' = sessions \ {k}
    /\ leaving' = leaving \ {k}
    /\ UNCHANGED <<engine, link, consumed, redeem, account, granted>>

Next ==
    \/ \E l \in Link : CheckCooldown(l) \/ MintLink(l) \/ GrowOld(l)
    \/ \E a \in Redeem :
         \/ FindLink(a) \/ ConsumeLink(a) \/ ReadAccount(a) \/ InsertAccount(a)
         \/ ReadSession(a) \/ Mint(a) \/ Crash(a)
    \/ \E k \in Redeem : ResolveKey(k) \/ Logout(k)

Spec == Init /\ [][Next]_vars

-----------------------------------------------------------------------------
(* Properties. *)

\* "Single-use is enforced" (MagicLinkToken): two redemptions of one link never
\* both return a key, with row locks or without.
LinkMintsOnce ==
    \A a, b \in Redeem :
        redeem[a].pc = "ok" /\ redeem[b].pc = "ok" /\ redeem[a].link = redeem[b].link
        => a = b

\* Every active BFF key has its session row and every row an active key, so
\* that the next login or a logout can revoke whatever still grants access.
RowsTrackKeys == sessions = active

\* An address is granted its onboarding credit once, whatever first logins race.
GrantedOnce == granted <= 1 /\ (granted = 1 <=> account)

\* WebSessionKey: "Exactly one active BFF key per user".
OneActiveKey == \A j, k \in active : j = k

\* With one writer a login replaces the key of the login before, whatever
\* redemptions and logouts interleave with it.
OneActiveKeyOnSQLite == engine = "sqlite" => OneActiveKey
=============================================================================
