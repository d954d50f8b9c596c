--------------------------- MODULE Authentication ---------------------------
(***************************************************************************)
(* API keys from their creation to their end (app/routes/api_keys.py) and  *)
(* the middleware that admits requests with them (app/auth.py).  A call is *)
(* one HTTP request: the middleware looks its key up, asks the limiter and *)
(* hands over to the route, which may create, rotate or revoke a key.     *)
(* Routes run in threads, each with a session of its own, so the read of a *)
(* key and the commit of the change are two steps that interleave.  The    *)
(* middleware itself runs on the one event loop of the process.            *)
(***************************************************************************)
EXTENDS RateLimiter, FiniteSets

CONSTANTS
    Key,            \* keys, minted and to be minted
    User,           \* their owners
    Call,           \* requests
    Action,         \* what a request may present and ask: [key, op, target]
    Issued,         \* keys that exist from the start
    OwnerOf,        \* [Issued -> User]
    Internal,       \* keys of kind internal_bff: no route addresses them
    Peppered,       \* issued keys whose hash one of the two peppers yields
    Inactive,       \* users whose status is not active
    Grace,          \* ROTATION_GRACE_HOURS
    LastHour        \* bound on the clock

Op == {"use", "create", "rotate", "revoke"}

ASSUME AuthAssumption ==
    /\ Issued \subseteq Key /\ Internal \subseteq Issued /\ Peppered \subseteq Issued
    /\ OwnerOf \in [Issued -> User] /\ Inactive \subseteq User
    /\ User # {} /\ Key # {}
    /\ Action \subseteq [key : Key, op : Op, target : Key]
    /\ Grace \in Nat \ {0} /\ LastHour \in Nat

VARIABLES
    key,            \* [Key -> the row of api_keys]
    call,           \* [Call -> the state of the request]
    minute,         \* [Key -> minute bucket]
    day,            \* [User -> day bucket]
    now,            \* the clock
    rotated,        \* [Key -> hour of the last rotation that committed]
    revoked         \* keys revoked since they were last rotated

vars == <<key, call, minute, day, now, rotated, revoked>>
history == <<rotated, revoked>>

KeyStatus == {"none", "active", "rotated_out", "expired", "revoked"}
Row == [status : KeyStatus, owner : User, grace : Nat]
Refused == {"revoked", "suspended", "expired"}
Stage == {"idle", "expiring", "handling", "found",
          "invalid", "refused", "rate_limit_minute", "rate_limit_day",
          "done", "failed", "lost"}
Running == {"expiring", "handling", "found"}

TypeOK ==
    /\ key \in [Key -> Row]
    /\ call \in [Call -> [pc : Stage, key : Key, op : Op, target : Key,
                          row : Row, at : Nat,
                          overtaken : BOOLEAN]]
    /\ minute \in [Key -> Bucket] /\ day \in [User -> Bucket]
    /\ now \in Nat
    /\ rotated \in [Key -> Nat]
    /\ revoked \subseteq Key

SomeUser == CHOOSE u \in User : TRUE
SomeKey == CHOOSE k \in Key : TRUE
NoRow == [status |-> "none", owner |-> SomeUser, grace |-> 0]

\* A request that is not running: where it ended, its key, and when the
\* limiter of this process was asked.
Ended(stage, k, hour) ==
    [pc |-> stage, key |-> k, op |-> "use", target |-> SomeKey, row |-> NoRow,
     at |-> hour, overtaken |-> FALSE]

Init ==
    /\ now = 1
    /\ key = [k \in Key |-> IF k \in Issued
                            THEN [NoRow EXCEPT !.status = "active", !.owner = OwnerOf[k]]
                            ELSE NoRow]
    /\ call = [c \in Call |-> Ended("idle", SomeKey, 0)]
    /\ minute = [k \in Key |-> FullBucket(MinuteCapacity, MinuteWindow, 1)]
    /\ day = [u \in User |-> FullBucket(DayCapacity, DayWindow, 1)]
    /\ rotated = [k \in Key |-> 0]
    /\ revoked = {}

End(c, stage) == call' = [call EXCEPT ![c] = Ended(stage, @.key, @.at)]

-----------------------------------------------------------------------------
(* AuthMiddleware.dispatch *)

\* _candidate_hashes: one of the two hashes finds the row.
Known(k) == key[k].status # "none" /\ (k \in Issued => k \in Peppered)

\* grace_expires_at is NULL or has passed.
Lapsed(k) == key[k].grace = 0 \/ key[k].grace < now

\* Mutant: the status is compared with "expired" only.
VerdictForgetsRevoked(k) ==
    IF ~Known(k) \/ key[k].owner \in Inactive THEN "invalid"
    ELSE IF key[k].status = "expired" THEN "refused"
    ELSE IF key[k].status = "rotated_out" /\ Lapsed(k) THEN "expiring"
    ELSE "limiting"

\* What the look-up of a key leads to.
Verdict(k) ==
    IF ~Known(k) \/ key[k].owner \in Inactive THEN "invalid"
    ELSE IF key[k].status \in Refused THEN "refused"
    ELSE IF key[k].status = "rotated_out" /\ Lapsed(k) THEN "expiring"
    ELSE "limiting"

\* The SELECT of the key and its owner, the checks on them and the limiter,
\* which shares no state with the routes.
Dispatch(c) ==
    /\ call[c].pc = "idle"
    /\ \E a \in Action :
         LET verdict == Verdict(a.key)
             u == key[a.key].owner
             limit == Check(minute[a.key], day[u], now)
         IN
         IF verdict # "limiting"
         THEN /\ call' = [call EXCEPT ![c] = Ended(verdict, a.key, 0)]
              /\ UNCHANGED <<minute, day>>
         ELSE /\ minute' = [minute EXCEPT ![a.key] = limit.minute]
              /\ day' = [day EXCEPT ![u] = limit.day]
              /\ call' = [call EXCEPT ![c] =
                   IF limit.error # "none" THEN Ended(limit.error, a.key, now)
                   ELSE [@ EXCEPT !.pc = "handling", !.key = a.key, !.op = a.op,
                                  !.target = a.target, !.at = now]]
    /\ UNCHANGED <<key, now, history>>

\* status = "expired", whatever another session has committed in the meantime.
Expire(c) ==
    /\ call[c].pc = "expiring"
    /\ key' = [key EXCEPT ![call[c].key].status = "expired"]
    /\ End(c, "refused")
    /\ UNCHANGED <<minute, day, now, history>>

-----------------------------------------------------------------------------
(* The routes. *)

\* A route that does not touch api_keys.
Serve(c) ==
    /\ call[c].pc = "handling" /\ call[c].op = "use"
    /\ End(c, "done")
    /\ UNCHANGED <<key, minute, day, now, history>>

\* create_api_key: a key of the caller.
CreateKey(c) ==
    /\ call[c].pc = "handling" /\ call[c].op = "create"
    /\ \E n \in Key \ Issued :
         /\ key[n].status = "none"
         /\ key' = [key EXCEPT ![n] = [NoRow EXCEPT !.status = "active",
                                                    !.owner = key[call[c].key].owner]]
    /\ End(c, "done")
    /\ UNCHANGED <<minute, day, now, history>>

\* _owned_user_key: the caller's own visible key, else 404.
FindTarget(c) ==
    LET t == call[c].target IN
    /\ call[c].pc = "handling" /\ call[c].op \in {"rotate", "revoke"}
    /\ IF /\ key[t].status # "none" /\ t \notin Internal
          /\ key[t].owner = key[call[c].key].owner
       THEN call' = [call EXCEPT ![c].pc = "found", ![c].row = key[t], ![c].overtaken = FALSE]
       ELSE End(c, "done")
    /\ UNCHANGED <<key, minute, day, now, history>>

\* The session writes a column only if the route changed it from what it read.
Written(seen, value, current) == IF seen = value THEN current ELSE value

\* The rotation of t ends the claim of every revocation it overtakes.
Overtake(c, t) ==
    call' = [d \in Call |->
               IF d = c THEN Ended("done", call[c].key, call[c].at)
               ELSE IF call[d].pc = "found" /\ call[d].target = t
                    THEN [call[d] EXCEPT !.overtaken = TRUE] ELSE call[d]]

\* rotate_api_key: whatever its status, the key is rotated out with a new grace
\* period, and an heir is minted.
Rotate(c) ==
    LET t == call[c].target
        seen == call[c].row
    IN
    /\ call[c].pc = "found" /\ call[c].op = "rotate"
    /\ \E n \in Key \ Issued :
         /\ key[n].status = "none" /\ n # t
         /\ key' = [key EXCEPT
                      ![t].status = Written(seen.status, "rotated_out", @),
                      ![t].grace = Written(seen.grace, now + Grace, @),
                      ![n] = [status |-> "active", owner |-> key[t].owner, grace |-> 0]]
    /\ rotated' = [rotated EXCEPT ![t] = now]
    /\ revoked' = revoked \ {t}
    /\ Overtake(c, t)
    /\ UNCHANGED <<minute, day, now>>

\* revoke_api_key
Revoke(c) ==
    LET t == call[c].target IN
    /\ call[c].pc = "found" /\ call[c].op = "revoke"
    /\ key' = [key EXCEPT ![t].status = Written(call[c].row.status, "revoked", @)]
    /\ revoked' = IF call[c].overtaken /\ call[c].row.status = "revoked"
                  THEN revoked ELSE revoked \cup {t}
    /\ End(c, "done")
    /\ UNCHANGED <<minute, day, now, rotated>>

\* A route raises: its session is rolled back and no use is recorded.
Raise(c) ==
    /\ call[c].pc \in {"handling", "found"}
    /\ End(c, "failed")
    /\ UNCHANGED <<key, minute, day, now, history>>

-----------------------------------------------------------------------------
(* Time and the process. *)

Tick ==
    /\ now < LastHour
    /\ now' = now + 1
    /\ UNCHANGED <<key, call, minute, day, history>>

\* The process restarts: its buckets are full again, its calls are gone.
Restart ==
    /\ minute' = [k \in Key |-> FullBucket(MinuteCapacity, MinuteWindow, now)]
    /\ day' = [u \in User |-> FullBucket(DayCapacity, DayWindow, now)]
    /\ call' = [c \in Call |->
                  Ended(IF call[c].pc \in Running THEN "lost" ELSE call[c].pc, call[c].key, 0)]
    /\ UNCHANGED <<key, now, history>>

Next ==
    \/ \E c \in Call :
         \/ Dispatch(c) \/ Expire(c)
         \/ Serve(c) \/ CreateKey(c) \/ FindTarget(c)
         \/ Rotate(c) \/ Revoke(c) \/ Raise(c)
    \/ Tick
    \/ Restart

Spec == Init /\ [][Next]_vars

-----------------------------------------------------------------------------
(* Properties. *)

\* "Revoke ... Effective immediately" and "Old key works during 48h grace": a
\* request passes the look-up only with a key that has not been revoked since
\* its last rotation and, if it has been rotated, within the grace period of
\* that rotation, whatever rotations, revocations and expiries overlap.
OnlyLiveKeysPass ==
    [][\A c \in Call :
         call[c].pc = "idle" /\ call'[c].pc = "handling" =>
           LET k == call'[c].key IN
           /\ k \notin revoked
           /\ rotated[k] # 0 => now <= rotated[k] + Grace]_vars

\* Calls that this process let through between two hours, and those whose
\* minute token it took.
Admitted(from, to) ==
    {c \in Call : /\ call[c].pc \in {"handling", "found", "done", "failed"}
                  /\ call[c].at # 0 /\ call[c].at \in from .. to}
Charged(from, to) ==
    Admitted(from, to) \cup {c \in Call : /\ call[c].pc = "rate_limit_day"
                                          /\ call[c].at # 0 /\ call[c].at \in from .. to}

\* The rate limits: in any stretch of time one process admits no more requests
\* of a key, and of a user, than the bucket holds and the stretch refills.
RateBounded ==
    \A from, to \in 1 .. now : from <= to =>
      /\ \A k \in Key :
           Cardinality({c \in Admitted(from, to) : call[c].key = k}) * MinuteWindow
             <= (MinuteWindow + to - from) * MinuteCapacity
      /\ \A u \in User :
           Cardinality({c \in Admitted(from, to) : key[call[c].key].owner = u}) * DayWindow
             <= (DayWindow + to - from) * DayCapacity

\* A key is refused by its minute bucket only when it has spent all that the
\* bucket held at some moment and all that came in since; requests the day
\* bucket refused have paid, refused ones at the minute bucket have not.
RefusedOnlyAtRate ==
    \A c \in Call : call[c].pc = "rate_limit_minute" /\ call[c].at # 0 =>
      \E from \in 1 .. call[c].at :
        Cardinality({d \in Charged(from, call[c].at) : call[d].key = call[c].key})
            * MinuteWindow
          > (MinuteCapacity - 1) * MinuteWindow + (call[c].at - from) * MinuteCapacity

\* Retry-After: a client that waits as long as a refusal says, alone with its
\* bucket, finds a token in it.
Suffices(b, c, w) ==
    LET a == Allow(b, c, w, now) IN
    ~a.ok => Allow(a.bucket, c, w, now + SecondsUntilToken(a.bucket, c, w)).ok
RetryAfterSuffices ==
    /\ \A k \in Key : Suffices(minute[k], MinuteCapacity, MinuteWindow)
    /\ \A u \in User : Suffices(day[u], DayCapacity, DayWindow)
=============================================================================
