----------------------------- MODULE RateLimiter -----------------------------
(***************************************************************************)
(* The token buckets of app/rate_limit.py in exact arithmetic.  A bucket   *)
(* of capacity c refilled over w seconds holds tokens in units of 1/w, so  *)
(* that a full bucket is c * w, a second adds c and a request costs w.     *)
(***************************************************************************)
EXTENDS Integers

CONSTANTS
    MinuteCapacity, MinuteWindow,   \* RATE_LIMIT_PER_MIN and its window
    DayCapacity, DayWindow          \* RATE_LIMIT_PER_DAY and its window

ASSUME LimitAssumption ==
    /\ MinuteCapacity \in Nat \ {0} /\ MinuteWindow \in Nat \ {0}
    /\ DayCapacity \in Nat \ {0} /\ DayWindow \in Nat \ {0}

Bucket == [tokens : Nat, at : Nat]

\* A bucket of setdefault: full, dated now.
FullBucket(c, w, now) == [tokens |-> c * w, at |-> now]

Least(a, b) == IF a <= b THEN a ELSE b

\* Mutant: the bucket is not capped at its capacity.
RefillForEver(b, c, w, now) ==
    [tokens |-> b.tokens + (now - b.at) * c, at |-> now]

\* What allow() makes of the tokens before it compares them with the cost.
Refill(b, c, w, now) ==
    [tokens |-> Least(c * w, b.tokens + (now - b.at) * c), at |-> now]

\* Mutant: a refused request pays as well.
AllowGreedily(b, c, w, now) ==
    LET r == Refill(b, c, w, now) IN
    [ok |-> r.tokens >= w, bucket |-> [r EXCEPT !.tokens = IF @ < w THEN 0 ELSE @ - w]]

\* allow(): the verdict and the bucket it leaves.
Allow(b, c, w, now) ==
    LET r == Refill(b, c, w, now) IN
    IF r.tokens < w THEN [ok |-> FALSE, bucket |-> r]
                    ELSE [ok |-> TRUE, bucket |-> [r EXCEPT !.tokens = @ - w]]

\* Mutant: int() without the ceiling.
FlooredSecondsUntilToken(b, c, w) ==
    IF b.tokens >= w \/ (w - b.tokens) \div c < 1 THEN 1 ELSE (w - b.tokens) \div c

\* seconds_until_token(), for Retry-After: the deficit over the rate, rounded
\* up, and at least 1.
SecondsUntilToken(b, c, w) ==
    IF b.tokens >= w THEN 1 ELSE (w - b.tokens + c - 1) \div c

\* check(): the minute bucket of the key first, then the day bucket of the
\* user; the minute token is spent even when the day bucket refuses.
Check(minute, day, now) ==
    LET m == Allow(minute, MinuteCapacity, MinuteWindow, now)
        d == Allow(day, DayCapacity, DayWindow, now)
    IN  IF ~m.ok
        THEN [error |-> "rate_limit_minute", minute |-> m.bucket, day |-> day,
              retry |-> SecondsUntilToken(m.bucket, MinuteCapacity, MinuteWindow)]
        ELSE IF ~d.ok
        THEN [error |-> "rate_limit_day", minute |-> m.bucket, day |-> d.bucket,
              retry |-> SecondsUntilToken(d.bucket, DayCapacity, DayWindow)]
        ELSE [error |-> "none", minute |-> m.bucket, day |-> d.bucket, retry |-> 0]
=============================================================================
