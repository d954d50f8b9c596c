------------------------ MODULE AuthenticationProofs ------------------------
(***************************************************************************)
(* Proofs about Authentication, for any number of keys, users and          *)
(* requests, any capacities and windows: the types, that the look-up       *)
(* passes live keys only, and the rate limits: what is admitted, what is   *)
(* refused and how long a refused client waits.                            *)
(***************************************************************************)
EXTENDS Authentication, FiniteSetTheorems, TLAPS

-----------------------------------------------------------------------------
(* The limiter. *)

\* What check() returns: buckets again, and a verdict.
LEMMA CheckType ==
    ASSUME NEW m \in Bucket, NEW d \in Bucket, NEW t \in Nat, m.at <= t, d.at <= t
    PROVE  /\ Check(m, d, t).minute \in Bucket /\ Check(m, d, t).minute.at = t
           /\ Check(m, d, t).day \in Bucket /\ Check(m, d, t).day.at <= t
           /\ Check(m, d, t).error \in {"none", "rate_limit_minute", "rate_limit_day"}
<1>1. ASSUME NEW b \in Bucket, b.at <= t, NEW c \in Nat \ {0}, NEW w \in Nat \ {0}
      PROVE  Allow(b, c, w, t).bucket \in Bucket /\ Allow(b, c, w, t).bucket.at = t
  <2> DEFINE r == Refill(b, c, w, t)
  <2>1. c * w \in Nat /\ (t - b.at) * c \in Nat
    BY <1>1 DEF Bucket
  <2>2. r \in Bucket /\ r.at = t
    BY <1>1, <2>1 DEF Refill, Least, Bucket
  <2>3. CASE r.tokens < w
    BY <2>2, <2>3 DEF Allow
  <2>4. CASE ~(r.tokens < w)
    <3>1. r.tokens - w \in Nat
      BY <2>2, <2>4, <1>1 DEF Bucket
    <3>2. Allow(b, c, w, t).bucket = [r EXCEPT !.tokens = r.tokens - w]
      BY <2>4 DEF Allow
    <3>3. r = [tokens |-> r.tokens, at |-> r.at]
      BY DEF Refill
    <3>. QED
      BY <2>2, <3>1, <3>2, <3>3 DEF Bucket
  <2>. QED
    BY <2>3, <2>4
<1>2. /\ Allow(m, MinuteCapacity, MinuteWindow, t).bucket \in Bucket
      /\ Allow(m, MinuteCapacity, MinuteWindow, t).bucket.at = t
  BY <1>1, LimitAssumption
<1>3. /\ Allow(d, DayCapacity, DayWindow, t).bucket \in Bucket
      /\ Allow(d, DayCapacity, DayWindow, t).bucket.at = t
  BY <1>1, LimitAssumption
<1>. QED
  BY <1>2, <1>3 DEF Check, Bucket

-----------------------------------------------------------------------------
(* Types. *)

\* Buckets are never dated in the future.
Dated ==
    /\ \A k \in Key : minute[k].at <= now
    /\ \A u \in User : day[u].at <= now

CallType == [pc : Stage, key : Key, op : Op, target : Key, row : Row, at : Nat,
             overtaken : BOOLEAN]

LEMMA Chosen == SomeUser \in User /\ SomeKey \in Key /\ NoRow \in Row
  BY AuthAssumption DEF SomeUser, SomeKey, NoRow, Row, KeyStatus

LEMMA EndedType ==
    ASSUME NEW s \in Stage, NEW k \in Key, NEW t \in Nat
    PROVE  Ended(s, k, t) \in CallType
  BY Chosen DEF Ended, CallType, Op

LEMMA EndedParts ==
    ASSUME NEW s, NEW k, NEW t
    PROVE  Ended(s, k, t).pc = s /\ Ended(s, k, t).key = k
  BY DEF Ended

LEMMA FullBucketType ==
    ASSUME NEW c \in Nat \ {0}, NEW w \in Nat \ {0}, NEW t \in Nat
    PROVE  FullBucket(c, w, t) \in Bucket /\ FullBucket(c, w, t).at = t
<1>1. c * w \in Nat
  OBVIOUS
<1>. QED
  BY <1>1 DEF FullBucket, Bucket

LEMMA TypeInit == Init => TypeOK /\ Dated
<1> SUFFICES ASSUME Init PROVE TypeOK /\ Dated
  OBVIOUS
<1>1. key \in [Key -> Row]
  <2>1. ASSUME NEW k \in Key, k \in Issued
        PROVE  [NoRow EXCEPT !.status = "active", !.owner = OwnerOf[k]] \in Row
    <3>1. OwnerOf[k] \in User
      BY <2>1, AuthAssumption
    <3>. QED
      BY <3>1, Chosen DEF Row, NoRow, KeyStatus
  <2>. QED
    BY <2>1, Chosen DEF Init
<1>2. call \in [Call -> CallType]
  <2>1. Ended("idle", SomeKey, 0) \in CallType
    BY EndedType, Chosen DEF Stage
  <2>. QED
    BY <2>1 DEF Init
<1>3. /\ minute \in [Key -> Bucket] /\ \A k \in Key : minute[k].at <= now
      /\ day \in [User -> Bucket] /\ \A u \in User : day[u].at <= now
  <2>1. /\ FullBucket(MinuteCapacity, MinuteWindow, 1) \in Bucket
        /\ FullBucket(MinuteCapacity, MinuteWindow, 1).at = 1
        /\ FullBucket(DayCapacity, DayWindow, 1) \in Bucket
        /\ FullBucket(DayCapacity, DayWindow, 1).at = 1
    BY FullBucketType, LimitAssumption
  <2>2. /\ now = 1
        /\ minute = [k \in Key |-> FullBucket(MinuteCapacity, MinuteWindow, 1)]
        /\ day = [u \in User |-> FullBucket(DayCapacity, DayWindow, 1)]
    BY DEF Init
  <2>. QED
    BY <2>1, <2>2
<1>. QED
  BY <1>1, <1>2, <1>3 DEF Init, TypeOK, CallType, Dated

LEMMA TypeStep == TypeOK /\ Dated /\ [Next]_vars => TypeOK' /\ Dated'
<1> SUFFICES ASSUME TypeOK, Dated, [Next]_vars PROVE TypeOK' /\ Dated'
  OBVIOUS
<1> USE DEF history
<1>0. /\ key \in [Key -> Row] /\ call \in [Call -> CallType]
      /\ minute \in [Key -> Bucket] /\ day \in [User -> Bucket]
      /\ now \in Nat /\ rotated \in [Key -> Nat] /\ revoked \subseteq Key
  BY DEF TypeOK, CallType
<1>e. ASSUME NEW c \in Call, NEW s \in Stage, End(c, s) PROVE call' \in [Call -> CallType]
  <2>1. call[c].key \in Key /\ call[c].at \in Nat
    BY <1>0 DEF CallType
  <2>2. Ended(s, call[c].key, call[c].at) \in CallType
    BY <2>1, EndedType
  <2>. QED
    BY <1>e, <1>0, <2>2 DEF End
<1>1. ASSUME NEW c \in Call, Dispatch(c) PROVE TypeOK' /\ Dated'
  <2> PICK a \in Action :
         LET verdict == Verdict(a.key)
             u == key[a.key].owner
             limit == Check(minute[a.key], day[u], now)
         IN
         IF verdict # "limiting"
         THEN /\ call' = [call EXCEPT ![c] = Ended(verdict, a.key, 0)]
              /\ UNCHANGED <<minute, day>>
         ELSE /\ minute' = [minute EXCEPT ![a.key] = limit.minute]
              /\ day' = [day EXCEPT ![u] = limit.day]
              /\ call' = [call EXCEPT ![c] =
                   IF limit.error # "none" THEN Ended(limit.error, a.key, now)
                   ELSE [@ EXCEPT !.pc = "handling", !.key = a.key, !.op = a.op,
                                  !.target = a.target, !.at = now]]
    BY <1>1 DEF Dispatch
  <2> DEFINE u == key[a.key].owner
             limit == Check(minute[a.key], day[u], now)
             begun == [call[c] EXCEPT !.pc = "handling", !.key = a.key, !.op = a.op,
                                      !.target = a.target, !.at = now]
  <2>1. a.key \in Key /\ a.op \in Op /\ a.target \in Key /\ u \in User
    BY <1>0, AuthAssumption DEF Row
  <2>2. /\ limit.minute \in Bucket /\ limit.minute.at = now
        /\ limit.day \in Bucket /\ limit.day.at <= now
        /\ limit.error \in {"none", "rate_limit_minute", "rate_limit_day"}
    BY <2>1, <1>0, CheckType DEF Dated
  <2>3. UNCHANGED <<key, now, rotated, revoked>>
    BY <1>1 DEF Dispatch
  <2>4. CASE Verdict(a.key) # "limiting"
    <3>1. Verdict(a.key) \in Stage
      BY <2>4 DEF Verdict, Stage
    <3>2. Ended(Verdict(a.key), a.key, 0) \in CallType
      BY <3>1, <2>1, EndedType
    <3>3. call' = [call EXCEPT ![c] = Ended(Verdict(a.key), a.key, 0)] /\ UNCHANGED <<minute, day>>
      BY <2>4
    <3>4. call' \in [Call -> CallType]
      BY <3>2, <3>3, <1>0
    <3>. QED
      BY <3>3, <3>4, <2>3, <1>0 DEF TypeOK, CallType, Dated
  <2>5. CASE Verdict(a.key) = "limiting"
    <3>1. /\ minute' = [minute EXCEPT ![a.key] = limit.minute]
          /\ day' = [day EXCEPT ![u] = limit.day]
          /\ call' = [call EXCEPT ![c] = IF limit.error # "none"
                        THEN Ended(limit.error, a.key, now) ELSE begun]
      BY <2>5
    <3>2. limit.error # "none" => Ended(limit.error, a.key, now) \in CallType
      BY <2>1, <2>2, <1>0, EndedType DEF Stage
    <3>3. begun \in CallType
      <4>1. call[c] \in CallType
        BY <1>0
      <4>. QED
        BY <4>1, <2>1, <1>0 DEF CallType, Stage
    <3>4. call' \in [Call -> CallType]
      BY <3>1, <3>2, <3>3, <1>0
    <3>5. /\ minute' \in [Key -> Bucket] /\ \A k \in Key : minute'[k].at <= now'
          /\ day' \in [User -> Bucket] /\ \A v \in User : day'[v].at <= now'
      BY <3>1, <2>1, <2>2, <2>3, <1>0 DEF Dated
    <3>. QED
      BY <3>4, <3>5, <2>3, <1>0 DEF TypeOK, CallType, Dated
  <2>. QED
    BY <2>4, <2>5
<1>2. ASSUME NEW c \in Call, Expire(c) PROVE TypeOK' /\ Dated'
  <2>1. call' \in [Call -> CallType]
    BY <1>2, <1>e DEF Expire, Stage
  <2>2. key' \in [Key -> Row]
    BY <1>2, <1>0 DEF Expire, Row, KeyStatus, CallType
  <2>. QED
    BY <1>2, <2>1, <2>2, <1>0 DEF Expire, TypeOK, CallType, Dated
<1>3. ASSUME NEW c \in Call, Serve(c) \/ Raise(c) PROVE TypeOK' /\ Dated'
  <2>1. call' \in [Call -> CallType]
    BY <1>3, <1>e DEF Serve, Raise, Stage
  <2>. QED
    BY <1>3, <2>1, <1>0 DEF Serve, Raise, TypeOK, CallType, Dated
<1>4. ASSUME NEW c \in Call, CreateKey(c) PROVE TypeOK' /\ Dated'
  <2>1. call' \in [Call -> CallType]
    BY <1>4, <1>e DEF CreateKey, Stage
  <2>2. key[call[c].key].owner \in User
    BY <1>0 DEF CallType, Row
  <2>3. [NoRow EXCEPT !.status = "active", !.owner = key[call[c].key].owner] \in Row
    BY <2>2, Chosen DEF Row, NoRow, KeyStatus
  <2>4. key' \in [Key -> Row]
    BY <1>4, <2>3, <1>0 DEF CreateKey
  <2>. QED
    BY <1>4, <2>1, <2>4, <1>0 DEF CreateKey, TypeOK, CallType, Dated
<1>5. ASSUME NEW c \in Call, FindTarget(c) PROVE TypeOK' /\ Dated'
  <2>1. call[c] \in CallType /\ key[call[c].target] \in Row
    BY <1>0 DEF CallType
  <2>2. [call[c] EXCEPT !.pc = "found", !.row = key[call[c].target], !.overtaken = FALSE] \in CallType
    BY <2>1 DEF CallType, Stage
  <2>3. call' \in [Call -> CallType]
    <3>1. CASE End(c, "done")
      BY <3>1, <1>e DEF Stage
    <3>2. CASE call' = [call EXCEPT ![c].pc = "found", ![c].row = key[call[c].target],
                                    ![c].overtaken = FALSE]
      BY <3>2, <2>2, <1>0
    <3>. QED
      BY <1>5, <3>1, <3>2 DEF FindTarget
  <2>. QED
    BY <1>5, <2>3, <1>0 DEF FindTarget, TypeOK, CallType, Dated
<1>6. ASSUME NEW c \in Call, Rotate(c) PROVE TypeOK' /\ Dated'
  <2> DEFINE t == call[c].target
  <2>1. t \in Key /\ call[c].key \in Key /\ call[c].at \in Nat /\ call[c].row \in Row
    BY <1>0 DEF CallType
  <2>2. PICK n \in Key : key' = [key EXCEPT
                      ![t].status = Written(call[c].row.status, "rotated_out", @),
                      ![t].grace = Written(call[c].row.grace, now + Grace, @),
                      ![n] = [status |-> "active", owner |-> key[t].owner, grace |-> 0]]
    BY <1>6 DEF Rotate
  <2>3. key' \in [Key -> Row]
    <3>1. key[t] \in Row /\ now + Grace \in Nat
      BY <2>1, <1>0, AuthAssumption
    <3>. QED
      BY <2>2, <3>1, <2>1, <1>0 DEF Written, Row, KeyStatus
  <2>4. call' \in [Call -> CallType]
    <3>1. Ended("done", call[c].key, call[c].at) \in CallType
      BY <2>1, EndedType DEF Stage
    <3>2. \A d \in Call : [call[d] EXCEPT !.overtaken = TRUE] \in CallType
      BY <1>0 DEF CallType
    <3>. QED
      BY <1>6, <3>1, <3>2, <1>0 DEF Rotate, Overtake
  <2>. QED
    BY <1>6, <2>1, <2>3, <2>4, <1>0 DEF Rotate, TypeOK, CallType, Dated
<1>7. ASSUME NEW c \in Call, Revoke(c) PROVE TypeOK' /\ Dated'
  <2>1. call' \in [Call -> CallType]
    BY <1>7, <1>e DEF Revoke, Stage
  <2>2. call[c].target \in Key /\ key[call[c].target] \in Row
    BY <1>0 DEF CallType
  <2>3. key' \in [Key -> Row]
    BY <1>7, <2>2, <1>0 DEF Revoke, Written, Row, KeyStatus
  <2>. QED
    BY <1>7, <2>1, <2>2, <2>3, <1>0 DEF Revoke, TypeOK, CallType, Dated
<1>8. ASSUME Tick PROVE TypeOK' /\ Dated'
  BY <1>8, <1>0 DEF Tick, TypeOK, CallType, Dated, Bucket
<1>9. ASSUME Restart PROVE TypeOK' /\ Dated'
  <2>1. /\ minute' \in [Key -> Bucket] /\ \A k \in Key : minute'[k].at <= now'
        /\ day' \in [User -> Bucket] /\ \A u \in User : day'[u].at <= now'
    BY <1>9, <1>0, FullBucketType, LimitAssumption DEF Restart
  <2>2. ASSUME NEW c \in Call
        PROVE  Ended(IF call[c].pc \in Running THEN "lost" ELSE call[c].pc, call[c].key, 0)
                 \in CallType
    <3>1. call[c].key \in Key /\ call[c].pc \in Stage
      BY <1>0 DEF CallType
    <3>2. (IF call[c].pc \in Running THEN "lost" ELSE call[c].pc) \in Stage
      BY <3>1 DEF Stage
    <3>. QED
      BY <3>1, <3>2, EndedType
  <2>3. call' \in [Call -> CallType]
    BY <1>9, <2>2 DEF Restart
  <2>. QED
    BY <1>9, <2>1, <2>3, <1>0 DEF Restart, TypeOK, CallType, Dated
<1>10. CASE UNCHANGED vars
  BY <1>10, <1>0 DEF vars, TypeOK, CallType, Dated
<1>. QED
  BY <1>1, <1>2, <1>3, <1>4, <1>5, <1>6, <1>7, <1>8, <1>9, <1>10 DEF Next

\* The type invariant of keys, requests and buckets.
THEOREM AuthTypeCorrect == Spec => []TypeOK
  BY TypeInit, TypeStep, PTL DEF Spec

-----------------------------------------------------------------------------
(* Live keys. *)

\* A revocation is undone by a rotation and by nothing else: the key is revoked,
\* or was meant to be and has been written expired since.  That a revocation
\* which found the key revoked writes no status is why a call between its read
\* and its commit is part of the invariant.
Out == {"revoked", "expired"}
FoundOk(c) ==
    call[c].pc = "found" =>
      /\ key[call[c].target].status # "none"
      /\ call[c].row.status # "active" => key[call[c].target].status # "active"
      /\ call[c].row.status # "none"
      /\ call[c].row.status = "revoked" /\ ~call[c].overtaken
           => key[call[c].target].status \in Out
ExpiringOk(c) ==
    call[c].pc = "expiring" => key[call[c].key].status \notin {"none", "active"}
RevokedOut == \A k \in revoked : key[k].status \in Out
GraceOk ==
    \A k \in Key : /\ rotated[k] <= now
                   /\ key[k].grace <= rotated[k] + Grace
                   /\ rotated[k] # 0 => key[k].status \notin {"none", "active"}
LiveIInv ==
    /\ RevokedOut
    /\ GraceOk
    /\ \A d \in Call : FoundOk(d)
    /\ \A d \in Call : ExpiringOk(d)

LEMMA LiveInit == Init => LiveIInv
<1> SUFFICES ASSUME Init PROVE LiveIInv
  OBVIOUS
<1>1. \A c \in Call : call[c].pc = "idle"
  BY DEF Init, Ended
<1>2. ASSUME NEW k \in Key PROVE key[k].grace = 0 /\ rotated[k] = 0 /\ now = 1
  BY DEF Init, NoRow
<1>3. Grace \in Nat /\ revoked = {}
  BY AuthAssumption DEF Init
<1>. QED
  BY <1>1, <1>2, <1>3 DEF LiveIInv, RevokedOut, GraceOk, FoundOk, ExpiringOk

\* What a dispatch does to the requests.
LEMMA Dispatched ==
    ASSUME TypeOK, NEW c \in Call, Dispatch(c)
    PROVE  /\ call'[c].key \in Key
           /\ call'[c].pc # "found"
           /\ call'[c].pc = "expiring" => Verdict(call'[c].key) = "expiring"
           /\ call'[c].pc = "handling" => Verdict(call'[c].key) = "limiting"
           /\ \A d \in Call \ {c} : call'[d] = call[d]
<1> PICK a \in Action :
       LET verdict == Verdict(a.key)
           limit == Check(minute[a.key], day[key[a.key].owner], now)
       IN
       call' = [call EXCEPT ![c] =
                  IF verdict # "limiting" THEN Ended(verdict, a.key, 0)
                  ELSE IF limit.error # "none" THEN Ended(limit.error, a.key, now)
                  ELSE [@ EXCEPT !.pc = "handling", !.key = a.key, !.op = a.op,
                                 !.target = a.target, !.at = now]]
  BY DEF Dispatch
<1> DEFINE limit == Check(minute[a.key], day[key[a.key].owner], now)
<1>1. a.key \in Key /\ call \in [Call -> CallType]
  BY AuthAssumption DEF TypeOK, CallType
<1>2. \A d \in Call \ {c} : call'[d] = call[d]
  BY <1>1
<1>3. CASE Verdict(a.key) # "limiting"
  <2>1. call'[c] = Ended(Verdict(a.key), a.key, 0)
    BY <1>1, <1>3
  <2>2. call'[c].key = a.key /\ call'[c].pc = Verdict(a.key)
    BY ONLY <2>1, EndedParts
  <2>3. Verdict(a.key) \in {"invalid", "refused", "expiring", "limiting"}
    BY DEF Verdict
  <2>. QED
    BY <1>1, <1>2, <1>3, <2>2, <2>3
<1>4. CASE Verdict(a.key) = "limiting" /\ limit.error # "none"
  <2>1. call'[c] = Ended(limit.error, a.key, now)
    BY <1>1, <1>4
  <2>2. call'[c].key = a.key /\ call'[c].pc = limit.error
    BY ONLY <2>1, EndedParts
  <2>3. limit.error \in {"none", "rate_limit_minute", "rate_limit_day"}
    BY DEF Check
  <2>. QED
    BY <1>1, <1>2, <1>4, <2>2, <2>3
<1>5. CASE Verdict(a.key) = "limiting" /\ limit.error = "none"
  <2>1. call'[c].key = a.key /\ call'[c].pc = "handling"
    BY <1>1, <1>5 DEF CallType
  <2>. QED
    BY <1>1, <1>2, <1>5, <2>1
<1>. QED
  BY <1>3, <1>4, <1>5

LEMMA LiveStep == TypeOK /\ LiveIInv /\ [Next]_vars => LiveIInv'
<1> SUFFICES ASSUME TypeOK, LiveIInv, [Next]_vars PROVE LiveIInv'
  OBVIOUS
<1> USE DEF history, LiveIInv, RevokedOut, GraceOk, Out, FoundOk, ExpiringOk
<1>0. /\ key \in [Key -> Row] /\ call \in [Call -> CallType]
      /\ now \in Nat /\ rotated \in [Key -> Nat] /\ revoked \subseteq Key /\ Grace \in Nat
  BY AuthAssumption DEF TypeOK, CallType
<1>1. ASSUME NEW c \in Call, Dispatch(c) PROVE LiveIInv'
  <2>1. UNCHANGED <<key, now, rotated, revoked>>
    BY <1>1 DEF Dispatch
  <2>2. /\ \A d \in Call \ {c} : call'[d] = call[d]
        /\ call'[c].pc # "found"
        /\ call'[c].pc = "expiring" => key[call'[c].key].status = "rotated_out"
    BY <1>1, Dispatched DEF Verdict
  <2>. QED
    BY <2>1, <2>2, <1>0
<1>2. ASSUME NEW c \in Call, Expire(c) PROVE LiveIInv'
  <2> DEFINE k == call[c].key
  <2>1. k \in Key
    BY <1>0 DEF CallType
  <2>2. /\ key' = [key EXCEPT ![k].status = "expired"]
        /\ UNCHANGED <<now, rotated, revoked>>
        /\ \A d \in Call \ {c} : call'[d] = call[d]
        /\ call'[c].pc = "refused"
    BY <1>2, <1>0 DEF Expire, End, Ended
  <2>3. \A j \in Key : /\ key'[j].grace = key[j].grace
                      /\ key'[j].status = IF j = k THEN "expired" ELSE key[j].status
    BY <2>1, <2>2, <1>0 DEF Row
  <2>4. \A d \in Call : call[d].target \in Key /\ call[d].key \in Key
    BY <1>0 DEF CallType
  <2>. QED
    BY <2>1, <2>2, <2>3, <2>4, <1>0
<1>3. ASSUME NEW c \in Call, Serve(c) \/ Raise(c) PROVE LiveIInv'
  <2>1. /\ UNCHANGED <<key, now, rotated, revoked>>
        /\ \A d \in Call \ {c} : call'[d] = call[d]
        /\ call'[c].pc \in {"done", "failed"}
    BY <1>3, <1>0 DEF Serve, Raise, End, Ended
  <2>. QED
    BY <2>1, <1>0
<1>4. ASSUME NEW c \in Call, CreateKey(c) PROVE LiveIInv'
  <2>1. PICK n \in Key : /\ key[n].status = "none"
                         /\ key' = [key EXCEPT ![n] =
                              [NoRow EXCEPT !.status = "active", !.owner = key[call[c].key].owner]]
    BY <1>4 DEF CreateKey
  <2>2. /\ UNCHANGED <<now, rotated, revoked>>
        /\ \A d \in Call \ {c} : call'[d] = call[d]
        /\ call'[c].pc = "done"
    BY <1>4, <1>0 DEF CreateKey, End, Ended
  <2>3. /\ \A j \in Key \ {n} : key'[j] = key[j]
        /\ key'[n].status = "active" /\ key'[n].grace = 0
    BY <2>1, <1>0 DEF NoRow
  <2>4. \A d \in Call : call[d].target \in Key /\ call[d].key \in Key
    BY <1>0 DEF CallType
  <2>5. rotated[n] = 0 /\ n \notin revoked
    BY <2>1
  <2>. QED
    BY <2>1, <2>2, <2>3, <2>4, <2>5, <1>0
<1>5. ASSUME NEW c \in Call, FindTarget(c) PROVE LiveIInv'
  <2>1. /\ UNCHANGED <<key, now, rotated, revoked>>
        /\ \A d \in Call \ {c} : call'[d] = call[d]
        /\ \/ call'[c].pc = "done"
           \/ /\ call'[c].pc = "found" /\ call'[c].target = call[c].target
              /\ call'[c].row = key[call[c].target]
              /\ key[call[c].target].status # "none"
    BY <1>5, <1>0 DEF FindTarget, End, Ended, CallType
  <2>2. ASSUME call'[c].pc = "found" PROVE key[call[c].target].status # "none"
    BY <2>1, <2>2
  <2>3. call'[c].pc = "found" /\ call'[c].row.status = "revoked"
          => key[call'[c].target].status \in Out
    BY <2>1
  <2>. QED
    BY <2>1, <2>2, <2>3, <1>0
<1>6. ASSUME NEW c \in Call, Rotate(c) PROVE LiveIInv'
  <2> DEFINE t == call[c].target
             seen == call[c].row
  <2>1. t \in Key /\ seen \in Row /\ key[t] \in Row
    BY <1>0 DEF CallType
  <2>2. PICK n \in Key : /\ key[n].status = "none" /\ n # t
                         /\ key' = [key EXCEPT
                                      ![t].status = Written(seen.status, "rotated_out", @),
                                      ![t].grace = Written(seen.grace, now + Grace, @),
                                      ![n] = [status |-> "active", owner |-> key[t].owner, grace |-> 0]]
    BY <1>6 DEF Rotate
  <2>3. /\ rotated' = [rotated EXCEPT ![t] = now]
        /\ revoked' = revoked \ {t} /\ now' = now /\ call[c].pc = "found"
    BY <1>6 DEF Rotate
  <2>4. /\ \A j \in Key \ {n, t} : key'[j] = key[j]
        /\ key'[n].status = "active" /\ key'[n].grace = 0
        /\ key'[t].status = Written(seen.status, "rotated_out", key[t].status)
        /\ key'[t].grace = Written(seen.grace, now + Grace, key[t].grace)
    BY <2>1, <2>2, <1>0 DEF Row
  <2>5. key'[t].status \notin {"none", "active"}
    BY <2>3, <2>4, <1>0 DEF Written
  <2>6. key'[t].grace <= now + Grace
    <3>1. key[t].grace <= rotated[t] + Grace /\ rotated[t] <= now
      BY <2>1
    <3>2. key[t].grace \in Nat /\ rotated[t] \in Nat
      BY <2>1, <1>0 DEF Row
    <3>. QED
      BY <2>4, <3>1, <3>2, <1>0 DEF Written
  <2>7. \A d \in Call : call[d].target \in Key /\ call[d].key \in Key
    BY <1>0 DEF CallType
  <2>8. /\ call'[c].pc = "done"
        /\ \A d \in Call \ {c} :
             /\ call'[d].pc = call[d].pc /\ call'[d].target = call[d].target
             /\ call'[d].row = call[d].row /\ call'[d].key = call[d].key
             /\ call[d].pc = "found" /\ call[d].target = t => call'[d].overtaken
             /\ ~(call[d].pc = "found" /\ call[d].target = t) => call'[d] = call[d]
    BY <1>6, <1>0 DEF Rotate, Overtake, Ended, CallType
  <2>9. rotated[n] = 0 /\ n \notin revoked
    BY <2>2
  <2>10. \A k \in revoked' : key'[k].status \in Out
    BY <2>3, <2>4, <2>9, <1>0
  <2>11. \A k \in Key : /\ rotated'[k] <= now'
                        /\ key'[k].grace <= rotated'[k] + Grace
                        /\ rotated'[k] # 0 => key'[k].status \notin {"none", "active"}
    <3>1. ASSUME NEW k \in Key, k # t, k # n
          PROVE  /\ rotated'[k] <= now' /\ key'[k].grace <= rotated'[k] + Grace
                 /\ rotated'[k] # 0 => key'[k].status \notin {"none", "active"}
      BY <3>1, <2>3, <2>4, <1>0
    <3>2. /\ rotated'[n] <= now' /\ key'[n].grace <= rotated'[n] + Grace /\ rotated'[n] = 0
      <4>1. rotated'[n] = rotated[n]
        BY <2>1, <2>2, <2>3, <1>0
      <4>. QED
        BY <4>1, <2>3, <2>4, <2>9, <1>0
    <3>3. /\ rotated'[t] <= now' /\ key'[t].grace <= rotated'[t] + Grace
          /\ key'[t].status \notin {"none", "active"}
      BY <2>1, <2>3, <2>5, <2>6, <1>0
    <3>. QED
      BY <3>1, <3>2, <3>3
  <2>12. ASSUME NEW d \in Call, call'[d].pc = "found"
         PROVE  /\ key'[call'[d].target].status # "none"
                /\ call'[d].row.status # "active" => key'[call'[d].target].status # "active"
                /\ call'[d].row.status # "none"
                /\ call'[d].row.status = "revoked" /\ ~call'[d].overtaken
                     => key'[call'[d].target].status \in Out
    <3>1. d # c /\ call[d].pc = "found" /\ call'[d].target = call[d].target
          /\ call'[d].row = call[d].row
      BY <2>8, <2>12
    <3>2. call[d].target # n
      BY <2>2, <3>1
    <3>3. CASE call[d].target = t
      BY <2>5, <2>8, <3>1, <3>3
    <3>4. CASE call[d].target # t
      <4>1. key'[call[d].target] = key[call[d].target] /\ call'[d] = call[d]
        BY <2>4, <2>7, <2>8, <3>1, <3>2, <3>4
      <4>. QED
        BY <4>1, <3>1
    <3>. QED
      BY <3>3, <3>4
  <2>13. ASSUME NEW d \in Call, call'[d].pc = "expiring"
         PROVE  key'[call'[d].key].status \notin {"none", "active"}
    <3>1. d # c /\ call[d].pc = "expiring" /\ call'[d].key = call[d].key
      BY <2>8, <2>13
    <3>2. call[d].key # n
      BY <2>2, <3>1
    <3>. QED
      BY <2>4, <2>5, <2>7, <3>1, <3>2
  <2>. QED
    <3>1. RevokedOut'
      BY <2>10
    <3>2. GraceOk'
      BY <2>11
    <3>3. (\A d \in Call : FoundOk(d))'
      BY <2>12
    <3>4. (\A d \in Call : ExpiringOk(d))'
      BY <2>13
    <3>. HIDE DEF RevokedOut, GraceOk, FoundOk, ExpiringOk
    <3>. QED
      BY <3>1, <3>2, <3>3, <3>4
<1>7. ASSUME NEW c \in Call, Revoke(c) PROVE LiveIInv'
  <2> DEFINE t == call[c].target
             seen == call[c].row
  <2>1. t \in Key /\ call[c].pc = "found"
    BY <1>7, <1>0 DEF CallType, Revoke
  <2>2. /\ key' = [key EXCEPT ![t].status = Written(seen.status, "revoked", @)]
        /\ revoked' = IF call[c].overtaken /\ seen.status = "revoked"
                      THEN revoked ELSE revoked \cup {t}
        /\ UNCHANGED <<now, rotated>>
        /\ \A d \in Call \ {c} : call'[d] = call[d]
        /\ call'[c].pc = "done"
    BY <1>7, <1>0 DEF Revoke, End, Ended
  <2>3. /\ \A j \in Key : key'[j].grace = key[j].grace
        /\ \A j \in Key \ {t} : key'[j] = key[j]
        /\ key'[t].status = Written(seen.status, "revoked", key[t].status)
    BY <2>1, <2>2, <1>0 DEF Row
  <2>4. \A d \in Call : call[d].target \in Key /\ call[d].key \in Key
    BY <1>0 DEF CallType
  <2>5. key'[t].status \notin {"none", "active"}
    BY <2>1, <2>3 DEF Written
  <2>6. key[t].status \in Out \/ seen.status # "revoked" => key'[t].status \in Out
    BY <2>3 DEF Written
  <2>7. \A k \in revoked' : key'[k].status \in Out
    BY <2>1, <2>2, <2>3, <2>6, <1>0
  <2>8. \A d \in Call : call'[d].pc = "found" =>
            /\ key'[call'[d].target].status # "none"
            /\ call'[d].row.status # "active" => key'[call'[d].target].status # "active"
            /\ call'[d].row.status # "none"
            /\ call'[d].row.status = "revoked" /\ ~call'[d].overtaken
                 => key'[call'[d].target].status \in Out
    BY <2>2, <2>3, <2>4, <2>5, <2>6
  <2>9. \A d \in Call : call'[d].pc = "expiring" =>
            key'[call'[d].key].status \notin {"none", "active"}
    BY <2>2, <2>3, <2>4, <2>5
  <2>. QED
    BY <2>2, <2>3, <2>5, <2>7, <2>8, <2>9, <1>0
<1>8. CASE Tick
  <2>1. now' = now + 1 /\ UNCHANGED <<key, call, rotated, revoked>>
    BY <1>8 DEF Tick
  <2>. QED
    BY <2>1, <1>0
<1>9. CASE Restart
  <2>1. /\ UNCHANGED <<key, now, rotated, revoked>>
        /\ \A d \in Call : call'[d].pc \notin {"found", "expiring"}
    BY <1>9, <1>0 DEF Restart, Running, Ended
  <2>. QED
    BY <2>1, <1>0
<1>10. CASE UNCHANGED vars
  BY <1>10 DEF vars
<1>. QED
  BY <1>1, <1>2, <1>3, <1>4, <1>5, <1>6, <1>7, <1>8, <1>9, <1>10 DEF Next

\* No request passes the look-up with a key that was revoked after its last
\* rotation, or rotated longer ago than the grace period.
THEOREM LiveKeysOnly == Spec => OnlyLiveKeysPass
<1>1. TypeOK /\ LiveIInv /\ [Next]_vars =>
        [\A c \in Call :
           call[c].pc = "idle" /\ call'[c].pc = "handling" =>
             LET k == call'[c].key IN
             /\ k \notin revoked
             /\ rotated[k] # 0 => now <= rotated[k] + Grace]_vars
  <2> SUFFICES ASSUME TypeOK, LiveIInv, Next, NEW c \in Call,
                      call[c].pc = "idle", call'[c].pc = "handling"
               PROVE  LET k == call'[c].key IN
                      /\ k \notin revoked
                      /\ rotated[k] # 0 => now <= rotated[k] + Grace
    OBVIOUS
  <2>0. /\ key \in [Key -> Row] /\ call \in [Call -> CallType]
        /\ now \in Nat /\ rotated \in [Key -> Nat] /\ Grace \in Nat
    BY AuthAssumption DEF TypeOK, CallType
  <2>1. ASSUME NEW d \in Call, Expire(d) \/ Serve(d) \/ Raise(d) \/ CreateKey(d) \/ FindTarget(d)
                 \/ Rotate(d) \/ Revoke(d)
        PROVE  FALSE
    BY <2>1, <2>0 DEF Expire, Serve, Raise, CreateKey, FindTarget, Rotate, Revoke, Overtake, End,
                      Ended, CallType
  <2>2. CASE Tick \/ Restart
    BY <2>2, <2>0 DEF Tick, Restart, Ended, Running
  <2>3. ASSUME NEW d \in Call, Dispatch(d)
        PROVE  LET k == call'[c].key IN
               /\ k \notin revoked
               /\ rotated[k] # 0 => now <= rotated[k] + Grace
    <3>1. d = c
      BY <2>3, <2>0 DEF Dispatch
    <3>2. call'[c].key \in Key /\ Verdict(call'[c].key) = "limiting"
      BY <2>3, <3>1, Dispatched
    <3> DEFINE k == call'[c].key
    <3>3. /\ key[k].status \notin Refused
          /\ key[k].status = "rotated_out" => ~Lapsed(k)
          /\ key[k].status # "none"
      BY <3>2 DEF Verdict, Known
    <3>4. k \notin revoked
      BY <3>3 DEF LiveIInv, RevokedOut, Out, Refused
    <3>5. ASSUME rotated[k] # 0 PROVE now <= rotated[k] + Grace
      <4>1. key[k].status = "rotated_out"
        BY <3>2, <3>3, <3>5, <2>0 DEF LiveIInv, GraceOk, Refused, Row, KeyStatus
      <4>2. now <= key[k].grace /\ key[k].grace \in Nat
        BY <3>2, <3>3, <4>1, <2>0 DEF Lapsed, Row
      <4>3. key[k].grace <= rotated[k] + Grace /\ rotated[k] \in Nat
        BY <3>2, <2>0 DEF LiveIInv, GraceOk
      <4>. QED
        BY <4>2, <4>3, <2>0
    <3>. QED
      BY <3>4, <3>5
  <2>. QED
    BY <2>1, <2>2, <2>3 DEF Next
<1>. QED
  BY <1>1, TypeInit, TypeStep, LiveInit, LiveStep, PTL DEF Spec, OnlyLiveKeysPass
-----------------------------------------------------------------------------
(* Buckets. *)

\* What allow() leaves of a bucket: it is dated, holds at most its capacity
\* and at most what came in, one of the two exactly, less the price of a
\* request that it admits.
LEMMA RefillFacts ==
    ASSUME NEW b \in Bucket, NEW c \in Nat \ {0}, NEW w \in Nat \ {0},
           NEW t \in Nat, b.at <= t
    PROVE  LET r == Refill(b, c, w, t) IN
           /\ r \in Bucket /\ r.at = t
           /\ r.tokens <= c * w
           /\ r.tokens <= b.tokens + (t - b.at) * c
           /\ r.tokens = c * w \/ r.tokens = b.tokens + (t - b.at) * c
<1>1. c * w \in Nat /\ (t - b.at) * c \in Nat /\ b.tokens \in Nat
  BY DEF Bucket
<1>2. ASSUME NEW p \in Nat, NEW q \in Nat
      PROVE  Least(p, q) \in Nat /\ Least(p, q) <= p /\ Least(p, q) <= q
             /\ (Least(p, q) = p \/ Least(p, q) = q)
  BY DEF Least
<1>3. b.tokens + (t - b.at) * c \in Nat
  BY <1>1
<1>4. /\ Least(c * w, b.tokens + (t - b.at) * c) \in Nat
      /\ Least(c * w, b.tokens + (t - b.at) * c) <= c * w
      /\ Least(c * w, b.tokens + (t - b.at) * c) <= b.tokens + (t - b.at) * c
      /\ \/ Least(c * w, b.tokens + (t - b.at) * c) = c * w
         \/ Least(c * w, b.tokens + (t - b.at) * c) = b.tokens + (t - b.at) * c
  BY <1>1, <1>2, <1>3
<1> QED
  BY <1>4 DEF Refill, Bucket

LEMMA AllowFacts ==
    ASSUME NEW b \in Bucket, NEW c \in Nat \ {0}, NEW w \in Nat \ {0},
           NEW t \in Nat, b.at <= t
    PROVE  LET a == Allow(b, c, w, t)
               r == Refill(b, c, w, t) IN
           /\ r.tokens < w => a = [ok |-> FALSE, bucket |-> r]
           /\ ~(r.tokens < w)
                => a = [ok |-> TRUE, bucket |-> [tokens |-> r.tokens - w, at |-> t]]
           /\ a.bucket \in Bucket /\ a.bucket.at = t
<1> DEFINE r == Refill(b, c, w, t)
<1>1. r \in Bucket /\ r.at = t
  BY RefillFacts
<1>2. r.tokens \in Nat
  BY <1>1 DEF Bucket
<1>3. r = [tokens |-> r.tokens, at |-> t]
  BY DEF Refill
<1>4. CASE r.tokens < w
  BY <1>1, <1>2, <1>4 DEF Allow
<1>5. CASE ~(r.tokens < w)
  <2>1. [r EXCEPT !.tokens = r.tokens - w] = [tokens |-> r.tokens - w, at |-> t]
    BY ONLY <1>3
  <2>2. Allow(b, c, w, t) = [ok |-> TRUE, bucket |-> [tokens |-> r.tokens - w, at |-> t]]
    BY <1>5, <2>1 DEF Allow
  <2>3. r.tokens - w \in Nat
    BY <1>2, <1>5
  <2> QED
    BY <1>2, <1>5, <2>2, <2>3 DEF Bucket
<1> QED
  BY <1>4, <1>5

\* Rounding up: n units are there after the seconds it takes at c a second.
LEMMA CeilingCovers ==
    ASSUME NEW n \in Nat, NEW c \in Nat \ {0}
    PROVE  /\ (n + c - 1) \div c \in Nat
           /\ n <= ((n + c - 1) \div c) * c
<1> DEFINE m == n + c - 1
           q == m \div c
<1>1. m \in Nat
  OBVIOUS
<1>2. q \in Int /\ c * q <= m /\ m < c * (q + 1)
  BY <1>1
<1>3. c * (q + 1) = q * c + c /\ c * (q + 1) = c * q + c
  BY <1>2
<1> HIDE DEF q
<1>4. q \in Nat
  <2>1. ASSUME q + 1 <= 0 PROVE FALSE
    <3>1. c * (q + 1) <= 0
      BY <1>2, <2>1
    <3> QED
      BY <1>1, <1>2, <3>1
  <2> QED
    BY <1>2, <2>1
<1>5. n <= q * c
  <2>1. q * c \in Int
    BY <1>2
  <2> QED
    BY <1>2, <1>3, <2>1
<1> QED
  BY <1>4, <1>5 DEF q

\* A refused client that comes back when Retry-After says is served
\* (seconds_until_token).
LEMMA WaitSuffices ==
    ASSUME NEW b \in Bucket, NEW c \in Nat \ {0}, NEW w \in Nat \ {0},
           NEW t \in Nat, b.at <= t, ~Allow(b, c, w, t).ok
    PROVE  LET r == Allow(b, c, w, t).bucket IN
           Allow(r, c, w, t + SecondsUntilToken(r, c, w)).ok
<1> DEFINE r == Allow(b, c, w, t).bucket
           s == SecondsUntilToken(r, c, w)
<1>1. r \in Bucket /\ r.at = t
  BY AllowFacts
<1>2. r.tokens \in Nat /\ r.tokens < w
  <2>1. Refill(b, c, w, t).tokens < w
    BY AllowFacts
  <2>2. r = Refill(b, c, w, t)
    BY <2>1, AllowFacts
  <2>3. r.tokens \in Nat
    BY <1>1 DEF Bucket
  <2> QED
    BY <2>1, <2>2, <2>3
<1>3. s = (w - r.tokens + c - 1) \div c
  BY <1>2 DEF SecondsUntilToken
<1> HIDE DEF r, s
<1>4. s \in Nat /\ w - r.tokens <= s * c
  <2>1. w - r.tokens \in Nat
    BY <1>2
  <2> QED
    BY <1>3, <2>1, CeilingCovers
<1> DEFINE u == t + s
           g == Refill(r, c, w, u).tokens
<1>5. u \in Nat /\ r.at <= u /\ u - r.at = s
  BY <1>1, <1>4
<1> HIDE DEF u
<1>6. /\ g = c * w \/ g = r.tokens + (u - r.at) * c
      /\ Refill(r, c, w, u) \in Bucket
  BY <1>1, <1>5, RefillFacts
<1> HIDE DEF g
<1>7. c * w >= w /\ s * c \in Nat
  BY <1>4
<1>8. g >= w
  BY <1>2, <1>4, <1>5, <1>6, <1>7
<1>9. Allow(r, c, w, u).ok
  <2>1. ~(Refill(r, c, w, u).tokens < w)
    BY <1>6, <1>8 DEF g, Bucket
  <2>2. Allow(r, c, w, u).ok = TRUE
    BY <1>1, <1>5, <2>1, AllowFacts
  <2> QED
    BY <2>2
<1> QED
  BY <1>9 DEF u, s, r

\* Retry-After is long enough: a client that waits as long as it says, alone
\* with its bucket, is let through.
THEOREM RetryAfterIsEnough == Spec => []RetryAfterSuffices
<1>1. TypeOK /\ Dated => RetryAfterSuffices
  BY WaitSuffices, LimitAssumption DEF TypeOK, Dated, RetryAfterSuffices, Suffices
<1> QED
  BY <1>1, TypeInit, TypeStep, PTL DEF Spec

-----------------------------------------------------------------------------
(* What requests have paid. *)

\* The members of S that were asked at or after an hour, and between two; at
\* gives the hour of each.
Since(S, at, from) == {d \in S : at[d] >= from}
Between(S, at, from, to) == {d \in S : at[d] \in from .. to}

\* A bucket covers the requests S that paid it: since any hour they cost no
\* more than it held then, when full, and has been refilled since, less what it
\* holds now; and between two hours no more than it could have given.
Covered(S, at, b, c, w) ==
    /\ IsFiniteSet(S)
    /\ b.at >= 1
    /\ \A d \in S : at[d] \in 1 .. b.at
    /\ \A from \in 1 .. b.at :
         Cardinality(Since(S, at, from)) * w + b.tokens <= c * w + (b.at - from) * c
    /\ \A from, to \in 1 .. b.at : from <= to =>
         Cardinality(Between(S, at, from, to)) * w <= (w + to - from) * c

\* What a bucket misses of its capacity and of its refills since some hour, the
\* requests S have paid since.
Spent(S, at, b, c, w) ==
    \E from \in 1 .. b.at :
      Cardinality(Since(S, at, from)) * w + b.tokens >= c * w + (b.at - from) * c

LEMMA Counts ==
    ASSUME NEW S, IsFiniteSet(S), NEW at, NEW from, NEW to
    PROVE  /\ IsFiniteSet(Since(S, at, from)) /\ Cardinality(Since(S, at, from)) \in Nat
           /\ IsFiniteSet(Between(S, at, from, to)) /\ Cardinality(Between(S, at, from, to)) \in Nat
<1>1. Since(S, at, from) \in SUBSET S /\ Between(S, at, from, to) \in SUBSET S
  BY DEF Since, Between
<1> QED
  BY <1>1, FS_Subset, FS_CardinalityType

\* Time passes: each refill adds what the seconds are worth.
LEMMA Worth ==
    ASSUME NEW c \in Nat, NEW i \in Nat, NEW j \in Nat, NEW k \in Nat, i <= j, j <= k
    PROVE  (k - i) * c = (k - j) * c + (j - i) * c
OBVIOUS

LEMMA WorthMore ==
    ASSUME NEW c \in Nat, NEW i \in Nat, NEW j \in Nat, i <= j
    PROVE  i * c <= j * c
OBVIOUS

\* A refill keeps the requests covered.
LEMMA CoveredRefill ==
    ASSUME NEW S, NEW at, NEW at2, \A d \in S : at2[d] = at[d],
           NEW b \in Bucket, NEW r \in Bucket, b.at <= r.at,
           NEW c \in Nat \ {0}, NEW w \in Nat \ {0},
           r.tokens <= c * w, r.tokens <= b.tokens + (r.at - b.at) * c,
           Covered(S, at, b, c, w)
    PROVE  Covered(S, at2, r, c, w)
<1> DEFINE t == r.at
           n(from) == Cardinality(Since(S, at, from))
           m(from, to) == Cardinality(Between(S, at2, from, to))
<1>1. b.at \in Nat /\ b.tokens \in Nat /\ t \in Nat /\ r.tokens \in Nat /\ c * w \in Nat
  BY DEF Bucket
<1>2. IsFiniteSet(S) /\ b.at >= 1 /\ \A d \in S : at[d] \in 1 .. b.at
  BY DEF Covered
<1>3. \A d \in S : at2[d] \in 1 .. b.at /\ at2[d] \in 1 .. t
  BY <1>1, <1>2
<1>4. ASSUME NEW from \in 1 .. t
      PROVE  Since(S, at2, from) = Since(S, at, from)
  BY DEF Since
<1>5. \A from : n(from) \in Nat
  BY <1>2, Counts
<1>6. \A from, to : m(from, to) \in Nat
  BY <1>2, Counts
<1>7. ASSUME NEW from \in 1 .. t, from > b.at
      PROVE  Since(S, at, from) = {} /\ n(from) = 0
  <2>1. Since(S, at, from) = {}
    BY <1>1, <1>2, <1>7 DEF Since
  <2> QED
    BY <2>1, FS_EmptySet
<1>8. ASSUME NEW from \in 1 .. t
      PROVE  n(from) * w + r.tokens <= c * w + (t - from) * c
  <2>1. CASE from <= b.at
    <3>1. n(from) * w + b.tokens <= c * w + (b.at - from) * c
      BY <1>1, <2>1 DEF Covered
    <3>2. (t - from) * c = (t - b.at) * c + (b.at - from) * c
      <4>1. from \in Nat /\ from <= b.at /\ b.at <= t
        BY <1>1, <2>1
      <4> HIDE DEF t
      <4> QED
        BY <1>1, <4>1, Worth
    <3>3. n(from) * w \in Nat /\ (t - b.at) * c \in Nat /\ (b.at - from) * c \in Nat
      BY <1>1, <1>5, <2>1
    <3> QED
      BY <1>1, <3>1, <3>2, <3>3
  <2>2. CASE from > b.at
    <3>1. n(from) * w = 0 /\ (t - from) * c \in Nat
      BY <1>1, <1>7, <2>2
    <3> QED
      BY <1>1, <3>1
  <2> QED
    BY <1>1, <2>1, <2>2
<1>9. ASSUME NEW from \in 1 .. t, NEW to \in 1 .. t, from <= to
      PROVE  m(from, to) * w <= (w + to - from) * c
  <2>1. (w + to - from) * c = c * w + (to - from) * c /\ (to - from) * c \in Nat
    BY <1>9
  <2>2. CASE to <= b.at
    <3>1. Between(S, at2, from, to) = Between(S, at, from, to)
      BY DEF Between
    <3> QED
      BY <1>1, <1>9, <2>2, <3>1 DEF Covered
  <2>3. CASE to > b.at
    <3>1. Between(S, at2, from, to) \in SUBSET Since(S, at, from)
      BY <1>1, <1>2 DEF Between, Since
    <3>2. m(from, to) <= n(from)
      BY <3>1, <1>2, Counts, FS_Subset
    <3>3. m(from, to) * w <= n(from) * w
      BY <3>2, <1>5, <1>6, WorthMore
    <3>4. CASE from <= b.at
      <4>1. n(from) * w + b.tokens <= c * w + (b.at - from) * c
        BY <1>1, <3>4 DEF Covered
      <4>2. (b.at - from) * c <= (to - from) * c /\ (b.at - from) * c \in Nat
        <5>1. b.at - from \in Nat /\ to - from \in Nat /\ b.at - from <= to - from
          BY <1>1, <2>3, <3>4
        <5> QED
          BY <5>1, WorthMore
      <4>3. m(from, to) * w \in Nat /\ n(from) * w \in Nat
        BY <1>5, <1>6
      <4> QED
        BY <1>1, <2>1, <3>3, <4>1, <4>2, <4>3
    <3>5. CASE from > b.at
      <4>1. m(from, to) = 0
        BY <3>2, <3>5, <1>6, <1>7
      <4> QED
        BY <1>1, <2>1, <4>1
    <3> QED
      BY <1>1, <3>4, <3>5
  <2> QED
    BY <1>1, <2>2, <2>3
<1> QED
  <2>1. t >= 1
    BY <1>1, <1>2
  <2>2. \A from \in 1 .. r.at :
          Cardinality(Since(S, at2, from)) * w + r.tokens <= c * w + (r.at - from) * c
    BY <1>4, <1>8
  <2> QED
    BY <1>2, <1>3, <1>9, <2>1, <2>2 DEF Covered

\* So does a request that pays.
LEMMA CoveredPay ==
    ASSUME NEW S, NEW at, NEW r \in Bucket, NEW b \in Bucket,
           NEW c \in Nat \ {0}, NEW w \in Nat \ {0}, NEW x, x \notin S, at[x] = r.at,
           b.at = r.at, r.tokens >= w, b.tokens = r.tokens - w,
           Covered(S, at, r, c, w)
    PROVE  Covered(S \cup {x}, at, b, c, w)
<1> DEFINE t == r.at
           T == S \cup {x}
           n(from) == Cardinality(Since(S, at, from))
           m(from, to) == Cardinality(Between(T, at, from, to))
<1>1. t \in Nat /\ t >= 1 /\ r.tokens \in Nat /\ b.tokens \in Nat /\ c * w \in Nat
  BY DEF Bucket, Covered
<1>2. IsFiniteSet(S) /\ \A d \in S : at[d] \in 1 .. t
  BY DEF Covered
<1>3. IsFiniteSet(T)
  BY <1>2, FS_AddElement
<1>4. \A d \in T : at[d] \in 1 .. t
  BY <1>1, <1>2
<1>5. ASSUME NEW from \in 1 .. t
      PROVE  /\ n(from) \in Nat
             /\ Cardinality(Since(T, at, from)) = n(from) + 1
  <2>1. Since(T, at, from) = Since(S, at, from) \cup {x} /\ x \notin Since(S, at, from)
    BY <1>1 DEF Since
  <2> QED
    BY <2>1, <1>2, Counts, FS_AddElement
<1>6. ASSUME NEW from \in 1 .. t
      PROVE  (n(from) + 1) * w + b.tokens <= c * w + (t - from) * c
  <2>1. n(from) * w + r.tokens <= c * w + (t - from) * c
    BY DEF Covered
  <2>2. (n(from) + 1) * w = n(from) * w + w /\ n(from) * w \in Nat /\ (t - from) * c \in Nat
    BY <1>1, <1>5
  <2> QED
    BY <1>1, <2>1, <2>2
<1>7. ASSUME NEW from \in 1 .. t, NEW to \in 1 .. t, from <= to
      PROVE  m(from, to) * w <= (w + to - from) * c
  <2>1. CASE to < t
    <3>1. Between(T, at, from, to) = Between(S, at, from, to)
      BY <1>1, <2>1 DEF Between
    <3> QED
      BY <3>1, <1>7 DEF Covered
  <2>2. CASE to = t
    <3>1. Between(T, at, from, to) \in SUBSET Since(T, at, from)
      BY <1>1, <1>4 DEF Between, Since
    <3>2. m(from, to) <= n(from) + 1 /\ m(from, to) \in Nat
      <4>1. IsFiniteSet(Since(T, at, from)) /\ m(from, to) \in Nat
        BY <1>3, Counts
      <4>2. m(from, to) <= Cardinality(Since(T, at, from))
        BY <3>1, <4>1, FS_Subset
      <4> QED
        BY <1>5, <4>1, <4>2
    <3>3. m(from, to) * w <= (n(from) + 1) * w
      BY <3>2, <1>5, WorthMore
    <3>4. (w + to - from) * c = c * w + (t - from) * c /\ (t - from) * c \in Nat
      BY <1>1, <2>2
    <3>5. (n(from) + 1) * w \in Nat /\ m(from, to) * w \in Nat
      BY <1>5, <3>2
    <3> QED
      BY <1>1, <1>6, <3>3, <3>4, <3>5
  <2> QED
    BY <1>1, <2>1, <2>2
<1> QED
  <2>1. \A from \in 1 .. b.at :
          Cardinality(Since(T, at, from)) * w + b.tokens <= c * w + (b.at - from) * c
    BY <1>5, <1>6
  <2> QED
    BY <1>1, <1>3, <1>4, <1>7, <2>1 DEF Covered

\* A refill: either the bucket is full, or it has got the worth of the time.
LEMMA SpentRefill ==
    ASSUME NEW S, IsFiniteSet(S), NEW at, NEW at2, \A d \in S : at2[d] = at[d],
           NEW b \in Bucket, NEW r \in Bucket, 1 <= r.at, b.at <= r.at,
           NEW c \in Nat \ {0}, NEW w \in Nat \ {0},
           r.tokens = c * w \/ r.tokens = b.tokens + (r.at - b.at) * c,
           Spent(S, at, b, c, w)
    PROVE  Spent(S, at2, r, c, w)
<1>1. b.at \in Nat /\ b.tokens \in Nat /\ r.at \in Nat /\ r.tokens \in Nat /\ c * w \in Nat
  BY DEF Bucket
<1>2. CASE r.tokens = c * w
  <2> DEFINE n == Cardinality(Since(S, at2, r.at))
  <2>1. n \in Nat
    BY Counts
  <2>2. n * w \in Nat /\ (r.at - r.at) * c = 0
    BY <1>1, <2>1
  <2>3. n * w + r.tokens >= c * w + (r.at - r.at) * c
    BY <1>1, <1>2, <2>2
  <2>4. r.at \in 1 .. r.at
    BY <1>1
  <2> QED
    BY <2>3, <2>4 DEF Spent
<1>3. CASE r.tokens = b.tokens + (r.at - b.at) * c
  <2> PICK from \in 1 .. b.at :
        Cardinality(Since(S, at, from)) * w + b.tokens >= c * w + (b.at - from) * c
    BY DEF Spent
  <2> DEFINE n == Cardinality(Since(S, at, from))
  <2>1. n \in Nat
    BY Counts
  <2>2. Since(S, at2, from) = Since(S, at, from)
    BY DEF Since
  <2>3. (r.at - from) * c = (r.at - b.at) * c + (b.at - from) * c
    BY <1>1, Worth
  <2>4. n * w \in Nat /\ (r.at - b.at) * c \in Nat /\ (b.at - from) * c \in Nat
    BY <1>1, <2>1
  <2>5. n * w + r.tokens >= c * w + (r.at - from) * c
    BY <1>1, <1>3, <2>3, <2>4
  <2>6. from \in 1 .. r.at
    BY <1>1
  <2> QED
    BY <2>2, <2>5, <2>6 DEF Spent
<1> QED
  BY <1>2, <1>3

LEMMA SpentPay ==
    ASSUME NEW S, IsFiniteSet(S), NEW at, NEW r \in Bucket, NEW b \in Bucket,
           NEW c \in Nat \ {0}, NEW w \in Nat \ {0}, NEW x, x \notin S, at[x] = r.at,
           b.at = r.at, b.tokens = r.tokens - w,
           Spent(S, at, r, c, w)
    PROVE  Spent(S \cup {x}, at, b, c, w)
<1>1. r.at \in Nat /\ r.tokens \in Nat /\ c * w \in Nat
  BY DEF Bucket
<1> PICK from \in 1 .. r.at :
      Cardinality(Since(S, at, from)) * w + r.tokens >= c * w + (r.at - from) * c
  BY DEF Spent
<1> DEFINE n == Cardinality(Since(S, at, from))
<1>2. n \in Nat
  BY Counts
<1>3. Since(S \cup {x}, at, from) = Since(S, at, from) \cup {x} /\ x \notin Since(S, at, from)
  BY <1>1 DEF Since
<1>4. Cardinality(Since(S \cup {x}, at, from)) = n + 1
  BY <1>3, Counts, FS_AddElement
<1>5. (n + 1) * w = n * w + w /\ n * w \in Nat /\ (r.at - from) * c \in Nat
  BY <1>1, <1>2
<1>6. (n + 1) * w + b.tokens >= c * w + (b.at - from) * c
  BY <1>1, <1>5
<1> QED
  BY <1>4, <1>6 DEF Spent

\* What holds of some hours holds of others that agree on S.
LEMMA CoveredAgain ==
    ASSUME NEW S, NEW at, NEW at2, \A d \in S : at2[d] = at[d], NEW b, NEW c, NEW w
    PROVE  /\ Covered(S, at, b, c, w) => Covered(S, at2, b, c, w)
           /\ Spent(S, at, b, c, w) => Spent(S, at2, b, c, w)
<1>1. \A from, to : /\ Since(S, at2, from) = Since(S, at, from)
                    /\ Between(S, at2, from, to) = Between(S, at, from, to)
  BY DEF Since, Between
<1>2. Covered(S, at, b, c, w) => Covered(S, at2, b, c, w)
  BY <1>1 DEF Covered
<1>3. Spent(S, at, b, c, w) => Spent(S, at2, b, c, w)
  BY <1>1 DEF Spent
<1> QED
  BY <1>2, <1>3

\* A fresh bucket owes nothing.
LEMMA FullCovers ==
    ASSUME NEW at, NEW c \in Nat \ {0}, NEW w \in Nat \ {0}, NEW t \in Nat \ {0}
    PROVE  /\ Covered({}, at, FullBucket(c, w, t), c, w)
           /\ Spent({}, at, FullBucket(c, w, t), c, w)
<1> DEFINE b == FullBucket(c, w, t)
<1>1. b.tokens = c * w /\ b.at = t /\ c * w \in Nat
  BY DEF FullBucket
<1>2. \A from, to : /\ Since({}, at, from) = {} /\ Between({}, at, from, to) = {}
  BY DEF Since, Between
<1>3. IsFiniteSet({}) /\ Cardinality({}) = 0
  BY FS_EmptySet
<1>4. ASSUME NEW from \in 1 .. t
      PROVE  0 * w + b.tokens <= c * w + (t - from) * c
  <2>1. (t - from) * c \in Nat
    OBVIOUS
  <2> QED
    BY <1>1, <2>1
<1>5. ASSUME NEW from \in 1 .. t, NEW to \in 1 .. t, from <= to
      PROVE  0 * w <= (w + to - from) * c
  <2>1. w + to - from \in Nat
    BY <1>5
  <2> QED
    BY <2>1
<1>6. Covered({}, at, b, c, w)
  BY <1>1, <1>2, <1>3, <1>4, <1>5 DEF Covered
<1>7. Spent({}, at, b, c, w)
  <2>1. 0 * w + b.tokens >= c * w + (t - t) * c /\ t \in 1 .. t
    BY <1>1
  <2> QED
    BY <1>1, <1>2, <1>3, <2>1 DEF Spent
<1> QED
  BY <1>6, <1>7

\* Also between hours later than the bucket's.
LEMMA CoveredWithin ==
    ASSUME NEW S, NEW at, NEW b \in Bucket, NEW c \in Nat \ {0}, NEW w \in Nat \ {0},
           Covered(S, at, b, c, w), NEW from \in Nat \ {0}, NEW to \in Nat \ {0}, from <= to
    PROVE  Cardinality(Between(S, at, from, to)) * w <= (w + to - from) * c
<1>1. b.at \in Nat /\ IsFiniteSet(S) /\ \A d \in S : at[d] \in 1 .. b.at
  BY DEF Bucket, Covered
<1>2. CASE to <= b.at
  BY <1>1, <1>2 DEF Covered
<1>3. CASE from > b.at
  <2>1. Between(S, at, from, to) = {}
    BY <1>1, <1>3 DEF Between
  <2>2. Cardinality({}) = 0
    BY FS_EmptySet
  <2>3. w + to - from \in Nat
    OBVIOUS
  <2>4. 0 * w <= (w + to - from) * c
    BY <2>3
  <2> QED
    BY <2>1, <2>2, <2>4
<1>4. CASE from <= b.at /\ b.at < to
  <2>1. Between(S, at, from, to) = Between(S, at, from, b.at)
    BY <1>1, <1>4 DEF Between
  <2>2. Cardinality(Between(S, at, from, b.at)) * w <= (w + b.at - from) * c
    BY <1>1, <1>4 DEF Covered
  <2>3. Cardinality(Between(S, at, from, b.at)) \in Nat
    BY <1>1, Counts
  <2>4. w + b.at - from \in Nat /\ w + to - from \in Nat /\ w + b.at - from <= w + to - from
    BY <1>1, <1>4
  <2>5. (w + b.at - from) * c <= (w + to - from) * c
    BY <2>4, WorthMore
  <2>6. Cardinality(Between(S, at, from, b.at)) * w \in Nat
        /\ (w + b.at - from) * c \in Nat /\ (w + to - from) * c \in Nat
    BY <2>3, <2>4
  <2> QED
    BY <2>1, <2>2, <2>5, <2>6
<1> QED
  BY <1>1, <1>2, <1>3, <1>4

-----------------------------------------------------------------------------
(* The rate limits. *)

\* The requests of this process that paid a minute bucket and a day bucket.
ServedStage == {"handling", "found", "done", "failed"}
MinutePayers(k) ==
    {c \in Call : /\ call[c].pc \in ServedStage \cup {"rate_limit_day"}
                  /\ call[c].at # 0 /\ call[c].key = k}
DayPayers(u) ==
    {c \in Call : /\ call[c].pc \in ServedStage
                  /\ call[c].at # 0 /\ key[call[c].key].owner = u}
Hours == [c \in Call |-> call[c].at]

\* Each bucket covers what was paid from it, the minute buckets no more than
\* that, and every refusal of a minute bucket found it spent.  A key that asked
\* the limiter has a row: its owner, whose day bucket pays, never changes.
MinuteInv ==
    \A k \in Key :
      /\ Covered(MinutePayers(k), Hours, minute[k], MinuteCapacity, MinuteWindow)
      /\ Spent(MinutePayers(k), Hours, minute[k], MinuteCapacity, MinuteWindow)
DayInv == \A u \in User : Covered(DayPayers(u), Hours, day[u], DayCapacity, DayWindow)
Justified(c) ==
    \E from \in 1 .. call[c].at :
      Cardinality(Between(MinutePayers(call[c].key), Hours, from, call[c].at)) * MinuteWindow
        > (MinuteCapacity - 1) * MinuteWindow + (call[c].at - from) * MinuteCapacity
RefusalInv ==
    \A c \in Call : call[c].pc = "rate_limit_minute" /\ call[c].at # 0 => Justified(c)
AskedByRow == \A c \in Call : call[c].at # 0 => key[call[c].key].status # "none"
RateIInv == now >= 1 /\ MinuteInv /\ DayInv /\ RefusalInv /\ AskedByRow

\* New buckets, and no request of this process has paid them.
LEMMA RateFresh ==
    ASSUME now \in Nat, now >= 1, \A c \in Call : call[c].at = 0,
           minute = [k \in Key |-> FullBucket(MinuteCapacity, MinuteWindow, now)],
           day = [u \in User |-> FullBucket(DayCapacity, DayWindow, now)]
    PROVE  RateIInv
<1>1. ASSUME NEW k \in Key PROVE MinutePayers(k) = {}
  BY DEF MinutePayers
<1>2. ASSUME NEW u \in User PROVE DayPayers(u) = {}
  BY DEF DayPayers
<1>3. MinuteInv
  BY <1>1, FullCovers, LimitAssumption DEF MinuteInv
<1>4. DayInv
  BY <1>2, FullCovers, LimitAssumption DEF DayInv
<1> QED
  BY <1>3, <1>4 DEF RateIInv, RefusalInv, AskedByRow

LEMMA RateInit == Init => RateIInv
<1> SUFFICES ASSUME Init PROVE RateIInv
  OBVIOUS
<1>1. now = 1 /\ \A c \in Call : call[c].at = 0
  BY DEF Init, Ended
<1>2. /\ minute = [k \in Key |-> FullBucket(MinuteCapacity, MinuteWindow, now)]
      /\ day = [u \in User |-> FullBucket(DayCapacity, DayWindow, now)]
  BY <1>1 DEF Init
<1> QED
  BY <1>1, <1>2, RateFresh

\* The routes leave the limiter, the hour of a request and the owner of a row
\* alone, and what has been served stays so.
LEMMA RoutesAreQuiet ==
    ASSUME TypeOK, LiveIInv, NEW c \in Call,
           \/ Expire(c) \/ Serve(c) \/ CreateKey(c) \/ FindTarget(c)
           \/ Rotate(c) \/ Revoke(c) \/ Raise(c)
    PROVE  /\ minute' = minute /\ day' = day /\ now' = now
           /\ \A d \in Call :
                /\ call'[d].at = call[d].at /\ call'[d].key = call[d].key
                /\ \/ call'[d].pc = call[d].pc
                   \/ call[d].pc \in ServedStage /\ call'[d].pc \in ServedStage
                   \/ call[d].pc = "expiring" /\ call'[d].pc = "refused"
           /\ \A k \in Key : key[k].status # "none" =>
                key'[k].status # "none" /\ key'[k].owner = key[k].owner
<1>0. /\ key \in [Key -> Row] /\ call \in [Call -> CallType]
      /\ now \in Nat /\ Grace \in Nat
  BY AuthAssumption DEF TypeOK, CallType
<1>e. ASSUME NEW s \in Stage, End(c, s)
      PROVE  \A d \in Call : /\ call'[d].at = call[d].at /\ call'[d].key = call[d].key
                             /\ call'[d].pc = IF d = c THEN s ELSE call[d].pc
  BY <1>e, <1>0 DEF End, Ended
<1> USE DEF ServedStage, Stage
<1>1. CASE Expire(c)
  <2>1. call[c].key \in Key /\ UNCHANGED <<minute, day, now>>
    BY <1>1, <1>0 DEF CallType, Expire
  <2>2. \A k \in Key : key[k].status # "none" =>
           key'[k].status # "none" /\ key'[k].owner = key[k].owner
    BY <1>1, <1>0, <2>1 DEF Expire, Row
  <2> QED
    BY <1>1, <1>e, <2>1, <2>2 DEF Expire
<1>2. CASE Serve(c) \/ Raise(c)
  BY <1>2, <1>e DEF Serve, Raise
<1>3. CASE CreateKey(c)
  <2>1. PICK n \in Key : /\ key[n].status = "none"
                         /\ key' = [key EXCEPT ![n] =
                              [NoRow EXCEPT !.status = "active", !.owner = key[call[c].key].owner]]
    BY <1>3 DEF CreateKey
  <2>2. \A k \in Key : key[k].status # "none" =>
           key'[k].status # "none" /\ key'[k].owner = key[k].owner
    BY <2>1, <1>0
  <2> QED
    BY <1>3, <1>e, <2>2 DEF CreateKey
<1>4. CASE FindTarget(c)
  <2>1. UNCHANGED <<key, minute, day, now>> /\ call[c].pc = "handling"
    BY <1>4 DEF FindTarget
  <2>2. CASE End(c, "done")
    BY <1>e, <2>1, <2>2
  <2>3. CASE call' = [call EXCEPT ![c].pc = "found", ![c].row = key[call[c].target],
                                  ![c].overtaken = FALSE]
    BY <1>0, <2>1, <2>3 DEF CallType
  <2> QED
    BY <1>4, <2>2, <2>3 DEF FindTarget
<1>5. CASE Rotate(c)
  <2> DEFINE t == call[c].target
             seen == call[c].row
  <2>1. /\ t \in Key /\ call[c].pc = "found" /\ UNCHANGED <<minute, day, now>>
        /\ key[t].status # "none"
    BY <1>5, <1>0 DEF CallType, Rotate, LiveIInv, FoundOk
  <2>2. PICK n \in Key : /\ key[n].status = "none" /\ n # t
                         /\ key' = [key EXCEPT
                                      ![t].status = Written(seen.status, "rotated_out", @),
                                      ![t].grace = Written(seen.grace, now + Grace, @),
                                      ![n] = [status |-> "active", owner |-> key[t].owner, grace |-> 0]]
    BY <1>5 DEF Rotate
  <2>3. /\ \A j \in Key \ {n, t} : key'[j] = key[j]
        /\ key'[t].status = Written(seen.status, "rotated_out", key[t].status)
        /\ key'[t].owner = key[t].owner
    BY <2>1, <2>2, <1>0 DEF Row
  <2>4. key'[t].status # "none"
    BY <2>1, <2>3 DEF Written
  <2>5. \A d \in Call : /\ call'[d].at = call[d].at /\ call'[d].key = call[d].key
                        /\ d # c => call'[d].pc = call[d].pc
                        /\ d = c => call'[d].pc = "done"
    BY <1>5, <1>0 DEF Rotate, Overtake, Ended, CallType
  <2>6. \A k \in Key : key[k].status # "none" =>
           key'[k].status # "none" /\ key'[k].owner = key[k].owner
    BY <2>2, <2>3, <2>4
  <2> QED
    BY <2>1, <2>5, <2>6
<1>6. CASE Revoke(c)
  <2> DEFINE t == call[c].target
  <2>1. /\ t \in Key /\ call[c].pc = "found" /\ UNCHANGED <<minute, day, now>>
    BY <1>6, <1>0 DEF CallType, Revoke
  <2>2. key' = [key EXCEPT ![t].status = Written(call[c].row.status, "revoked", @)]
    BY <1>6 DEF Revoke
  <2>3. \A k \in Key : key[k].status # "none" =>
           key'[k].status # "none" /\ key'[k].owner = key[k].owner
    BY <2>1, <2>2, <1>0 DEF Row, Written
  <2> QED
    BY <1>6, <1>e, <2>1, <2>3 DEF Revoke
<1> QED
  BY <1>1, <1>2, <1>3, <1>4, <1>5, <1>6

\* Steps that leave the limiter alone keep what is said of it.
LEMMA QuietStep ==
    ASSUME TypeOK, RateIInv, minute' = minute, day' = day, now' = now,
           \A d \in Call :
             /\ call'[d].at = call[d].at /\ call'[d].key = call[d].key
             /\ \/ call'[d].pc = call[d].pc
                \/ call[d].pc \in ServedStage /\ call'[d].pc \in ServedStage
                \/ call[d].pc = "expiring" /\ call'[d].pc = "refused",
           \A k \in Key : key[k].status # "none" =>
             key'[k].status # "none" /\ key'[k].owner = key[k].owner
    PROVE  RateIInv'
<1>0. \A d \in Call : call[d].key \in Key
  BY DEF TypeOK
<1>1. Hours' = Hours
  BY DEF Hours
<1>2. \A d \in Call : /\ call'[d].pc \in ServedStage <=> call[d].pc \in ServedStage
                      /\ call'[d].pc = "rate_limit_day" <=> call[d].pc = "rate_limit_day"
                      /\ call'[d].pc = "rate_limit_minute" <=> call[d].pc = "rate_limit_minute"
  BY DEF ServedStage
<1>3. ASSUME NEW k PROVE MinutePayers(k)' = MinutePayers(k)
  BY <1>2 DEF MinutePayers
<1>4. ASSUME NEW u PROVE DayPayers(u)' = DayPayers(u)
  BY <1>0, <1>2 DEF DayPayers, RateIInv, AskedByRow
<1>5. MinuteInv'
  BY <1>1, <1>3 DEF MinuteInv, RateIInv
<1>6. DayInv'
  BY <1>1, <1>4 DEF DayInv, RateIInv
<1>7. RefusalInv'
  BY <1>1, <1>2, <1>3 DEF RefusalInv, Justified, RateIInv
<1>8. AskedByRow'
  BY <1>0 DEF AskedByRow, RateIInv
<1> QED
  BY <1>5, <1>6, <1>7, <1>8 DEF RateIInv

\* The four ways a request leaves the middleware.
LEMMA CheckCases ==
    ASSUME NEW m \in Bucket, NEW d \in Bucket, NEW t \in Nat, m.at <= t, d.at <= t
    PROVE  LET r == Refill(m, MinuteCapacity, MinuteWindow, t)
               q == Refill(d, DayCapacity, DayWindow, t)
               k == Check(m, d, t) IN
           \/ /\ r.tokens < MinuteWindow
              /\ k.error = "rate_limit_minute" /\ k.minute = r /\ k.day = d
           \/ /\ ~(r.tokens < MinuteWindow) /\ q.tokens < DayWindow
              /\ k.error = "rate_limit_day"
              /\ k.minute = [tokens |-> r.tokens - MinuteWindow, at |-> t] /\ k.day = q
           \/ /\ ~(r.tokens < MinuteWindow) /\ ~(q.tokens < DayWindow)
              /\ k.error = "none"
              /\ k.minute = [tokens |-> r.tokens - MinuteWindow, at |-> t]
              /\ k.day = [tokens |-> q.tokens - DayWindow, at |-> t]
<1> DEFINE r == Refill(m, MinuteCapacity, MinuteWindow, t)
           q == Refill(d, DayCapacity, DayWindow, t)
           a == Allow(m, MinuteCapacity, MinuteWindow, t)
           b == Allow(d, DayCapacity, DayWindow, t)
<1>1. /\ r.tokens < MinuteWindow => a = [ok |-> FALSE, bucket |-> r]
      /\ ~(r.tokens < MinuteWindow)
           => a = [ok |-> TRUE, bucket |-> [tokens |-> r.tokens - MinuteWindow, at |-> t]]
  BY AllowFacts, LimitAssumption
<1>2. /\ q.tokens < DayWindow => b = [ok |-> FALSE, bucket |-> q]
      /\ ~(q.tokens < DayWindow)
           => b = [ok |-> TRUE, bucket |-> [tokens |-> q.tokens - DayWindow, at |-> t]]
  BY AllowFacts, LimitAssumption
<1>3. CASE r.tokens < MinuteWindow
  <2>1. ~a.ok /\ a.bucket = r
    BY <1>1, <1>3
  <2> QED
    BY <1>3, <2>1 DEF Check
<1>4. CASE ~(r.tokens < MinuteWindow) /\ q.tokens < DayWindow
  <2>1. a.ok /\ a.bucket = [tokens |-> r.tokens - MinuteWindow, at |-> t]
    BY <1>1, <1>4
  <2>2. ~b.ok /\ b.bucket = q
    BY <1>2, <1>4
  <2> QED
    BY <1>4, <2>1, <2>2 DEF Check
<1>5. CASE ~(r.tokens < MinuteWindow) /\ ~(q.tokens < DayWindow)
  <2>1. a.ok /\ a.bucket = [tokens |-> r.tokens - MinuteWindow, at |-> t]
    BY <1>1, <1>5
  <2>2. b.ok /\ b.bucket = [tokens |-> q.tokens - DayWindow, at |-> t]
    BY <1>2, <1>5
  <2> QED
    BY <1>5, <2>1, <2>2 DEF Check
<1> QED
  BY <1>3, <1>4, <1>5

\* A dispatch: whom it concerns and what it costs.
LEMMA DispatchCases ==
    ASSUME TypeOK, Dated, NEW c \in Call, Dispatch(c)
    PROVE  /\ call[c].pc = "idle" /\ UNCHANGED <<key, now>>
           /\ \A d \in Call \ {c} : call'[d] = call[d]
           /\ \/ /\ call'[c].at = 0 /\ UNCHANGED <<minute, day>>
              \/ \E k \in Key :
                   LET u == key[k].owner
                       r == Refill(minute[k], MinuteCapacity, MinuteWindow, now)
                       q == Refill(day[u], DayCapacity, DayWindow, now)
                       paid == [tokens |-> r.tokens - MinuteWindow, at |-> now] IN
                   /\ call'[c].key = k /\ call'[c].at = now /\ key[k].status # "none"
                   /\ \/ /\ r.tokens < MinuteWindow
                         /\ call'[c].pc = "rate_limit_minute"
                         /\ minute' = [minute EXCEPT ![k] = r] /\ day' = day
                      \/ /\ ~(r.tokens < MinuteWindow) /\ q.tokens < DayWindow
                         /\ call'[c].pc = "rate_limit_day"
                         /\ minute' = [minute EXCEPT ![k] = paid]
                         /\ day' = [day EXCEPT ![u] = q]
                      \/ /\ ~(r.tokens < MinuteWindow) /\ ~(q.tokens < DayWindow)
                         /\ call'[c].pc = "handling"
                         /\ minute' = [minute EXCEPT ![k] = paid]
                         /\ day' = [day EXCEPT ![u] = [tokens |-> q.tokens - DayWindow, at |-> now]]
<1>0. /\ key \in [Key -> Row] /\ call \in [Call -> CallType] /\ now \in Nat
      /\ minute \in [Key -> Bucket] /\ day \in [User -> Bucket]
  BY DEF TypeOK, CallType
<1> PICK a \in Action :
       LET verdict == Verdict(a.key)
           u == key[a.key].owner
           limit == Check(minute[a.key], day[u], now)
       IN
       IF verdict # "limiting"
       THEN /\ call' = [call EXCEPT ![c] = Ended(verdict, a.key, 0)]
            /\ UNCHANGED <<minute, day>>
       ELSE /\ minute' = [minute EXCEPT ![a.key] = limit.minute]
            /\ day' = [day EXCEPT ![u] = limit.day]
            /\ call' = [call EXCEPT ![c] =
                 IF limit.error # "none" THEN Ended(limit.error, a.key, now)
                 ELSE [@ EXCEPT !.pc = "handling", !.key = a.key, !.op = a.op,
                                !.target = a.target, !.at = now]]
  BY DEF Dispatch
<1> DEFINE k == a.key
           u == key[k].owner
           limit == Check(minute[k], day[u], now)
           r == Refill(minute[k], MinuteCapacity, MinuteWindow, now)
           q == Refill(day[u], DayCapacity, DayWindow, now)
           paid == [tokens |-> r.tokens - MinuteWindow, at |-> now]
<1>1. k \in Key /\ u \in User
  BY <1>0, AuthAssumption DEF Row
<1>2. call[c].pc = "idle" /\ UNCHANGED <<key, now>>
  BY DEF Dispatch
<1>3. \A d \in Call \ {c} : call'[d] = call[d]
  BY <1>0
<1>4. CASE Verdict(k) # "limiting"
  <2>1. call'[c] = Ended(Verdict(k), k, 0) /\ UNCHANGED <<minute, day>>
    BY <1>0, <1>4
  <2>2. call'[c].at = 0
    BY <2>1 DEF Ended
  <2> QED
    BY <1>2, <1>3, <2>1, <2>2
<1>5. CASE Verdict(k) = "limiting"
  <2>1. key[k].status # "none"
    BY <1>5 DEF Verdict, Known
  <2>2. /\ minute' = [minute EXCEPT ![k] = limit.minute]
        /\ day' = [day EXCEPT ![u] = limit.day]
        /\ limit.error # "none" => call'[c] = Ended(limit.error, k, now)
        /\ limit.error = "none" => /\ call'[c].pc = "handling" /\ call'[c].key = k
                                   /\ call'[c].at = now
    <3> DEFINE begun == [call[c] EXCEPT !.pc = "handling", !.key = k, !.op = a.op,
                                        !.target = a.target, !.at = now]
    <3>1. /\ minute' = [minute EXCEPT ![k] = limit.minute]
          /\ day' = [day EXCEPT ![u] = limit.day]
          /\ call' = [call EXCEPT ![c] = IF limit.error # "none"
                        THEN Ended(limit.error, k, now) ELSE begun]
      BY <1>5
    <3>2. begun.pc = "handling" /\ begun.key = k /\ begun.at = now
      BY <1>0 DEF CallType
    <3>3. call'[c] = IF limit.error # "none" THEN Ended(limit.error, k, now) ELSE begun
      BY <1>0, <3>1
    <3> HIDE DEF limit, begun, k, u
    <3> QED
      BY <3>1, <3>2, <3>3
  <2>3. limit.error # "none" =>
          call'[c].pc = limit.error /\ call'[c].key = k /\ call'[c].at = now
    BY <2>2 DEF Ended
  <2>4. minute[k] \in Bucket /\ day[u] \in Bucket /\ minute[k].at <= now /\ day[u].at <= now
    BY <1>0, <1>1 DEF Dated
  <2>5. \/ /\ r.tokens < MinuteWindow
           /\ limit.error = "rate_limit_minute" /\ limit.minute = r /\ limit.day = day[u]
        \/ /\ ~(r.tokens < MinuteWindow) /\ q.tokens < DayWindow
           /\ limit.error = "rate_limit_day" /\ limit.minute = paid /\ limit.day = q
        \/ /\ ~(r.tokens < MinuteWindow) /\ ~(q.tokens < DayWindow)
           /\ limit.error = "none" /\ limit.minute = paid
           /\ limit.day = [tokens |-> q.tokens - DayWindow, at |-> now]
    BY <1>0, <2>4, CheckCases
  <2>6. [day EXCEPT ![u] = day[u]] = day
    BY <1>0
  <2> HIDE DEF k, u, limit, r, q
  <2> DEFINE full == [tokens |-> q.tokens - DayWindow, at |-> now]
  <2>7. \/ /\ r.tokens < MinuteWindow
           /\ call'[c].pc = "rate_limit_minute"
           /\ minute' = [minute EXCEPT ![k] = r] /\ day' = day
        \/ /\ ~(r.tokens < MinuteWindow) /\ q.tokens < DayWindow
           /\ call'[c].pc = "rate_limit_day"
           /\ minute' = [minute EXCEPT ![k] = paid]
           /\ day' = [day EXCEPT ![u] = q]
        \/ /\ ~(r.tokens < MinuteWindow) /\ ~(q.tokens < DayWindow)
           /\ call'[c].pc = "handling"
           /\ minute' = [minute EXCEPT ![k] = paid]
           /\ day' = [day EXCEPT ![u] = full]
    <3> HIDE DEF paid, full
    <3>1. \/ /\ r.tokens < MinuteWindow
             /\ limit.error = "rate_limit_minute" /\ limit.minute = r /\ limit.day = day[u]
          \/ /\ ~(r.tokens < MinuteWindow) /\ q.tokens < DayWindow
             /\ limit.error = "rate_limit_day" /\ limit.minute = paid /\ limit.day = q
          \/ /\ ~(r.tokens < MinuteWindow) /\ ~(q.tokens < DayWindow)
             /\ limit.error = "none" /\ limit.minute = paid /\ limit.day = full
      BY <2>5 DEF full
    <3> QED
      BY <2>2, <2>3, <2>6, <3>1
  <2>8. call'[c].key = k /\ call'[c].at = now
    BY <2>2, <2>3
  <2> QED
    BY <1>1, <1>2, <1>3, <2>1, <2>7, <2>8 DEF u, r, q, paid, full
<1> QED
  BY <1>4, <1>5

\* The refusals of the past stay justified: payers are added, never removed.
LEMMA OldRefusals ==
    ASSUME MinuteInv', NEW d \in Call, Justified(d), call'[d] = call[d],
           call[d].key \in Key, call[d].at \in Nat,
           MinutePayers(call[d].key) \subseteq MinutePayers(call[d].key)',
           \A e \in MinutePayers(call[d].key) : Hours'[e] = Hours[e]
    PROVE  Justified(d)'
<1> DEFINE k == call[d].key
           t == call[d].at
           A(from) == Between(MinutePayers(k), Hours, from, t)
           B(from) == Between(MinutePayers(k), Hours, from, t)'
<1>1. PICK from \in 1 .. t :
        Cardinality(A(from)) * MinuteWindow
          > (MinuteCapacity - 1) * MinuteWindow + (t - from) * MinuteCapacity
  BY DEF Justified
<1>2. A(from) \in SUBSET B(from)
  BY DEF Between
<1>3. IsFiniteSet(MinutePayers(k)')
  BY DEF MinuteInv, Covered
<1>4. IsFiniteSet(B(from)) /\ Cardinality(B(from)) \in Nat
  BY <1>3, Counts
<1>5. Cardinality(A(from)) <= Cardinality(B(from)) /\ Cardinality(A(from)) \in Nat
  BY <1>2, <1>4, FS_Subset, FS_CardinalityType
<1>6. Cardinality(A(from)) * MinuteWindow <= Cardinality(B(from)) * MinuteWindow
  BY <1>4, <1>5, WorthMore, LimitAssumption
<1>7. /\ Cardinality(A(from)) * MinuteWindow \in Nat
      /\ Cardinality(B(from)) * MinuteWindow \in Nat
      /\ (MinuteCapacity - 1) * MinuteWindow + (t - from) * MinuteCapacity \in Int
  BY <1>4, <1>5, LimitAssumption
<1>8. Cardinality(B(from)) * MinuteWindow
        > (MinuteCapacity - 1) * MinuteWindow + (t - from) * MinuteCapacity
  <2> HIDE DEF A, B, t
  <2> QED
    BY <1>1, <1>6, <1>7
<1> QED
  BY <1>8 DEF Justified

LEMMA RateDispatch ==
    ASSUME TypeOK, Dated, RateIInv, NEW c \in Call, Dispatch(c)
    PROVE  RateIInv'
<1>0. /\ key \in [Key -> Row] /\ call \in [Call -> CallType] /\ now \in Nat /\ now >= 1
      /\ minute \in [Key -> Bucket] /\ day \in [User -> Bucket]
      /\ key' = key /\ now' = now
  BY DispatchCases DEF TypeOK, CallType, RateIInv
<1>1. call[c].pc = "idle" /\ \A d \in Call \ {c} : call'[d] = call[d]
  BY DispatchCases
<1>2. /\ \A d \in Call \ {c} : Hours'[d] = Hours[d]
      /\ Hours'[c] = call'[c].at
  BY <1>1 DEF Hours
<1>3. ASSUME NEW j
      PROVE  /\ c \notin MinutePayers(j) /\ c \notin DayPayers(j)
             /\ \A d \in MinutePayers(j) : Hours'[d] = Hours[d]
             /\ \A d \in DayPayers(j) : Hours'[d] = Hours[d]
  BY <1>1, <1>2 DEF MinutePayers, DayPayers, ServedStage
<1>4. ASSUME NEW j
      PROVE  /\ call'[c].pc \in ServedStage \cup {"rate_limit_day"} /\ call'[c].at # 0
                  /\ call'[c].key = j => MinutePayers(j)' = MinutePayers(j) \cup {c}
             /\ ~(call'[c].pc \in ServedStage \cup {"rate_limit_day"} /\ call'[c].at # 0
                  /\ call'[c].key = j) => MinutePayers(j)' = MinutePayers(j)
  BY <1>1 DEF MinutePayers, ServedStage
<1>5. ASSUME NEW v
      PROVE  /\ call'[c].pc \in ServedStage /\ call'[c].at # 0
                  /\ key[call'[c].key].owner = v => DayPayers(v)' = DayPayers(v) \cup {c}
             /\ ~(call'[c].pc \in ServedStage /\ call'[c].at # 0
                  /\ key[call'[c].key].owner = v) => DayPayers(v)' = DayPayers(v)
  BY <1>0, <1>1 DEF DayPayers, ServedStage
<1>6. ASSUME MinuteInv', NEW d \in Call, d # c, call'[d].pc = "rate_limit_minute", call'[d].at # 0
      PROVE  Justified(d)'
  <2>1. call'[d] = call[d]
    BY <1>1, <1>6
  <2>2. Justified(d)
    BY <1>6, <2>1 DEF RateIInv, RefusalInv
  <2>3. call[d].key \in Key /\ call[d].at \in Nat
    BY <1>0 DEF CallType
  <2>4. MinutePayers(call[d].key) \subseteq MinutePayers(call[d].key)'
    BY <1>1, <2>1 DEF MinutePayers, ServedStage
  <2> QED
    BY <1>3, <1>6, <2>1, <2>2, <2>3, <2>4, OldRefusals
<1>7. CASE call'[c].at = 0 /\ UNCHANGED <<minute, day>>
  <2>1. MinuteInv'
    BY <1>3, <1>4, <1>7, CoveredAgain DEF MinuteInv, RateIInv
  <2>2. DayInv'
    BY <1>3, <1>5, <1>7, CoveredAgain DEF DayInv, RateIInv
  <2>3. RefusalInv'
    BY <1>6, <1>7, <2>1 DEF RefusalInv
  <2>4. AskedByRow'
    BY <1>0, <1>1, <1>7 DEF AskedByRow, RateIInv
  <2> QED
    BY <1>0, <2>1, <2>2, <2>3, <2>4 DEF RateIInv
<1>8. ASSUME NEW k \in Key,
             LET u == key[k].owner
                 r == Refill(minute[k], MinuteCapacity, MinuteWindow, now)
                 q == Refill(day[u], DayCapacity, DayWindow, now)
                 paid == [tokens |-> r.tokens - MinuteWindow, at |-> now] IN
             /\ call'[c].key = k /\ call'[c].at = now /\ key[k].status # "none"
             /\ \/ /\ r.tokens < MinuteWindow
                   /\ call'[c].pc = "rate_limit_minute"
                   /\ minute' = [minute EXCEPT ![k] = r] /\ day' = day
                \/ /\ ~(r.tokens < MinuteWindow) /\ q.tokens < DayWindow
                   /\ call'[c].pc = "rate_limit_day"
                   /\ minute' = [minute EXCEPT ![k] = paid]
                   /\ day' = [day EXCEPT ![u] = q]
                \/ /\ ~(r.tokens < MinuteWindow) /\ ~(q.tokens < DayWindow)
                   /\ call'[c].pc = "handling"
                   /\ minute' = [minute EXCEPT ![k] = paid]
                   /\ day' = [day EXCEPT ![u] = [tokens |-> q.tokens - DayWindow, at |-> now]]
      PROVE  RateIInv'
  <2> DEFINE u == key[k].owner
             r == Refill(minute[k], MinuteCapacity, MinuteWindow, now)
             q == Refill(day[u], DayCapacity, DayWindow, now)
             paid == [tokens |-> r.tokens - MinuteWindow, at |-> now]
             settled == [tokens |-> q.tokens - DayWindow, at |-> now]
  <2>1. u \in User /\ minute[k] \in Bucket /\ minute[k].at <= now
        /\ day[u] \in Bucket /\ day[u].at <= now
    BY <1>0 DEF Dated, Row
  <2>2. /\ call'[c].key = k /\ call'[c].at = now /\ key[k].status # "none"
        /\ Hours'[c] = now /\ call'[c].at # 0
    BY <1>0, <1>2, <1>8
  <2>3. \/ /\ r.tokens < MinuteWindow
           /\ call'[c].pc = "rate_limit_minute"
           /\ minute' = [minute EXCEPT ![k] = r] /\ day' = day
        \/ /\ ~(r.tokens < MinuteWindow) /\ q.tokens < DayWindow
           /\ call'[c].pc = "rate_limit_day"
           /\ minute' = [minute EXCEPT ![k] = paid]
           /\ day' = [day EXCEPT ![u] = q]
        \/ /\ ~(r.tokens < MinuteWindow) /\ ~(q.tokens < DayWindow)
           /\ call'[c].pc = "handling"
           /\ minute' = [minute EXCEPT ![k] = paid]
           /\ day' = [day EXCEPT ![u] = settled]
    BY <1>8
  <2>4. /\ r \in Bucket /\ r.at = now /\ r.tokens <= MinuteCapacity * MinuteWindow
        /\ r.tokens <= minute[k].tokens + (r.at - minute[k].at) * MinuteCapacity
        /\ \/ r.tokens = MinuteCapacity * MinuteWindow
           \/ r.tokens = minute[k].tokens + (r.at - minute[k].at) * MinuteCapacity
    <3>1. /\ r \in Bucket /\ r.at = now /\ r.tokens <= MinuteCapacity * MinuteWindow
          /\ r.tokens <= minute[k].tokens + (now - minute[k].at) * MinuteCapacity
          /\ \/ r.tokens = MinuteCapacity * MinuteWindow
             \/ r.tokens = minute[k].tokens + (now - minute[k].at) * MinuteCapacity
      BY <1>0, <2>1, RefillFacts, LimitAssumption
    <3> HIDE DEF r
    <3> QED
      BY <3>1
  <2>5. /\ q \in Bucket /\ q.at = now /\ q.tokens <= DayCapacity * DayWindow
        /\ q.tokens <= day[u].tokens + (q.at - day[u].at) * DayCapacity
    <3>1. /\ q \in Bucket /\ q.at = now /\ q.tokens <= DayCapacity * DayWindow
          /\ q.tokens <= day[u].tokens + (now - day[u].at) * DayCapacity
      <4>1. ASSUME NEW d \in Bucket, d.at <= now
            PROVE  LET p == Refill(d, DayCapacity, DayWindow, now) IN
                   /\ p \in Bucket /\ p.at = now /\ p.tokens <= DayCapacity * DayWindow
                   /\ p.tokens <= d.tokens + (now - d.at) * DayCapacity
        BY <1>0, <4>1, RefillFacts, LimitAssumption
      <4> HIDE DEF u
      <4> QED
        BY <4>1, <2>1
    <3> HIDE DEF q
    <3> QED
      BY <3>1
  <2>6. /\ Covered(MinutePayers(k), Hours', r, MinuteCapacity, MinuteWindow)
        /\ Spent(MinutePayers(k), Hours', r, MinuteCapacity, MinuteWindow)
        /\ IsFiniteSet(MinutePayers(k))
    <3>1. /\ Covered(MinutePayers(k), Hours, minute[k], MinuteCapacity, MinuteWindow)
          /\ Spent(MinutePayers(k), Hours, minute[k], MinuteCapacity, MinuteWindow)
      BY DEF RateIInv, MinuteInv
    <3>2. IsFiniteSet(MinutePayers(k))
      BY <3>1 DEF Covered
    <3>3. \A d \in MinutePayers(k) : Hours'[d] = Hours[d]
      BY <1>3
    <3> HIDE DEF r
    <3>4. Covered(MinutePayers(k), Hours', r, MinuteCapacity, MinuteWindow)
      BY <2>1, <2>4, <3>1, <3>3, CoveredRefill, LimitAssumption
    <3>5. Spent(MinutePayers(k), Hours', r, MinuteCapacity, MinuteWindow)
      BY <1>0, <2>1, <2>4, <3>1, <3>2, <3>3, SpentRefill, LimitAssumption
    <3> QED
      BY <3>2, <3>4, <3>5
  <2>7. Covered(DayPayers(u), Hours', q, DayCapacity, DayWindow)
    <3>1. Covered(DayPayers(u), Hours, day[u], DayCapacity, DayWindow)
      BY <2>1 DEF RateIInv, DayInv
    <3>2. \A d \in DayPayers(u) : Hours'[d] = Hours[d]
      BY <1>3
    <3> HIDE DEF q, u
    <3> QED
      BY <2>1, <2>5, <3>1, <3>2, CoveredRefill, LimitAssumption
  <2>8. ASSUME NEW j \in Key, j # k
        PROVE  /\ Covered(MinutePayers(j), Hours, minute[j], MinuteCapacity, MinuteWindow)'
               /\ Spent(MinutePayers(j), Hours, minute[j], MinuteCapacity, MinuteWindow)'
    <3>1. MinutePayers(j)' = MinutePayers(j) /\ minute'[j] = minute[j]
      BY <1>0, <1>4, <2>2, <2>3, <2>8
    <3> QED
      BY <1>3, <3>1, CoveredAgain DEF RateIInv, MinuteInv
  <2>9. ASSUME NEW v \in User, v # u
        PROVE  Covered(DayPayers(v), Hours, day[v], DayCapacity, DayWindow)'
    <3>1. DayPayers(v)' = DayPayers(v) /\ day'[v] = day[v]
      BY <1>0, <1>5, <2>2, <2>3, <2>9
    <3> QED
      BY <1>3, <3>1, CoveredAgain DEF RateIInv, DayInv
  <2>10. /\ Covered(MinutePayers(k), Hours, minute[k], MinuteCapacity, MinuteWindow)'
         /\ Spent(MinutePayers(k), Hours, minute[k], MinuteCapacity, MinuteWindow)'
    <3>1. CASE r.tokens < MinuteWindow
      <4>1. call'[c].pc = "rate_limit_minute" /\ minute'[k] = r
        BY <1>0, <2>3, <3>1
      <4>2. MinutePayers(k)' = MinutePayers(k)
        BY <1>4, <4>1 DEF ServedStage
      <4> QED
        BY <2>6, <4>1, <4>2
    <3>2. CASE ~(r.tokens < MinuteWindow)
      <4>1. call'[c].pc \in {"rate_limit_day", "handling"} /\ minute'[k] = paid
        BY <1>0, <2>3, <3>2
      <4>2. MinutePayers(k)' = MinutePayers(k) \cup {c}
        BY <1>4, <2>2, <4>1 DEF ServedStage
      <4>3. /\ paid \in Bucket /\ paid.at = r.at /\ paid.tokens = r.tokens - MinuteWindow
            /\ r.tokens >= MinuteWindow
        BY <1>0, <2>4, <3>2, LimitAssumption DEF Bucket
      <4>4. c \notin MinutePayers(k) /\ Hours'[c] = r.at
        BY <1>3, <2>2, <2>4
      <4> HIDE DEF r, paid
      <4>5. Covered(MinutePayers(k) \cup {c}, Hours', paid, MinuteCapacity, MinuteWindow)
        BY <2>4, <2>6, <4>3, <4>4, CoveredPay, LimitAssumption
      <4>6. Spent(MinutePayers(k) \cup {c}, Hours', paid, MinuteCapacity, MinuteWindow)
        BY <2>4, <2>6, <4>3, <4>4, SpentPay, LimitAssumption
      <4> QED
        BY <4>1, <4>2, <4>5, <4>6
    <3> QED
      BY <3>1, <3>2
  <2>11. Covered(DayPayers(u), Hours, day[u], DayCapacity, DayWindow)'
    <3>1. CASE r.tokens < MinuteWindow
      <4>1. call'[c].pc = "rate_limit_minute" /\ day' = day
        BY <2>3, <3>1
      <4>2. DayPayers(u)' = DayPayers(u)
        BY <1>0, <1>1, <4>1 DEF DayPayers, ServedStage
      <4>3. Covered(DayPayers(u), Hours, day[u], DayCapacity, DayWindow)
        BY <2>1 DEF RateIInv, DayInv
      <4> QED
        BY <1>0, <1>3, <4>1, <4>2, <4>3, CoveredAgain
    <3>2. CASE ~(r.tokens < MinuteWindow) /\ q.tokens < DayWindow
      <4>1. call'[c].pc = "rate_limit_day" /\ day'[u] = q
        BY <1>0, <2>1, <2>3, <3>2
      <4>2. DayPayers(u)' = DayPayers(u)
        BY <1>0, <1>1, <4>1 DEF DayPayers, ServedStage
      <4> QED
        BY <1>0, <2>7, <4>1, <4>2
    <3>3. CASE ~(r.tokens < MinuteWindow) /\ ~(q.tokens < DayWindow)
      <4>1. call'[c].pc = "handling" /\ day'[u] = settled
        BY <1>0, <2>1, <2>3, <3>3
      <4>2. DayPayers(u)' = DayPayers(u) \cup {c}
        BY <1>0, <1>1, <2>2, <4>1 DEF DayPayers, ServedStage
      <4>3. /\ settled \in Bucket /\ settled.at = q.at /\ settled.tokens = q.tokens - DayWindow
            /\ q.tokens >= DayWindow
        BY <1>0, <2>5, <3>3, LimitAssumption DEF Bucket
      <4>4. c \notin DayPayers(u) /\ Hours'[c] = q.at
        BY <1>3, <2>2, <2>5
      <4>5. u' = u
        BY <1>0
      <4> HIDE DEF q, settled, u
      <4>6. Covered(DayPayers(u) \cup {c}, Hours', settled, DayCapacity, DayWindow)
        BY <2>5, <2>7, <4>3, <4>4, CoveredPay, LimitAssumption
      <4> QED
        BY <4>1, <4>2, <4>5, <4>6
    <3> QED
      BY <3>1, <3>2, <3>3
  <2>12. MinuteInv'
    BY <2>8, <2>10 DEF MinuteInv
  <2>13. DayInv'
    <3>1. u' = u
      BY <1>0
    <3> HIDE DEF u
    <3> QED
      BY <2>9, <2>11, <3>1 DEF DayInv
  <2>14. AskedByRow'
    BY <1>0, <1>1, <2>2 DEF AskedByRow, RateIInv
  <2>15. ASSUME call'[c].pc = "rate_limit_minute" PROVE Justified(c)'
    <3>1. r.tokens < MinuteWindow /\ minute'[k] = r
      BY <1>0, <2>3, <2>15
    <3>2. MinutePayers(k)' = MinutePayers(k)
      BY <1>4, <2>15 DEF ServedStage
    <3> HIDE DEF r
    <3>3. PICK from \in 1 .. now :
            Cardinality(Since(MinutePayers(k), Hours', from)) * MinuteWindow + r.tokens
              >= MinuteCapacity * MinuteWindow + (now - from) * MinuteCapacity
      BY <2>4, <2>6 DEF Spent
    <3>4. Since(MinutePayers(k), Hours', from) = Between(MinutePayers(k), Hours', from, now)
      BY <1>0, <2>4, <2>6 DEF Since, Between, Covered
    <3> DEFINE n == Cardinality(Since(MinutePayers(k), Hours', from))
    <3>5. n \in Nat /\ r.tokens \in Nat
      BY <2>4, <2>6, Counts DEF Bucket
    <3>6. /\ (MinuteCapacity - 1) * MinuteWindow = MinuteCapacity * MinuteWindow - MinuteWindow
          /\ n * MinuteWindow \in Nat /\ MinuteCapacity * MinuteWindow \in Nat
          /\ (now - from) * MinuteCapacity \in Nat
      BY <1>0, <3>5, LimitAssumption
    <3>7. n * MinuteWindow
            > (MinuteCapacity - 1) * MinuteWindow + (now - from) * MinuteCapacity
      <4> HIDE DEF n
      <4> QED
        BY <3>1, <3>3, <3>5, <3>6, LimitAssumption DEF n
    <3> QED
      BY <2>2, <3>2, <3>4, <3>7 DEF Justified
  <2>16. RefusalInv'
    BY <1>6, <2>12, <2>15 DEF RefusalInv
  <2> QED
    BY <1>0, <2>12, <2>13, <2>14, <2>16 DEF RateIInv
<1> QED
  BY <1>7, <1>8, DispatchCases

LEMMA RateStep == TypeOK /\ Dated /\ LiveIInv /\ RateIInv /\ [Next]_vars => RateIInv'
<1> SUFFICES ASSUME TypeOK, Dated, LiveIInv, RateIInv, [Next]_vars PROVE RateIInv'
  OBVIOUS
<1>1. ASSUME NEW c \in Call, Dispatch(c) PROVE RateIInv'
  BY <1>1, RateDispatch
<1>2. ASSUME NEW c \in Call,
             \/ Expire(c) \/ Serve(c) \/ CreateKey(c) \/ FindTarget(c)
             \/ Rotate(c) \/ Revoke(c) \/ Raise(c)
      PROVE  RateIInv'
  <2>1. /\ minute' = minute /\ day' = day /\ now' = now
        /\ \A d \in Call :
             /\ call'[d].at = call[d].at /\ call'[d].key = call[d].key
             /\ \/ call'[d].pc = call[d].pc
                \/ call[d].pc \in ServedStage /\ call'[d].pc \in ServedStage
                \/ call[d].pc = "expiring" /\ call'[d].pc = "refused"
        /\ \A k \in Key : key[k].status # "none" =>
             key'[k].status # "none" /\ key'[k].owner = key[k].owner
    BY <1>2, RoutesAreQuiet
  <2> QED
    BY <2>1, QuietStep
<1>3. CASE Tick
  <2>1. now \in Nat /\ now' = now + 1 /\ UNCHANGED <<key, call, minute, day>>
    BY <1>3 DEF Tick, TypeOK
  <2>2. MinuteInv' /\ DayInv' /\ RefusalInv' /\ AskedByRow'
    BY <2>1 DEF RateIInv, MinuteInv, DayInv, RefusalInv, AskedByRow, Justified, MinutePayers,
                DayPayers, Hours
  <2> QED
    BY <2>1, <2>2 DEF RateIInv
<1>4. CASE Restart
  <2>1. /\ now' = now /\ now \in Nat /\ now >= 1
        /\ \A c \in Call : call'[c].at = 0
        /\ minute' = [k \in Key |-> FullBucket(MinuteCapacity, MinuteWindow, now)]
        /\ day' = [u \in User |-> FullBucket(DayCapacity, DayWindow, now)]
    BY <1>4 DEF Restart, Ended, TypeOK, RateIInv
  <2>2. ASSUME NEW k \in Key PROVE MinutePayers(k)' = {}
    BY <2>1 DEF MinutePayers
  <2>3. ASSUME NEW u \in User PROVE DayPayers(u)' = {}
    BY <2>1 DEF DayPayers
  <2>4. MinuteInv'
    BY <2>1, <2>2, FullCovers, LimitAssumption DEF MinuteInv
  <2>5. DayInv'
    BY <2>1, <2>3, FullCovers, LimitAssumption DEF DayInv
  <2> QED
    BY <2>1, <2>4, <2>5 DEF RateIInv, RefusalInv, AskedByRow
<1>5. CASE UNCHANGED vars
  BY <1>5 DEF vars, RateIInv, MinuteInv, DayInv, RefusalInv, AskedByRow, Justified, MinutePayers,
              DayPayers, Hours
<1> QED
  BY <1>1, <1>2, <1>3, <1>4, <1>5 DEF Next

LEMMA RateInvariant == Spec => [](TypeOK /\ Dated /\ RateIInv)
  BY TypeInit, TypeStep, LiveInit, LiveStep, RateInit, RateStep, PTL DEF Spec

\* The rate limits of one process: in any stretch of time it admits no more
\* requests of a key, or of a user, than the bucket holds and is refilled.
THEOREM RatesAreBounded == Spec => []RateBounded
<1>1. TypeOK /\ RateIInv => RateBounded
  <2> SUFFICES ASSUME TypeOK, RateIInv, NEW from \in 1 .. now, NEW to \in 1 .. now, from <= to
               PROVE  /\ \A k \in Key :
                           Cardinality({c \in Admitted(from, to) : call[c].key = k}) * MinuteWindow
                             <= (MinuteWindow + to - from) * MinuteCapacity
                      /\ \A u \in User :
                           Cardinality({c \in Admitted(from, to) : key[call[c].key].owner = u})
                               * DayWindow
                             <= (DayWindow + to - from) * DayCapacity
    BY DEF RateBounded
  <2>0. /\ now \in Nat /\ from \in Nat \ {0} /\ to \in Nat \ {0}
        /\ minute \in [Key -> Bucket] /\ day \in [User -> Bucket]
    BY DEF TypeOK
  <2>a. ASSUME NEW S, IsFiniteSet(S), NEW A, A \in SUBSET Between(S, Hours, from, to),
               NEW c \in Nat \ {0}, NEW w \in Nat \ {0},
               Cardinality(Between(S, Hours, from, to)) * w <= (w + to - from) * c
        PROVE  Cardinality(A) * w <= (w + to - from) * c
    <3> DEFINE n == Cardinality(Between(S, Hours, from, to))
               m == Cardinality(A)
    <3>1. n \in Nat /\ IsFiniteSet(Between(S, Hours, from, to))
      BY <2>a, Counts
    <3>2. m \in Nat /\ m <= n
      BY <2>a, <3>1, FS_Subset, FS_CardinalityType
    <3>3. m * w <= n * w
      BY <3>1, <3>2, WorthMore
    <3>4. m * w \in Nat /\ n * w \in Nat /\ (w + to - from) * c \in Nat
      BY <2>0, <3>1, <3>2
    <3> HIDE DEF n, m
    <3> QED
      BY <2>a, <3>3, <3>4 DEF n, m
  <2>1. ASSUME NEW k \in Key
        PROVE  Cardinality({c \in Admitted(from, to) : call[c].key = k}) * MinuteWindow
                 <= (MinuteWindow + to - from) * MinuteCapacity
    <3> DEFINE S == MinutePayers(k)
    <3>1. Covered(S, Hours, minute[k], MinuteCapacity, MinuteWindow)
      BY DEF RateIInv, MinuteInv
    <3>2. {c \in Admitted(from, to) : call[c].key = k} \in SUBSET Between(S, Hours, from, to)
      BY DEF Admitted, Between, MinutePayers, ServedStage, Hours
    <3>3. Cardinality(Between(S, Hours, from, to)) * MinuteWindow
            <= (MinuteWindow + to - from) * MinuteCapacity
      BY <2>0, <3>1, CoveredWithin, LimitAssumption
    <3>4. IsFiniteSet(S)
      BY <3>1 DEF Covered
    <3> HIDE DEF S
    <3> QED
      BY <2>a, <3>2, <3>3, <3>4, LimitAssumption
  <2>2. ASSUME NEW u \in User
        PROVE  Cardinality({c \in Admitted(from, to) : key[call[c].key].owner = u}) * DayWindow
                 <= (DayWindow + to - from) * DayCapacity
    <3> DEFINE S == DayPayers(u)
    <3>1. Covered(S, Hours, day[u], DayCapacity, DayWindow)
      BY DEF RateIInv, DayInv
    <3>2. {c \in Admitted(from, to) : key[call[c].key].owner = u}
            \in SUBSET Between(S, Hours, from, to)
      BY DEF Admitted, Between, DayPayers, ServedStage, Hours
    <3>3. Cardinality(Between(S, Hours, from, to)) * DayWindow
            <= (DayWindow + to - from) * DayCapacity
      BY <2>0, <3>1, CoveredWithin, LimitAssumption
    <3>4. IsFiniteSet(S)
      BY <3>1 DEF Covered
    <3> HIDE DEF S
    <3> QED
      BY <2>a, <3>2, <3>3, <3>4, LimitAssumption
  <2> QED
    BY <2>1, <2>2
<1> QED
  BY <1>1, RateInvariant, PTL

\* A minute bucket refuses a key only when it has been paid all that it held at
\* some moment and all that came in since.
THEOREM RefusalsAreEarned == Spec => []RefusedOnlyAtRate
<1>1. TypeOK /\ RateIInv => RefusedOnlyAtRate
  <2> SUFFICES ASSUME TypeOK, RateIInv, NEW c \in Call,
                      call[c].pc = "rate_limit_minute", call[c].at # 0
               PROVE  \E from \in 1 .. call[c].at :
                        Cardinality({d \in Charged(from, call[c].at) : call[d].key = call[c].key})
                            * MinuteWindow
                          > (MinuteCapacity - 1) * MinuteWindow
                              + (call[c].at - from) * MinuteCapacity
    BY DEF RefusedOnlyAtRate
  <2>1. PICK from \in 1 .. call[c].at :
          Cardinality(Between(MinutePayers(call[c].key), Hours, from, call[c].at)) * MinuteWindow
            > (MinuteCapacity - 1) * MinuteWindow + (call[c].at - from) * MinuteCapacity
    BY DEF RateIInv, RefusalInv, Justified
  <2>2. {d \in Charged(from, call[c].at) : call[d].key = call[c].key}
          = Between(MinutePayers(call[c].key), Hours, from, call[c].at)
    BY DEF Charged, Admitted, Between, MinutePayers, ServedStage, Hours
  <2> QED
    BY <2>1, <2>2
<1> QED
  BY <1>1, RateInvariant, PTL
=============================================================================
