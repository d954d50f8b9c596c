----------------------------- MODULE FunnelProofs -----------------------------
(***************************************************************************)
(* Proofs about a visitor's way in: the anonymous extraction and the login *)
(* that a claim of it starts from.                                         *)
(*   AnonymousExtraction, for any number of requests, claims, tokens and   *)
(*   days: a claimed row and its extraction agree, and the default cap of  *)
(*   one extraction per IP and day is respected.                           *)
(*   WebSession, for any number of magic links and redemptions on either   *)
(*   engine: a link mints one key, the session rows and the active keys    *)
(*   agree, an address is granted its onboarding credit once and, on       *)
(*   SQLite, a user has one active session key.                            *)
(***************************************************************************)
EXTENDS AnonymousExtraction, WebSession, FiniteSetTheorems, TLAPS

-----------------------------------------------------------------------------
(* AnonymousExtraction: types. *)

LEMMA FunnelTypeInit == FunnelInit => FunnelTypeOK
  BY FunnelAssumption DEF FunnelInit, FunnelTypeOK, Day, Age, ReqStep, ReqState

LEMMA FunnelTypeStep == FunnelTypeOK /\ [FunnelNext]_funnelVars => FunnelTypeOK'
<1> SUFFICES ASSUME FunnelTypeOK, [FunnelNext]_funnelVars PROVE FunnelTypeOK'
  OBVIOUS
<1> USE FunnelAssumption DEF FunnelTypeOK, Day, Age, counters, rows
<1>1. ASSUME NEW r \in Request, Arrive(r) \/ ReadCounter(r) \/ Limit(r) PROVE FunnelTypeOK'
  <2>1. req[r] \in ReqState /\ count[req[r].day] \in Nat
    BY DEF ReqState
  <2>2. PICK q \in ReqState : req' = [req EXCEPT ![r] = q]
    <3>1. CASE Arrive(r)
      BY <2>1, <3>1 DEF Arrive, ReqState, ReqStep
    <3>2. CASE ReadCounter(r)
      BY <2>1, <3>2 DEF ReadCounter, ReqState, ReqStep
    <3>3. CASE Limit(r)
      BY <2>1, <3>3 DEF Limit, MoveTo, ReqState, ReqStep
    <3> QED
      BY <1>1, <3>1, <3>2, <3>3
  <2> QED
    BY <1>1, <2>2 DEF Arrive, ReadCounter, Limit
<1>2. ASSUME NEW r \in Request, InsertCounter(r) \/ Increment(r) PROVE FunnelTypeOK'
  <2>1. req[r] \in ReqState
    OBVIOUS
  <2>2. PICK q \in ReqState : req' = [req EXCEPT ![r] = q]
    BY <1>2, <2>1 DEF InsertCounter, Increment, MoveTo, ReqState, ReqStep
  <2>3. count' \in [Day -> Nat]
    <3>1. req[r].seen + 1 \in Nat /\ req[r].day \in Day
      BY <2>1 DEF ReqState
    <3>2. CASE InsertCounter(r)
      BY <3>2 DEF InsertCounter
    <3>3. CASE Increment(r)
      BY <3>1, <3>3 DEF Increment
    <3> QED
      BY <1>2, <3>2, <3>3
  <2> QED
    BY <1>2, <2>2, <2>3 DEF InsertCounter, Increment
<1>3. ASSUME NEW r \in Request, Classify(r) \/ GiveUp(r) PROVE FunnelTypeOK'
  <2>1. req[r] \in ReqState
    OBVIOUS
  <2>2. PICK q \in ReqState : req' = [req EXCEPT ![r] = q]
    BY <1>3, <2>1 DEF Classify, GiveUp, MoveTo, ReqState, ReqStep
  <2> QED
    BY <1>3, <2>2 DEF Classify, GiveUp
<1>4. ASSUME NEW r \in Request, Insert(r) PROVE FunnelTypeOK'
  <2> DEFINE more == [req[r] EXCEPT !.attempts = @ + 1]
             taken == [req[r] EXCEPT !.attempts = @ + 1, !.collisions = @ + 1]
             done == [req[r] EXCEPT !.pc = "accepted"]
  <2>1. more \in ReqState /\ taken \in ReqState /\ done \in ReqState
    <3>1. req[r] \in ReqState /\ req[r].attempts < 3
      BY <1>4 DEF Insert
    <3>2. req[r].attempts + 1 \in 0..3 /\ req[r].collisions + 1 \in Nat
      BY <3>1 DEF ReqState
    <3> QED
      BY <3>1, <3>2 DEF ReqState, ReqStep
  <2>2. UNCHANGED <<cap, today, count, claim>>
    BY <1>4 DEF Insert
  <2>3. \/ UNCHANGED rows
        \/ \E t \in Token :
             /\ registry' = [registry EXCEPT ![t] = r]
             /\ status' = [status EXCEPT ![t] = "pending"]
             /\ age' = [age EXCEPT ![t] = "fresh"]
             /\ owner' = [owner EXCEPT ![r] = Service]
             /\ claimed' = claimed
    BY <1>4 DEF Insert
  <2>4. req' \in {[req EXCEPT ![r] = more], [req EXCEPT ![r] = taken], [req EXCEPT ![r] = done]}
    BY <1>4 DEF Insert, MoveTo
  <2> HIDE DEF more, taken, done
  <2>5. req' \in [Request -> ReqState]
    BY <2>1, <2>4
  <2>6. CASE UNCHANGED rows
    BY <2>2, <2>5, <2>6
  <2>7. ASSUME NEW t \in Token,
               registry' = [registry EXCEPT ![t] = r],
               status' = [status EXCEPT ![t] = "pending"],
               age' = [age EXCEPT ![t] = "fresh"],
               owner' = [owner EXCEPT ![r] = Service],
               claimed' = claimed
        PROVE  FunnelTypeOK'
    BY <2>2, <2>5, <2>7
  <2> QED
    BY <2>3, <2>6, <2>7
<1>5. ASSUME NEW c \in Claim, FindClaim(c) PROVE FunnelTypeOK'
  BY <1>5 DEF FindClaim
<1>6. ASSUME NEW c \in Claim, Rebind(c) PROVE FunnelTypeOK'
  BY <1>6 DEF Rebind
<1>7. ASSUME NEW t \in Token, AgeRow(t) PROVE FunnelTypeOK'
  BY <1>7 DEF AgeRow
<1>8. ASSUME Midnight \/ Reap PROVE FunnelTypeOK'
  BY <1>8 DEF Midnight, Reap
<1>9. ASSUME UNCHANGED funnelVars PROVE FunnelTypeOK'
  BY <1>9 DEF funnelVars
<1> QED
  BY <1>1, <1>2, <1>3, <1>4, <1>5, <1>6, <1>7, <1>8, <1>9 DEF FunnelNext

\* The type invariant of the funnel.
THEOREM FunnelTypeCorrect == FunnelSpec => []FunnelTypeOK
  BY FunnelTypeInit, FunnelTypeStep, PTL DEF FunnelSpec
-----------------------------------------------------------------------------
(* Claims. *)

\* A request inserts one row and is over; a claim between its two steps has a
\* live row to bind; a deleted row takes its claim along.
RowsIInv ==
    /\ \A t \in Token : registry[t] # NoOne => req[registry[t]].pc = "accepted"
    /\ \A t, u \in Token : registry[t] # NoOne /\ registry[t] = registry[u] => t = u
    /\ \A c \in Claim : claim[c].pc = "found" =>
         registry[claim[c].token] # NoOne /\ age[claim[c].token] # "ancient"
    /\ \A t \in claimed : registry[t] # NoOne
    /\ ClaimedIsRebound

LEMMA FunnelRowsInit == FunnelInit => RowsIInv
  BY DEF FunnelInit, RowsIInv, ClaimedIsRebound

LEMMA FunnelRowsStep == FunnelTypeOK /\ RowsIInv /\ [FunnelNext]_funnelVars => RowsIInv'
<1> SUFFICES ASSUME FunnelTypeOK, RowsIInv, [FunnelNext]_funnelVars PROVE RowsIInv'
  OBVIOUS
<1> USE FunnelAssumption DEF FunnelTypeOK, RowsIInv, ClaimedIsRebound, counters, rows
\* A step of a request that is not accepted, and that leaves the rows alone.
<1>0. ASSUME NEW r \in Request, NEW q, req[r].pc # "accepted",
             req' = [req EXCEPT ![r] = q], UNCHANGED <<rows, claim>>
      PROVE  RowsIInv'
  <2>1. \A s \in Request : req[s].pc = "accepted" => req'[s].pc = "accepted"
    BY <1>0
  <2> QED
    BY <1>0, <2>1
<1>1. ASSUME NEW r \in Request,
             \/ Arrive(r) \/ ReadCounter(r) \/ InsertCounter(r) \/ Limit(r)
             \/ Increment(r) \/ Classify(r) \/ GiveUp(r)
      PROVE  RowsIInv'
  <2>1. /\ req[r].pc # "accepted" /\ UNCHANGED <<rows, claim>>
        /\ \E q : req' = [req EXCEPT ![r] = q]
    BY <1>1 DEF Arrive, ReadCounter, InsertCounter, Limit, Increment, Classify, GiveUp, MoveTo
  <2> QED
    BY <1>0, <2>1
<1>2. ASSUME NEW r \in Request, Insert(r) PROVE RowsIInv'
  <2>1. req[r].pc = "insert" /\ claim' = claim
    BY <1>2 DEF Insert
  <2>2. CASE UNCHANGED rows
    <3>1. \E q : req' = [req EXCEPT ![r] = q]
      BY <1>2 DEF Insert, MoveTo
    <3> QED
      BY <1>0, <2>1, <2>2, <3>1
  <2>3. ASSUME NEW t \in Token, registry[t] = NoOne,
               registry' = [registry EXCEPT ![t] = r],
               status' = [status EXCEPT ![t] = "pending"],
               age' = [age EXCEPT ![t] = "fresh"],
               owner' = [owner EXCEPT ![r] = Service],
               MoveTo(r, "accepted"), claimed' = claimed
        PROVE  RowsIInv'
    <3>1. req'[r].pc = "accepted" /\ \A s \in Request : s # r => req'[s] = req[s]
      BY <2>3 DEF MoveTo, ReqState
    <3>2. t \notin claimed /\ \A u \in Token : registry[u] # r
      BY <2>1, <2>3
    <3>3. \A u \in Token : u # t => registry'[u] = registry[u] /\ status'[u] = status[u]
                                   /\ age'[u] = age[u]
      BY <2>3
    <3>4. \A u \in Token : u # t /\ registry[u] # NoOne => owner'[registry[u]] = owner[registry[u]]
      BY <2>3, <3>2
    <3>5. registry'[t] = r /\ owner'[r] = Service /\ status'[t] = "pending" /\ age'[t] = "fresh"
      BY <2>3
    <3>6. \A u \in Token : registry'[u] # NoOne => req'[registry'[u]].pc = "accepted"
      BY <3>1, <3>3, <3>5
    <3>7. \A u, v \in Token : registry'[u] # NoOne /\ registry'[u] = registry'[v] => u = v
      BY <3>2, <3>3, <3>5
    <3>8. \A c \in Claim : claim'[c].pc = "found" =>
            registry'[claim'[c].token] # NoOne /\ age'[claim'[c].token] # "ancient"
      BY <2>1, <3>3, <3>5
    <3>9. \A u \in claimed' : registry'[u] # NoOne
      BY <2>3, <3>2, <3>3
    <3>10. ASSUME NEW u \in Token, registry'[u] # NoOne
           PROVE  /\ u \in claimed' <=> owner'[registry'[u]] # Service
                  /\ u \in claimed' <=> status'[u] = "claimed"
                  /\ u \in claimed' => \E d \in Claim :
                       claim'[d] = [pc |-> "ok", token |-> u] /\ owner'[registry'[u]] = d
      <4>1. CASE u = t
        BY <2>3, <3>2, <3>5, <4>1
      <4>2. CASE u # t
        <5>1. registry'[u] = registry[u] /\ status'[u] = status[u] /\ registry[u] # NoOne
              /\ owner'[registry'[u]] = owner[registry[u]] /\ claimed' = claimed /\ claim' = claim
          BY <2>1, <2>3, <3>3, <3>4, <3>10, <4>2
        <5> QED
          BY <5>1
      <4> QED
        BY <4>1, <4>2
    <3>11. ClaimedIsRebound'
      BY <3>10 DEF ClaimedIsRebound
    <3> QED
      BY <3>6, <3>7, <3>8, <3>9, <3>11
  <2> QED
    BY <1>2, <2>2, <2>3 DEF Insert
<1>3. ASSUME NEW c \in Claim, FindClaim(c) PROVE RowsIInv'
  <2>1. claim[c].pc = "idle" /\ UNCHANGED <<rows, req>>
    BY <1>3 DEF FindClaim
  <2>2. \A d \in Claim : claim[d].pc = "ok" => claim'[d] = claim[d]
    BY <1>3, <2>1 DEF FindClaim
  <2>3. \A d \in Claim : claim'[d].pc = "found" =>
            registry[claim'[d].token] # NoOne /\ age[claim'[d].token] # "ancient"
    BY <1>3 DEF FindClaim
  <2>4. ASSUME NEW u \in Token, registry'[u] # NoOne
        PROVE  /\ u \in claimed' <=> owner'[registry'[u]] # Service
               /\ u \in claimed' <=> status'[u] = "claimed"
               /\ u \in claimed' => \E d \in Claim :
                    claim'[d] = [pc |-> "ok", token |-> u] /\ owner'[registry'[u]] = d
    <3>1. registry' = registry /\ owner' = owner /\ claimed' = claimed /\ status' = status
      BY <2>1
    <3>2. u \in claimed => \E d \in Claim :
             claim'[d] = [pc |-> "ok", token |-> u] /\ owner[registry[u]] = d
      BY <2>2, <2>4, <3>1
    <3> QED
      BY <2>4, <3>1, <3>2
  <2>5. ClaimedIsRebound'
    BY <2>4 DEF ClaimedIsRebound
  <2> QED
    BY <2>1, <2>3, <2>5
<1>4. ASSUME NEW c \in Claim, Rebind(c) PROVE RowsIInv'
  <2> DEFINE t == claim[c].token
             r == registry[t]
  <2>1. /\ claim[c].pc = "found" /\ t \in Token /\ r \in Request /\ r # NoOne
        /\ owner' = [owner EXCEPT ![r] = c] /\ claimed' = claimed \cup {t}
        /\ status' = [status EXCEPT ![t] = "claimed"]
        /\ UNCHANGED <<req, registry, age>>
    BY <1>4 DEF Rebind
  <2>2. claim'[c] = [pc |-> "ok", token |-> t] /\ \A d \in Claim : d # c => claim'[d] = claim[d]
    BY <1>4 DEF Rebind
  <2>3. ASSUME NEW u \in Token, registry'[u] # NoOne
        PROVE  /\ u \in claimed' <=> owner'[registry'[u]] # Service
               /\ u \in claimed' <=> status'[u] = "claimed"
               /\ u \in claimed' => \E d \in Claim :
                    claim'[d] = [pc |-> "ok", token |-> u] /\ owner'[registry'[u]] = d
    <3>1. CASE u = t
      BY <2>1, <2>2, <3>1
    <3>2. CASE u # t
      <4>1. registry[u] # r
        BY <2>1, <2>3, <3>2
      <4>2. owner'[registry[u]] = owner[registry[u]] /\ status'[u] = status[u]
            /\ (u \in claimed' <=> u \in claimed)
        BY <2>1, <2>3, <3>2, <4>1
      <4> QED
        BY <2>1, <2>2, <2>3, <4>2
    <3> QED
      BY <3>1, <3>2
  <2>4. ClaimedIsRebound'
    BY <2>3 DEF ClaimedIsRebound
  <2>5. \A d \in Claim : claim'[d].pc = "found" => claim'[d] = claim[d]
    BY <2>2
  <2>6. \A d \in Claim : claim'[d].pc = "found" =>
            registry'[claim'[d].token] # NoOne /\ age'[claim'[d].token] # "ancient"
    BY <2>1, <2>5
  <2>7. \A u \in claimed' : registry'[u] # NoOne
    BY <2>1
  <2> HIDE DEF t, r
  <2> QED
    BY <2>1, <2>4, <2>6, <2>7
<1>5. ASSUME NEW t \in Token, AgeRow(t) PROVE RowsIInv'
  BY <1>5 DEF AgeRow
<1>6. ASSUME Reap PROVE RowsIInv'
  <2>1. \A u \in Token : registry'[u] # NoOne =>
          /\ registry'[u] = registry[u] /\ age[u] # "ancient"
          /\ (u \in claimed' <=> u \in claimed)
          /\ (status'[u] = "claimed" <=> status[u] = "claimed")
    BY <1>6 DEF Reap
  <2>2. UNCHANGED <<req, owner, age, claim>>
    BY <1>6 DEF Reap
  <2>3. ASSUME NEW u \in Token, registry'[u] # NoOne
        PROVE  /\ u \in claimed' <=> owner'[registry'[u]] # Service
               /\ u \in claimed' <=> status'[u] = "claimed"
               /\ u \in claimed' => \E d \in Claim :
                    claim'[d] = [pc |-> "ok", token |-> u] /\ owner'[registry'[u]] = d
    BY <2>1, <2>2, <2>3
  <2>6. ClaimedIsRebound'
    BY <2>3 DEF ClaimedIsRebound
  <2>4. \A c \in Claim : claim'[c].pc = "found" =>
          registry'[claim'[c].token] # NoOne /\ age'[claim'[c].token] # "ancient"
    BY <1>6, <2>2 DEF Reap
  <2>5. \A u \in claimed' : registry'[u] # NoOne
    BY <1>6 DEF Reap
  <2> QED
    BY <2>1, <2>2, <2>6, <2>4, <2>5
<1>7. ASSUME Midnight \/ UNCHANGED funnelVars PROVE RowsIInv'
  BY <1>7 DEF Midnight, funnelVars
<1> QED
  BY <1>1, <1>2, <1>3, <1>4, <1>5, <1>6, <1>7 DEF FunnelNext

\* Whatever claims race with each other and with the reaper, a live row is
\* marked claimed exactly when its extraction belongs to an account whose claim
\* was answered with success.
THEOREM ClaimsAndOwnersAgree == FunnelSpec => []ClaimedIsRebound
<1>1. RowsIInv => ClaimedIsRebound
  BY DEF RowsIInv
<1> QED
  BY <1>1, FunnelTypeInit, FunnelTypeStep, FunnelRowsInit, FunnelRowsStep, PTL DEF FunnelSpec

-----------------------------------------------------------------------------
(* The default cap. *)

\* A day without a counter row has let nothing through; no day more than one.
OneADay ==
    cap = 1 => \A d \in Day :
        /\ count[d] = 0 => Allowed(d) = {}
        /\ \A r, s \in Allowed(d) : r = s

LEMMA OneADayInit == FunnelInit => OneADay
  BY DEF FunnelInit, OneADay, Allowed

LEMMA OneADayStep == FunnelTypeOK /\ OneADay /\ [FunnelNext]_funnelVars => OneADay'
<1> SUFFICES ASSUME FunnelTypeOK, OneADay, [FunnelNext]_funnelVars, cap' = 1 PROVE OneADay'
  BY DEF OneADay
<1>02. cap = 1
  BY DEF FunnelNext, funnelVars, counters, Arrive, ReadCounter, InsertCounter, Limit, Increment, Classify,
         Insert, GiveUp, FindClaim, Rebind, AgeRow, Midnight, Reap
<1> DEFINE Passed(q) == q.pc \in {"classify", "insert", "out_of_scope", "accepted",
                                  "claim_token_collision"}
<1>0. \A d \in Day : Allowed(d) = {r \in Request : req[r].day = d /\ Passed(req[r])}
  BY DEF Allowed
<1>01. \A d \in Day : Allowed(d)' = {r \in Request : req'[r].day = d /\ Passed(req'[r])}
  BY DEF Allowed
\* A step after which no further request has passed.
<1>1. ASSUME count' = count,
             \A r \in Request : Passed(req'[r]) => Passed(req[r]) /\ req'[r].day = req[r].day
      PROVE  OneADay'
  <2>1. \A d \in Day : Allowed(d)' \subseteq Allowed(d)
    BY <1>0, <1>01, <1>1
  <2> QED
    BY <1>1, <2>1, <1>02 DEF OneADay
<1>2. ASSUME NEW r \in Request, Arrive(r) \/ ReadCounter(r) \/ Limit(r) PROVE OneADay'
  <2>1. /\ count' = count /\ \A s \in Request : s # r => req'[s] = req[s]
        /\ ~Passed(req'[r])
    BY <1>2 DEF Arrive, ReadCounter, Limit, MoveTo, counters, FunnelTypeOK, ReqState
  <2> QED
    BY <1>1, <2>1
<1>3. ASSUME NEW r \in Request, InsertCounter(r) PROVE OneADay'
  <2>1. CASE count[req[r].day] # 0
    <3>1. /\ count' = count /\ \A s \in Request : s # r => req'[s] = req[s]
          /\ ~Passed(req'[r])
      BY <1>3, <2>1 DEF InsertCounter, MoveTo, FunnelTypeOK, ReqState
    <3> QED
      BY <1>1, <3>1
  <2>2. CASE count[req[r].day] = 0
    <3>1. /\ count' = [count EXCEPT ![req[r].day] = 1] /\ req[r].day \in Day
          /\ \A s \in Request : s # r => req'[s] = req[s]
          /\ req'[r].day = req[r].day
      BY <1>3, <2>2 DEF InsertCounter, MoveTo, FunnelTypeOK, ReqState
    <3>2. ASSUME NEW d \in Day, d # req[r].day
          PROVE  Allowed(d)' \subseteq Allowed(d)
      BY <3>1, <3>2, <1>0, <1>01
    <3>3. Allowed(req[r].day) = {}
      BY <2>2, <3>1, <1>02 DEF OneADay
    <3>4. \A s \in Request : s # r => ~(req'[s].day = req[r].day /\ Passed(req'[s]))
      BY <3>1, <3>3, <1>0
    <3>5. \A d \in Day : d = req[r].day => \A s \in Allowed(d)' : s = r
      BY <3>4, <1>01
    <3>6. \A d \in Day : d # req[r].day => count'[d] = count[d]
      BY <3>1 DEF FunnelTypeOK
    <3>7. \A d \in Day : d = req[r].day => count'[d] = 1
      BY <3>1 DEF FunnelTypeOK
    <3>8. ASSUME NEW d \in Day
          PROVE  (count'[d] = 0 => Allowed(d)' = {}) /\ \A s, u \in Allowed(d)' : s = u
      <4>1. CASE d = req[r].day
        BY <3>5, <3>7, <4>1
      <4>2. CASE d # req[r].day
        BY <3>2, <3>6, <4>2, <1>02 DEF OneADay
      <4> QED
        BY <4>1, <4>2
    <3> QED
      BY <3>8 DEF OneADay
  <2> QED
    BY <2>1, <2>2
<1>4. ASSUME NEW r \in Request, Increment(r) PROVE FALSE
  BY <1>4, <1>02 DEF Increment, FunnelTypeOK, ReqState
<1>5. ASSUME NEW r \in Request, Classify(r) \/ Insert(r) \/ GiveUp(r) PROVE OneADay'
  <2>1. /\ count' = count /\ Passed(req[r]) /\ \A s \in Request : s # r => req'[s] = req[s]
        /\ req'[r].day = req[r].day
    BY <1>5 DEF Classify, Insert, GiveUp, MoveTo, counters, FunnelTypeOK, ReqState
  <2> QED
    BY <1>1, <2>1
<1>6. ASSUME \/ \E c \in Claim : FindClaim(c) \/ Rebind(c)
             \/ \E t \in Token : AgeRow(t)
             \/ Midnight \/ Reap \/ UNCHANGED funnelVars
      PROVE  OneADay'
  <2>1. count' = count /\ req' = req
    BY <1>6 DEF FindClaim, Rebind, AgeRow, Midnight, Reap, funnelVars, counters
  <2> QED
    BY <1>1, <2>1
<1> QED
  BY <1>2, <1>3, <1>4, <1>5, <1>6 DEF FunnelNext

\* With the default cap, UNIQUE (ip_hash, day) alone keeps an IP to one
\* extraction a day, however many requests race.
THEOREM DefaultCapHolds == FunnelSpec => []CapRespected
<1>1. OneADay => CapRespected
  <2> SUFFICES ASSUME OneADay, cap = 1, NEW d \in Day PROVE Cardinality(Allowed(d)) <= 1
    BY DEF CapRespected
  <2>1. CASE Allowed(d) = {}
    BY <2>1, FS_EmptySet
  <2>2. CASE Allowed(d) # {}
    <3>1. PICK r : r \in Allowed(d)
      BY <2>2
    <3>2. Allowed(d) = {r}
      BY <3>1 DEF OneADay
    <3>3. Cardinality({r}) = 1
      BY FS_Singleton, Zenon
    <3> QED
      BY <3>2, <3>3
  <2> QED
    BY <2>1, <2>2
<1> QED
  BY <1>1, FunnelTypeInit, FunnelTypeStep, OneADayInit, OneADayStep, PTL DEF FunnelSpec

-----------------------------------------------------------------------------
(* WebSession: types. *)

LEMMA TypeInit == Init => TypeOK
<1> SUFFICES ASSUME Init PROVE TypeOK
  OBVIOUS
<1>1. \A a \in Redeem : redeem[a] \in [pc : Step, link : Link, old : Redeem \cup {NoKey},
                                      creates : BOOLEAN]
  BY DEF Init, Step
<1>2. redeem \in [Redeem -> [pc : Step, link : Link, old : Redeem \cup {NoKey},
                             creates : BOOLEAN]]
  BY <1>1 DEF Init
<1> QED
  BY <1>2 DEF Init, TypeOK, LinkState

LEMMA TypeStep == TypeOK /\ [Next]_vars => TypeOK'
<1> SUFFICES ASSUME TypeOK, [Next]_vars PROVE TypeOK'
  OBVIOUS
<1> USE DEF TypeOK, login, committed, Goto
<1>1. ASSUME NEW l \in Link, CheckCooldown(l) \/ MintLink(l) \/ GrowOld(l)
      PROVE  TypeOK'
  BY <1>1 DEF CheckCooldown, MintLink, GrowOld, LinkState
<1>2. ASSUME NEW a \in Redeem,
             FindLink(a) \/ ConsumeLink(a) \/ ReadAccount(a) \/ InsertAccount(a) \/ Crash(a)
      PROVE  TypeOK'
  BY <1>2 DEF FindLink, ConsumeLink, ReadAccount, InsertAccount, Crash, Step
<1>3. ASSUME NEW a \in Redeem, ReadSession(a) PROVE TypeOK'
  BY <1>3 DEF ReadSession, Step
<1>4. ASSUME NEW a \in Redeem, Mint(a) PROVE TypeOK'
  <2>1. redeem[a].link \in Link
    OBVIOUS
  <2> QED
    BY <1>4, <2>1 DEF Mint, Step
<1>5. ASSUME NEW k \in Redeem, ResolveKey(k) \/ Logout(k) PROVE TypeOK'
  BY <1>5 DEF ResolveKey, Logout
<1>6. CASE UNCHANGED vars
  BY <1>6 DEF vars
<1> QED
  BY <1>1, <1>2, <1>3, <1>4, <1>5, <1>6 DEF Next

\* The type invariant of the login.
THEOREM SessionTypeCorrect == Spec => []TypeOK
  BY TypeInit, TypeStep, PTL DEF Spec

-----------------------------------------------------------------------------
(* One link, one key. *)

\* A redemption past its conditional UPDATE holds its link alone: on Postgres
\* by the row lock, on SQLite by the write lock.  That is what makes the row
\* count of the UPDATE decide who mints.
LinkIInv ==
    /\ \A a \in Redeem : redeem[a].pc = "ok" => redeem[a].link \in consumed
    /\ \A a \in Writing : redeem[a].link \notin consumed
    /\ engine = "postgres" =>
         \A a, b \in Running : redeem[a].link = redeem[b].link => a = b
    /\ engine # "postgres" => \A a, b \in Writing : a = b
    /\ LinkMintsOnce

LEMMA LinkInit == Init => LinkIInv
  BY DEF Init, LinkIInv, LinkMintsOnce, Writing, Running

LEMMA LinkStep == TypeOK /\ LinkIInv /\ [Next]_vars => LinkIInv'
<1> SUFFICES ASSUME TypeOK, LinkIInv, [Next]_vars PROVE LinkIInv'
  OBVIOUS
<1> USE DEF TypeOK, LinkIInv, LinkMintsOnce, Writing, Running, login, committed, Goto
<1>1. ASSUME NEW l \in Link, CheckCooldown(l) \/ MintLink(l) \/ GrowOld(l)
      PROVE  LinkIInv'
  BY <1>1 DEF CheckCooldown, MintLink, GrowOld
<1>2. ASSUME NEW a \in Redeem, FindLink(a) PROVE LinkIInv'
  BY <1>2 DEF FindLink
<1>3. ASSUME NEW a \in Redeem, ConsumeLink(a) PROVE LinkIInv'
  BY <1>3 DEF ConsumeLink, MayWrite
<1>4. ASSUME NEW a \in Redeem, ReadAccount(a) \/ InsertAccount(a) PROVE LinkIInv'
  BY <1>4 DEF ReadAccount, InsertAccount
<1>5. ASSUME NEW a \in Redeem, ReadSession(a) PROVE LinkIInv'
  BY <1>5 DEF ReadSession
<1>6. ASSUME NEW a \in Redeem, Mint(a) PROVE LinkIInv'
  BY <1>6 DEF Mint
<1>7. ASSUME NEW a \in Redeem, Crash(a) PROVE LinkIInv'
  BY <1>7 DEF Crash
<1>8. ASSUME NEW k \in Redeem, ResolveKey(k) \/ Logout(k) PROVE LinkIInv'
  BY <1>8 DEF ResolveKey, Logout
<1>9. CASE UNCHANGED vars
  BY <1>9 DEF vars
<1> QED
  BY <1>1, <1>2, <1>3, <1>4, <1>5, <1>6, <1>7, <1>8, <1>9 DEF Next

\* Two redemptions of one magic link never both mint a key (redeem_magic_link).
THEOREM LinksAreSingleUse == Spec => []LinkMintsOnce
<1>1. TypeOK /\ LinkIInv /\ [Next]_vars => LinkIInv'
  BY LinkStep
<1>2. LinkIInv => LinkMintsOnce
  BY DEF LinkIInv
<1> QED
  BY <1>1, <1>2, LinkInit, SessionTypeCorrect, PTL DEF Spec

-----------------------------------------------------------------------------
(* Rows and keys. *)

LEMMA RowsStep == RowsTrackKeys /\ [Next]_vars => RowsTrackKeys'
  BY DEF Next, vars, RowsTrackKeys, login, committed, CheckCooldown, MintLink, GrowOld,
         FindLink, ConsumeLink, ReadAccount, InsertAccount, ReadSession, Mint, Crash,
         ResolveKey, Logout

\* Every active BFF key has its web_session_keys row and every row an active
\* key, however logins and logouts interleave.
THEOREM RowsAndKeysAgree == Spec => []RowsTrackKeys
<1>1. Init => RowsTrackKeys
  BY DEF Init, RowsTrackKeys
<1> QED
  BY <1>1, RowsStep, PTL DEF Spec

-----------------------------------------------------------------------------
(* The onboarding grant. *)

\* One open transaction at most creates the account, none when it exists, and
\* no redemption reaches the session rows without an account.
GrantIInv ==
    /\ \A a \in Redeem : redeem[a].pc \in {"idle", "found", "consumed", "new_account"}
                         => ~redeem[a].creates
    /\ \A a \in Writing : redeem[a].creates => ~account
    /\ \A a, b \in Writing : redeem[a].creates /\ redeem[b].creates => a = b
    /\ \A a \in Redeem : redeem[a].pc \in {"ready", "minting"}
                         => account \/ redeem[a].creates
    /\ GrantedOnce

LEMMA GrantInit == Init => GrantIInv
<1> SUFFICES ASSUME Init PROVE GrantIInv
  OBVIOUS
<1>1. \A a \in Redeem : redeem[a].pc = "idle" /\ redeem[a].creates = FALSE
  BY DEF Init
<1>2. GrantedOnce
  BY DEF Init, GrantedOnce
<1> QED
  BY <1>1, <1>2 DEF GrantIInv, Writing

LEMMA GrantStep == TypeOK /\ GrantIInv /\ [Next]_vars => GrantIInv'
<1> SUFFICES ASSUME TypeOK, GrantIInv, [Next]_vars PROVE GrantIInv'
  OBVIOUS
<1> USE DEF TypeOK, GrantIInv, GrantedOnce, Writing, login, committed, Goto
<1>1. ASSUME NEW l \in Link, CheckCooldown(l) \/ MintLink(l) \/ GrowOld(l)
      PROVE  GrantIInv'
  BY <1>1 DEF CheckCooldown, MintLink, GrowOld
<1>2. ASSUME NEW a \in Redeem, FindLink(a) \/ ConsumeLink(a) \/ ReadAccount(a)
      PROVE  GrantIInv'
  BY <1>2 DEF FindLink, ConsumeLink, ReadAccount
<1>3. ASSUME NEW a \in Redeem, InsertAccount(a) PROVE GrantIInv'
  BY <1>3 DEF InsertAccount
<1>4. ASSUME NEW a \in Redeem, ReadSession(a) PROVE GrantIInv'
  BY <1>4 DEF ReadSession
<1>5. ASSUME NEW a \in Redeem, Mint(a) PROVE GrantIInv'
  <2>1. /\ redeem[a].pc = "minting" /\ redeem[a].creates \in BOOLEAN
        /\ \A b \in Redeem : redeem'[b].creates = redeem[b].creates
        /\ \A b \in Redeem \ {a} : redeem'[b].pc = redeem[b].pc
        /\ redeem'[a].pc = "ok"
        /\ account' = TRUE
        /\ granted' = IF redeem[a].creates THEN granted + 1 ELSE granted
    BY <1>5 DEF Mint
  <2>2. CASE redeem[a].creates
    <3>1. ~account /\ \A b \in Writing : b # a => ~redeem[b].creates
      BY <2>1, <2>2
    <3>2. granted' = 1
      <4>1. granted \in Nat /\ granted <= 1 /\ granted # 1
        BY <3>1
      <4> QED
        BY <2>1, <2>2, <4>1
    <3>3. GrantedOnce'
      BY <2>1, <3>2
    <3> QED
      BY <2>1, <3>1, <3>3
  <2>3. CASE ~redeem[a].creates
    BY <2>1, <2>3
  <2> QED
    BY <2>2, <2>3
<1>6. ASSUME NEW a \in Redeem, Crash(a) PROVE GrantIInv'
  BY <1>6 DEF Crash, Running
<1>7. ASSUME NEW k \in Redeem, ResolveKey(k) \/ Logout(k) PROVE GrantIInv'
  BY <1>7 DEF ResolveKey, Logout
<1>8. CASE UNCHANGED vars
  BY <1>8 DEF vars
<1> QED
  BY <1>1, <1>2, <1>3, <1>4, <1>5, <1>6, <1>7, <1>8 DEF Next

\* An account comes with one onboarding grant, whatever first logins race
\* (ensure_onboarding_grant, UNIQUE on users.email).
THEOREM OneOnboardingGrant == Spec => []GrantedOnce
<1>1. TypeOK /\ GrantIInv /\ [Next]_vars => GrantIInv'
  BY GrantStep
<1>2. GrantIInv => GrantedOnce
  BY DEF GrantIInv
<1> QED
  BY <1>1, <1>2, GrantInit, SessionTypeCorrect, PTL DEF Spec
-----------------------------------------------------------------------------
(* One active key on SQLite. *)

\* With one writer, what a redemption has read of the session rows still holds
\* when it mints: the only row, if there is one, is the row it will replace.
OnlyRowReplaced ==
    /\ \A j, k \in sessions : j = k
    /\ \A a \in Redeem : redeem[a].pc = "minting" => sessions \subseteq {redeem[a].old}
SoleKeyIInv == engine = "sqlite" => OnlyRowReplaced

LEMMA SoleKeyInit == Init => SoleKeyIInv
<1> SUFFICES ASSUME Init PROVE SoleKeyIInv
  OBVIOUS
<1>1. sessions = {} /\ \A a \in Redeem : redeem[a].pc = "idle"
  BY DEF Init
<1> QED
  BY <1>1 DEF SoleKeyIInv, OnlyRowReplaced

LEMMA SoleKeyStep == TypeOK /\ LinkIInv /\ SoleKeyIInv /\ [Next]_vars => SoleKeyIInv'
<1> SUFFICES ASSUME TypeOK, LinkIInv, SoleKeyIInv, [Next]_vars, engine' = "sqlite"
             PROVE  OnlyRowReplaced'
  BY DEF SoleKeyIInv
<1> USE DEF TypeOK, login, committed, Goto
<1>0. engine = "sqlite"
  BY DEF Next, vars, CheckCooldown, MintLink, GrowOld, FindLink, ConsumeLink, ReadAccount,
         InsertAccount, ReadSession, Mint, Crash, ResolveKey, Logout
<1>a. OnlyRowReplaced
  BY <1>0 DEF SoleKeyIInv
<1>b. \A a, b \in Writing : a = b
  BY <1>0 DEF LinkIInv
<1> USE DEF OnlyRowReplaced
<1>1. ASSUME NEW l \in Link, CheckCooldown(l) \/ MintLink(l) \/ GrowOld(l)
      PROVE  OnlyRowReplaced'
  BY <1>1, <1>a DEF CheckCooldown, MintLink, GrowOld
<1>2. ASSUME NEW a \in Redeem,
             FindLink(a) \/ ConsumeLink(a) \/ ReadAccount(a) \/ InsertAccount(a) \/ Crash(a)
      PROVE  OnlyRowReplaced'
  BY <1>2, <1>a DEF FindLink, ConsumeLink, ReadAccount, InsertAccount, Crash
<1>3. ASSUME NEW a \in Redeem, ReadSession(a) PROVE OnlyRowReplaced'
  BY <1>3, <1>a DEF ReadSession
<1>4. ASSUME NEW a \in Redeem, Mint(a) PROVE OnlyRowReplaced'
  <2>1. /\ sessions' = (sessions \ {redeem[a].old}) \cup {a}
        /\ redeem' = [redeem EXCEPT ![a].pc = "ok"]
        /\ redeem[a].pc = "minting"
    BY <1>4 DEF Mint
  <2>2. sessions' = {a}
    BY <2>1, <1>a
  <2>3. \A b \in Redeem : redeem'[b].pc # "minting"
    BY <2>1, <1>b DEF Writing
  <2> QED
    BY <2>2, <2>3
<1>5. ASSUME NEW k \in Redeem, ResolveKey(k) \/ Logout(k) PROVE OnlyRowReplaced'
  BY <1>5, <1>a DEF ResolveKey, Logout
<1>6. CASE UNCHANGED vars
  BY <1>6, <1>a DEF vars
<1> QED
  BY <1>1, <1>2, <1>3, <1>4, <1>5, <1>6 DEF Next

\* On SQLite an account never has two active keys: a login replaces the key of
\* the login before, whatever redemptions, crashes and logouts interleave.
THEOREM SoleKeyOnSQLite == Spec => []OneActiveKeyOnSQLite
<1>1. SoleKeyIInv /\ RowsTrackKeys => OneActiveKeyOnSQLite
  BY DEF SoleKeyIInv, OnlyRowReplaced, RowsTrackKeys, OneActiveKeyOnSQLite, OneActiveKey
<1>2. TypeOK /\ LinkIInv /\ SoleKeyIInv /\ [Next]_vars => SoleKeyIInv'
  BY SoleKeyStep
<1>3. TypeOK /\ LinkIInv /\ [Next]_vars => LinkIInv'
  BY LinkStep
<1> QED
  BY <1>1, <1>2, <1>3, SoleKeyInit, LinkInit, SessionTypeCorrect, RowsAndKeysAgree, PTL DEF Spec
===============================================================================
