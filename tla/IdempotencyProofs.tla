-------------------------- MODULE IdempotencyProofs --------------------------
(***************************************************************************)
(* Proofs about Idempotency, for any number of calls, bodies and answers:  *)
(* a replay always answers the same question, a young row is kept, and,    *)
(* until a row expires, no retry of an answered call is debited again.     *)
(***************************************************************************)
EXTENDS Idempotency, TLAPS

\* What Contains means, for the prover; and what a TTL passing does to it.
LEMMA ContainsDef ==
    ASSUME NEW s, NEW e
    PROVE  Contains(s, e) <=> \E i \in 1..Len(s) : s[i] = e
  BY DEF Contains

LEMMA AppendKeeps ==
    ASSUME NEW s \in Seq(Call), NEW c \in Call
    PROVE  /\ Append(s, c) \in Seq(Call)
           /\ Contains(Append(s, c), c)
           /\ \A e : Contains(s, e) => Contains(Append(s, c), e)
<1>1. Append(s, c) \in Seq(Call)
  OBVIOUS
<1>2. Len(Append(s, c)) = Len(s) + 1 /\ Append(s, c)[Len(s) + 1] = c
  OBVIOUS
<1>3. \A i \in 1..Len(s) : Append(s, c)[i] = s[i]
  OBVIOUS
<1>4. 1..Len(s) \subseteq 1..(Len(s) + 1) /\ Len(s) + 1 \in 1..(Len(s) + 1)
  OBVIOUS
<1>5. Contains(Append(s, c), c)
  BY <1>2, <1>4, ContainsDef
<1>6. \A e : Contains(s, e) => Contains(Append(s, c), e)
  BY <1>2, <1>3, <1>4, ContainsDef
<1> QED
  BY <1>1, <1>5, <1>6

-----------------------------------------------------------------------------
(* Types. *)

LEMMA TypeInit == Init => TypeOK
<1>1. <<>> \in Seq(Call)
  OBVIOUS
<1> QED
  BY <1>1 DEF Init, TypeOK, Step

LEMMA TypeStep == TypeOK /\ [Next]_vars => TypeOK'
<1> SUFFICES ASSUME TypeOK, [Next]_vars PROVE TypeOK'
  OBVIOUS
<1> USE DEF TypeOK, Step, Goto, Answer
<1>1. ASSUME NEW c \in Call, Arrive(c) PROVE TypeOK'
  BY <1>1 DEF Arrive
<1>2. ASSUME NEW c \in Call, Lookup(c) PROVE TypeOK'
  <2>1. retryOf' \in [Call -> SUBSET Call]
    BY <1>2 DEF Lookup, NotesWhatItRepeats
  <2>2. replayOf' \in [Call -> Call \cup {NoRow}]
    BY <1>2 DEF Lookup
  <2> QED
    BY <1>2, <2>1, <2>2 DEF Lookup
<1>3. ASSUME NEW c \in Call, Refuse(c) \/ Charge(c) \/ Extract(c) \/ Raise(c) \/ Crash(c)
      PROVE  TypeOK'
  BY <1>3 DEF Refuse, Charge, Extract, Raise, Crash
<1>4. ASSUME NEW c \in Call, Store(c) PROVE TypeOK'
  <2>1. young' \in Seq(Call)
    BY <1>4, AppendKeeps DEF Store
  <2> QED
    BY <1>4, <2>1 DEF Store
<1>5. ASSUME Age PROVE TypeOK'
  <2>1. young' \in Seq(Call)
    BY <1>5 DEF Age
  <2> QED
    BY <1>5, <2>1 DEF Age
<1>6. ASSUME Sweep PROVE TypeOK'
  BY <1>6 DEF Sweep
<1>7. ASSUME UNCHANGED vars PROVE TypeOK'
  BY <1>7 DEF vars
<1> QED
  BY <1>1, <1>2, <1>3, <1>4, <1>5, <1>6, <1>7 DEF Next

\* The type invariant of the wrapper.
THEOREM IdempotencyTypeCorrect == Spec => []TypeOK
  BY TypeInit, TypeStep, PTL DEF Spec

-----------------------------------------------------------------------------
(* Replays. *)

\* The row holds the answer of a finished call, and answers are final.
RowIsAnswered ==
    /\ row # NoRow => answer[row] = "fresh"
    /\ \A c \in Call : answer[c] # "none" => pc[c] = "done"

ReplayIInv == RowIsAnswered /\ ReplayMatchesBody

LEMMA ReplayInit == Init => ReplayIInv
  BY DEF Init, ReplayIInv, RowIsAnswered, ReplayMatchesBody

LEMMA ReplayStep == TypeOK /\ ReplayIInv /\ [Next]_vars => ReplayIInv'
<1> SUFFICES ASSUME TypeOK, ReplayIInv, [Next]_vars PROVE ReplayIInv'
  OBVIOUS
<1> USE DEF TypeOK, ReplayIInv, RowIsAnswered, ReplayMatchesBody, Goto, Answer
<1>1. ASSUME NEW c \in Call, Arrive(c) PROVE ReplayIInv'
  BY <1>1 DEF Arrive
<1>2. ASSUME NEW c \in Call, Lookup(c) PROVE ReplayIInv'
  <2>1. CASE ~Cached
    BY <1>2, <2>1 DEF Lookup, Cached
  <2>2. CASE Cached /\ BodyOf[row] # BodyOf[c]
    BY <1>2, <2>2 DEF Lookup, Cached
  <2>3. CASE Cached /\ BodyOf[row] = BodyOf[c]
    <3>1. row \in Call /\ row # NoRow /\ answer[row] = "fresh" /\ pc[row] = "done"
      BY <2>3 DEF Cached
    <3>2. answer' = [answer EXCEPT ![c] = "replay"]
          /\ replayOf' = [replayOf EXCEPT ![c] = row]
          /\ pc' = [pc EXCEPT ![c] = "done"] /\ row' = row /\ pc[c] = "lookup"
      BY <1>2, <2>3 DEF Lookup
    <3>3. RowIsAnswered'
      BY <3>1, <3>2
    <3>4. answer[c] = "none" /\ c # row
      BY <3>1, <3>2
    <3>5. ASSUME NEW e \in Call, answer'[e] = "replay"
          PROVE  /\ replayOf'[e] # NoRow
                 /\ BodyOf[replayOf'[e]] = BodyOf[e]
                 /\ answer'[replayOf'[e]] = "fresh"
      <4>1. CASE e = c
        BY <3>1, <3>2, <3>4, <2>3, <4>1
      <4>2. CASE e # c
        BY <3>2, <3>4, <3>5, <4>2
      <4> QED
        BY <4>1, <4>2
    <3> QED
      BY <3>3, <3>5
  <2> QED
    BY <2>1, <2>2, <2>3
<1>3. ASSUME NEW c \in Call, Refuse(c) \/ Charge(c) \/ Extract(c) \/ Raise(c) \/ Crash(c)
      PROVE  ReplayIInv'
  BY <1>3 DEF Refuse, Charge, Extract, Raise, Crash, InFlight
<1>4. ASSUME NEW c \in Call, Store(c) PROVE ReplayIInv'
  BY <1>4 DEF Store
<1>5. ASSUME Age \/ Sweep PROVE ReplayIInv'
  BY <1>5 DEF Age, Sweep
<1>6. ASSUME UNCHANGED vars PROVE ReplayIInv'
  BY <1>6 DEF vars
<1> QED
  BY <1>1, <1>2, <1>3, <1>4, <1>5, <1>6 DEF Next

\* Every replay answers a request with the same body, by a call that was
\* answered itself: overlaps, expiry, sweeps and crashes included.
THEOREM ReplaysAnswerTheSameQuestion == Spec => []ReplayMatchesBody
<1>1. ReplayIInv => ReplayMatchesBody
  BY DEF ReplayIInv
<1> QED
  BY <1>1, TypeInit, TypeStep, ReplayInit, ReplayStep, PTL DEF Spec

\* A racing store and the sweep leave a row younger than the TTL alone.
THEOREM YoungRowsStay == Spec => YoungRowIsKept
<1>1. TypeOK /\ [Next]_vars => [Cached /\ Young(row)' => row' = row]_vars
  <2> SUFFICES ASSUME TypeOK, [Next]_vars, Cached, row' # row PROVE FALSE
    BY DEF vars
  <2> QED
    BY DEF Next, vars, Cached, Arrive, Lookup, Refuse, Charge, Extract, Raise,
           Crash, Store, Age, Sweep
<1> QED
  BY <1>1, TypeInit, TypeStep, PTL DEF Spec, YoungRowIsKept

-----------------------------------------------------------------------------
(* Retries. *)

\* Until a TTL has passed, the row of the first answered call is there and
\* young from its answer on, so that a call with something to repeat ends at
\* its lookup.
RowOfFirstAnswer ==
    ~aged =>
        /\ row # NoRow => Young(row)
        /\ \A c \in Call : answer[c] = "fresh" => row # NoRow
        /\ \A c \in Call : pc[c] \in {"idle", "lookup"} => c \notin charged
        /\ \A c \in Call : pc[c] # "done" => retryOf[c] = {} /\ answer[c] = "none"

RetryIInv == RowOfFirstAnswer /\ RetryIsReplayed

LEMMA RetryInit == Init => RetryIInv
  BY DEF Init, RetryIInv, RowOfFirstAnswer, RetryIsReplayed

LEMMA RetryStep == TypeOK /\ RetryIInv /\ [Next]_vars => RetryIInv'
<1> SUFFICES ASSUME TypeOK, RetryIInv, [Next]_vars, ~aged' PROVE RetryIInv'
  BY DEF RetryIInv, RowOfFirstAnswer, RetryIsReplayed
<1> USE DEF TypeOK, RetryIInv, RowOfFirstAnswer, RetryIsReplayed, Goto, Answer
<1>1. ASSUME NEW c \in Call, Arrive(c) PROVE RetryIInv'
  BY <1>1 DEF Arrive, Young
<1>2. ASSUME NEW c \in Call, Lookup(c) PROVE RetryIInv'
  <2>1. CASE ~Cached
    <3>1. row = NoRow /\ \A d \in Call : answer[d] # "fresh"
      BY <1>2, <2>1, CallsAssumption DEF Cached, Lookup
    <3>2. {d \in Call : answer[d] = "fresh" /\ Young(d) /\ BodyOf[d] = BodyOf[c]} = {}
      BY <3>1
    <3>3. retryOf' = [retryOf EXCEPT ![c] = {}]
      BY <1>2, <3>2 DEF Lookup, NotesWhatItRepeats
    <3> QED
      BY <1>2, <2>1, <3>1, <3>3 DEF Lookup, Young
  <2>2. CASE Cached
    <3>1. \E S : retryOf' = [retryOf EXCEPT ![c] = S]
      BY <1>2 DEF Lookup, NotesWhatItRepeats
    <3> QED
      BY <1>2, <2>2, <3>1 DEF Lookup, Young
  <2> QED
    BY <2>1, <2>2
<1>3. ASSUME NEW c \in Call, Refuse(c) \/ Charge(c) \/ Extract(c) \/ Raise(c)
      PROVE  RetryIInv'
  BY <1>3 DEF Refuse, Charge, Extract, Raise, Young
<1>4. ASSUME NEW c \in Call, Crash(c) PROVE RetryIInv'
  BY <1>4 DEF Crash, InFlight, Young
<1>5. ASSUME NEW c \in Call, Store(c) PROVE RetryIInv'
  <2>1. row' # NoRow /\ (row' = row \/ row' = c)
    BY <1>5, CallsAssumption DEF Store
  <2>2. Young(row)'
    BY <1>5, <2>1, AppendKeeps DEF Store, Young
  <2> QED
    BY <1>5, <2>1, <2>2 DEF Store
<1>6. ASSUME Age \/ Sweep PROVE RetryIInv'
  BY <1>6 DEF Age, Sweep
<1>7. ASSUME UNCHANGED vars PROVE RetryIInv'
  BY <1>7 DEF vars, Young
<1> QED
  BY <1>1, <1>2, <1>3, <1>4, <1>5, <1>6, <1>7 DEF Next

\* Until a row of the key has expired, a retry of an answered call is never
\* debited, overlaps and crashes included.
THEOREM RetriesAreFree == Spec => []RetryIsReplayed
<1>1. RetryIInv => RetryIsReplayed
  BY DEF RetryIInv
<1> QED
  BY <1>1, TypeInit, TypeStep, RetryInit, RetryStep, PTL DEF Spec
=============================================================================
