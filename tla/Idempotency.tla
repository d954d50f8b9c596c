----------------------------- MODULE Idempotency -----------------------------
(***************************************************************************)
(* The Idempotency-Key wrapper of POST /v1/extractions: create_extraction  *)
(* (app/routes/extractions.py), lookup_cached_response and store_response  *)
(* (app/idempotency.py) and the sweep of expired rows                      *)
(* (app/cli/sweep_idempotency.py), for the calls one client makes with one *)
(* key.  What happens between lookup and store is ExtractionBilling,       *)
(* reduced to whether the call was charged and how it ended.               *)
(***************************************************************************)
EXTENDS Integers, Sequences, SequencesExt

CONSTANTS
    Call,           \* calls of one user that carry the same key
    Body,           \* request bodies, up to their hash
    BodyOf,         \* [Call -> Body]
    NoRow           \* the key has no row

ASSUME CallsAssumption ==
    /\ BodyOf \in [Call -> Body]
    /\ NoRow \notin Call

VARIABLES
    pc,             \* [Call -> step of create_extraction]
    row,            \* the call whose response the key's row holds
    young,          \* calls answered less than a TTL ago, oldest first
    aged,           \* has a TTL passed over an answer yet?
    charged,        \* calls that were debited
    answer,         \* [Call -> what the client received]
    replayOf,       \* [Call -> the call whose response it replayed]
    retryOf         \* [Call -> calls it repeats: same body, answered, young]

vars == <<pc, row, young, aged, charged, answer, replayOf, retryOf>>

Step == {"idle", "lookup", "inner", "extract", "store", "done", "lost"}

TypeOK ==
    /\ pc \in [Call -> Step]
    /\ row \in Call \cup {NoRow}
    /\ young \in Seq(Call)
    /\ aged \in BOOLEAN
    /\ charged \subseteq Call
    /\ answer \in [Call -> {"none", "fresh", "replay", "hash_mismatch", "server_error"}]
    /\ replayOf \in [Call -> Call \cup {NoRow}]
    /\ retryOf \in [Call -> SUBSET Call]

Init ==
    /\ pc = [c \in Call |-> "idle"]
    /\ row = NoRow
    /\ young = <<>>
    /\ aged = FALSE
    /\ charged = {}
    /\ answer = [c \in Call |-> "none"]
    /\ replayOf = [c \in Call |-> NoRow]
    /\ retryOf = [c \in Call |-> {}]

Young(c) == Contains(young, c)
Answer(c, how) == answer' = [answer EXCEPT ![c] = how]
Goto(c, step) == pc' = [pc EXCEPT ![c] = step]

InFlight(c) == pc[c] \notin {"idle", "done", "lost"}

\* The client sends a call, the first one or a retry.
Arrive(c) ==
    /\ pc[c] = "idle"
    /\ Goto(c, "lookup")
    /\ UNCHANGED <<row, young, aged, charged, answer, replayOf, retryOf>>

\* Mutant: _is_expired with its comparison turned round.
CachedWhenExpired == row # NoRow /\ ~Young(row)

\* A row that _is_expired does not count.
Cached == row # NoRow /\ Young(row)

\* The calls that c repeats, as of its lookup.
NotesWhatItRepeats(c) ==
    retryOf' = [retryOf EXCEPT ![c] =
                  {d \in Call : answer[d] = "fresh" /\ Young(d) /\ BodyOf[d] = BodyOf[c]}]

\* Mutant: the hash of the body is not compared.
LookupIgnoresBody(c) ==
    /\ pc[c] = "lookup"
    /\ \/ ~Cached /\ Goto(c, "inner") /\ UNCHANGED <<answer, replayOf>>
       \/ /\ Cached
          /\ Answer(c, "replay") /\ Goto(c, "done")
          /\ replayOf' = [replayOf EXCEPT ![c] = row]
    /\ NotesWhatItRepeats(c)
    /\ UNCHANGED <<row, young, aged, charged>>

\* lookup_cached_response and the three ways create_extraction goes on.
Lookup(c) ==
    /\ pc[c] = "lookup"
    /\ \/ ~Cached /\ Goto(c, "inner") /\ UNCHANGED <<answer, replayOf>>
       \/ /\ Cached /\ BodyOf[row] # BodyOf[c]
          /\ Answer(c, "hash_mismatch") /\ Goto(c, "done")
          /\ UNCHANGED replayOf
       \/ /\ Cached /\ BodyOf[row] = BodyOf[c]
          /\ Answer(c, "replay") /\ Goto(c, "done")
          /\ replayOf' = [replayOf EXCEPT ![c] = row]
    /\ NotesWhatItRepeats(c)
    /\ UNCHANGED <<row, young, aged, charged>>

\* 402 or 409: nothing is debited, and the refusal is stored like a result.
Refuse(c) ==
    /\ pc[c] = "inner"
    /\ Goto(c, "store")
    /\ UNCHANGED <<row, young, aged, charged, answer, replayOf, retryOf>>

Charge(c) ==
    /\ pc[c] = "inner"
    /\ charged' = charged \cup {c}
    /\ Goto(c, "extract")
    /\ UNCHANGED <<row, young, aged, answer, replayOf, retryOf>>

\* The extraction succeeds or fails; either way there is a response to store.
Extract(c) ==
    /\ pc[c] = "extract"
    /\ Goto(c, "store")
    /\ UNCHANGED <<row, young, aged, charged, answer, replayOf, retryOf>>

\* _create_extraction_inner raises: no response, nothing stored.
Raise(c) ==
    /\ pc[c] \in {"inner", "extract"}
    /\ Goto(c, "done")
    /\ Answer(c, "server_error")
    /\ UNCHANGED <<row, young, aged, charged, replayOf, retryOf>>

\* Mutant: the UPSERT that a comment of lookup_cached_response speaks of.
StoreOverwrites(c) ==
    /\ pc[c] = "store"
    /\ row' = c
    /\ young' = Append(young, c)
    /\ Answer(c, "fresh") /\ Goto(c, "done")
    /\ UNCHANGED <<aged, charged, replayOf, retryOf>>

\* store_response: the primary key keeps the first row, expired or not; the
\* IntegrityError of a second one is swallowed.
Store(c) ==
    /\ pc[c] = "store"
    /\ row' = IF row = NoRow THEN c ELSE row
    /\ young' = Append(young, c)
    /\ Answer(c, "fresh") /\ Goto(c, "done")
    /\ UNCHANGED <<aged, charged, replayOf, retryOf>>

\* The process dies; what was committed stays.
Crash(c) ==
    /\ InFlight(c)
    /\ Goto(c, "lost")
    /\ UNCHANGED <<row, young, aged, charged, answer, replayOf, retryOf>>

\* A TTL passes over the oldest answer.
Age ==
    /\ young # <<>>
    /\ young' = Tail(young)
    /\ aged' = TRUE
    /\ UNCHANGED <<pc, row, charged, answer, replayOf, retryOf>>

\* sweep_expired
Sweep ==
    /\ row # NoRow
    /\ ~Young(row)
    /\ row' = NoRow
    /\ UNCHANGED <<pc, young, aged, charged, answer, replayOf, retryOf>>

Next ==
    \/ \E c \in Call :
         \/ Arrive(c) \/ Lookup(c) \/ Refuse(c) \/ Charge(c) \/ Extract(c)
         \/ Raise(c) \/ Store(c) \/ Crash(c)
    \/ Age
    \/ Sweep

Spec == Init /\ [][Next]_vars

-----------------------------------------------------------------------------
(* Properties. *)

\* A call that repeats one answered less than a TTL ago is not debited again
\* (docstring of create_extraction, lines 496-500), whatever overlaps, crashes
\* and failed calls came before.  An expired row ends that: store_response
\* keeps it, so until the sweep runs no later answer is stored.
RetryIsReplayed ==
    ~aged => \A c \in Call : retryOf[c] # {} =>
        c \notin charged /\ answer[c] \in {"none", "replay", "hash_mismatch"}

\* A replay answers the same question: same body, by a call that ran to its
\* end; so a client never gets the result of another request for its key.
ReplayMatchesBody ==
    \A c \in Call : answer[c] = "replay" =>
        /\ replayOf[c] # NoRow
        /\ BodyOf[replayOf[c]] = BodyOf[c]
        /\ answer[replayOf[c]] = "fresh"

\* All replays of a key agree for a TTL: a young row is neither replaced by a
\* racing call nor swept.
YoungRowIsKept == [][Cached /\ Young(row)' => row' = row]_vars

\* models.py, IdempotencyKey: "a client retrying POST /v1/extractions after a
\* transient network failure must not be charged twice".
ChargedOncePerKey == \A c, d \in charged : BodyOf[c] = BodyOf[d] => c = d
=============================================================================
