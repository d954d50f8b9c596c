---------------------------- MODULE FailureModes ----------------------------
(***************************************************************************)
(* The error codes of an extraction (app/failure_modes.py): which code the *)
(* extractor's message is read as, the HTTP status it is answered with and *)
(* whether the credit goes back.                                           *)
(*                                                                         *)
(* A message is the prefix it starts with, the status a failed fetch       *)
(* quotes, and whether a failed insert was chained behind it.              *)
(***************************************************************************)
EXTENDS Integers

Message(prefix, status) == [prefix |-> prefix, status |-> status, insert_failed |-> FALSE]
NoError == Message("", 0)
InsertFailed == [Message("postgres insert failed", 0) EXCEPT !.insert_failed = TRUE]

HttpStatusByCode ==
    [INVALID_URL |-> 422, UNREACHABLE |-> 502, WAF_BLOCKED |-> 502, TIMEOUT |-> 504,
     JS_REQUIRED |-> 422, NO_TOKENS_FOUND |-> 422, NETWORK_ERROR |-> 502,
     MODEL_ERROR |-> 502, PERSIST_ERROR |-> 500, VALIDATION_ERROR |-> 422,
     INTERNAL_ERROR |-> 500, LOW_QUALITY_OUTPUT |-> 200]

RefundableCodes == {"MODEL_ERROR", "PERSIST_ERROR", "INTERNAL_ERROR", "LOW_QUALITY_OUTPUT"}

WafStatusCodes == {401, 403, 405, 406, 429, 503}

\* Mutant: a chained insert failure does not win.
ClassifyByPrefixAlone(m) ==
    CASE m.prefix = "invalid url" -> "INVALID_URL"
      [] m.prefix \in {"model JSON parse failed", "anthropic failed"} -> "MODEL_ERROR"
      [] OTHER -> "NETWORK_ERROR"

\* classify_extractor_error(): an insert failure first, then the prefix.
ClassifyExtractorError(m) ==
    CASE m.insert_failed -> "PERSIST_ERROR"
      [] ~m.insert_failed /\ m.prefix = "invalid url" -> "INVALID_URL"
      [] ~m.insert_failed /\ m.prefix = "unreachable" -> "UNREACHABLE"
      [] ~m.insert_failed /\ m.prefix = "fetch failed" ->
            IF m.status = 0 THEN "TIMEOUT"
            ELSE IF m.status \in WafStatusCodes THEN "WAF_BLOCKED" ELSE "NETWORK_ERROR"
      [] ~m.insert_failed /\ m.prefix \in {"validation failed", "extractor returned no tokens"} ->
            "NO_TOKENS_FOUND"
      [] ~m.insert_failed /\ m.prefix \in {"model JSON parse failed", "anthropic failed"} ->
            "MODEL_ERROR"
      [] ~m.insert_failed /\ m.prefix = "recon failed" -> "NETWORK_ERROR"
      [] OTHER -> "INTERNAL_ERROR"
=============================================================================
