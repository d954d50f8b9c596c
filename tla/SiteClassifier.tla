--------------------------- MODULE SiteClassifier ---------------------------
(***************************************************************************)
(* The support class of a URL before anyone pays for it                    *)
(* (app/site_classifier.py with app/site_classifier_signals.yml): the      *)
(* fetch with its retries, the signals of each class and the verdict.      *)
(*                                                                         *)
(* A page is what each of the three attempts to fetch it meets.  A reply   *)
(* carries its status, the size of its body in bytes and, for every class, *)
(* how many of the class's body and header patterns it matches.            *)
(***************************************************************************)
EXTENDS Integers, Sequences, FiniteSets

MaxAttempts == 3
HtmlFirstMinBodyBytes == 5120

Transport == [status |-> -1, size |-> 0, hits |-> [c \in {} |-> 0]]

ClassPrecedence == <<"wix_class", "waf_blocked", "js_rendered", "html_first">>
Unknown == "unknown"

\* The signals file: how many signals make a class, and what they are worth,
\* in thousandths.
Signals ==
    [wix_class |-> [min |-> 2, base |-> 800, step |-> 50, statuses |-> {}],
     waf_blocked |-> [min |-> 1, base |-> 750, step |-> 100,
                      statuses |-> {401, 403, 407, 503}],
     js_rendered |-> [min |-> 2, base |-> 550, step |-> 100, statuses |-> {}],
     html_first |-> [min |-> 2, base |-> 650, step |-> 50, statuses |-> {}]]

ServerError(status) == status \in 500..599

\* _fetch_first_bytes(): a transport error and a 5xx are tried again; the
\* 5xx of the last attempt is the answer.
FetchFirstBytes(tries) ==
    LET final == {i \in 1..MaxAttempts : /\ tries[i] # Transport
                                         /\ ServerError(tries[i].status) => i = MaxAttempts}
    IN  IF final = {} THEN Transport
        ELSE tries[CHOOSE i \in final : \A j \in final : i <= j]

\* _count_signals(), and the status signal a trusted caller suppresses.
CountSignals(class, reply, trusted) ==
    LET known == IF class \in DOMAIN reply.hits THEN reply.hits[class] ELSE 0
        status == /\ reply.status \in Signals[class].statuses
                  /\ ~(class = "waf_blocked" /\ trusted /\ reply.status \in {401, 407})
    IN  known + (IF status THEN 1 ELSE 0)

ConfidenceFor(class, count) ==
    LET over == count - Signals[class].min
        raw == Signals[class].base + over * Signals[class].step
    IN  IF over < 0 THEN 0 ELSE IF raw > 1000 THEN 1000 ELSE raw

\* html_first asks for a body that is worth extracting.
Matches(class, reply, trusted) ==
    /\ CountSignals(class, reply, trusted) >= Signals[class].min
    /\ class = "html_first" => reply.size >= HtmlFirstMinBodyBytes

Result(label, confidence, status) ==
    [label |-> label, confidence |-> confidence, status |-> status]

\* classify_url(): the first class, in precedence, whose signals suffice.
ClassifyUrl(tries, trusted) ==
    LET reply == FetchFirstBytes(tries)
        won == {i \in DOMAIN ClassPrecedence : Matches(ClassPrecedence[i], reply, trusted)}
    IN  IF reply = Transport \/ won = {} THEN Result(Unknown, 0, reply.status)
        ELSE LET class == ClassPrecedence[CHOOSE i \in won : \A j \in won : i <= j]
             IN  Result(class, ConfidenceFor(class, CountSignals(class, reply, trusted)),
                        reply.status)

IsSupported(label) == label \in {"html_first", "js_rendered"}

\* CLASS_DISPOSITION and extraction_floor_for(), in percent; 0 is no floor.
ExtractionFloorFor(label) ==
    CASE label = "html_first" -> 60
      [] label = "js_rendered" -> 40
      [] OTHER -> 0
=============================================================================
