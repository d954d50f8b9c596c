--------------------------- MODULE TokenContract ---------------------------
(***************************************************************************)
(* The flat token set an extraction returns, what makes it acceptable      *)
(* (_vendored/drl/drl/_scripts/extraction.py, coerce_token_set() of        *)
(* extractor/codex_extractor.py) and the DTCG tree it is stored as         *)
(* (extractor/drl_adapter.py).                                             *)
(*                                                                         *)
(* A key is the sequence of its underscore-separated segments, which is    *)
(* also its leaf name: the code joins the segments with dashes there.      *)
(* A value carries what some reader takes from it: the colour it parses    *)
(* to, the trimmed text, and the normalised families of a font stack.      *)
(***************************************************************************)
EXTENDS Integers, Sequences, FiniteSets

Value(hex, text, stack) == [hex |-> hex, text |-> text, stack |-> stack]
Colour(r, g, b) == Value(<<r, g, b>>, <<r, g, b>>, <<>>)
Text(t) == Value(<<>>, <<t>>, <<>>)
Stack(name, families) == Value(<<>>, <<name>>, families)

NoHex == <<>>

\* What a text may parse to: three bytes, or no colour.
HexColors == {NoHex} \union ((0..255) \X (0..255) \X (0..255))

-----------------------------------------------------------------------------
(* The contract                                                            *)

ColorKeys == {<<"bg">>, <<"surface">>, <<"surface", "2">>, <<"text">>, <<"text", "muted">>,
              <<"text", "strong">>, <<"border">>, <<"hairline">>, <<"accent">>,
              <<"accent", "2">>, <<"success">>, <<"warning">>, <<"error">>, <<"info">>,
              <<"focus", "ring">>}

Family(prefix, names) == {<<prefix, n>> : n \in names}

TextSizeKeys == Family("text", {"2xs", "xs", "sm", "base", "lg", "xl", "2xl", "3xl", "4xl",
                                "5xl", "6xl", "7xl"})

SpacingKeys == Family("space", {"0", "1", "2", "3", "4", "5", "6", "8", "10", "12", "16", "32"})

\* ALLOWED_TOKEN_KEYS, the fields of TokenSet.
AllowedKeys ==
    ColorKeys \union TextSizeKeys \union SpacingKeys
    \union Family("font", {"display", "body", "mono", "accent"})
    \union Family("leading", {"tight", "snug", "normal", "relaxed", "loose"})
    \union Family("tracking", {"tight", "normal", "wide", "wider"})
    \union Family("radius", {"none", "xs", "sm", "md", "lg", "full"})
    \union Family("shadow", {"none", "xs", "sm", "md", "lg", "2xl"})
    \union Family("ease", {"standard", "emphasize", "decelerate", "accelerate"})
    \union Family("duration", {"instant", "fast", "normal", "slow"})

RequiredKeys ==
    {<<"bg">>, <<"surface">>, <<"text">>, <<"text", "muted">>, <<"border">>, <<"hairline">>,
     <<"accent">>}
    \union Family("font", {"display", "body", "mono"})
    \union Family("text", {"base", "lg", "xl", "2xl", "3xl", "4xl"})
    \union Family("leading", {"tight", "normal"})
    \union Family("space", {"1", "2", "3", "4", "5", "6"})
    \union Family("radius", {"sm", "md"})

\* What json.loads() may leave under a key besides a scalar.
NotScalar == {"null", "nested", "blank"}
Json(kind, value) == [kind |-> kind, value |-> value]

\* coerce_token_set(): known keys with a scalar that is not blank.
CoerceTokenSet(data) ==
    [k \in {x \in DOMAIN data : x \in AllowedKeys /\ data[x].kind \notin NotScalar} |->
        data[k].value]

ValidTokenSet(tokens) == RequiredKeys \subseteq DOMAIN tokens

-----------------------------------------------------------------------------
(* The DTCG tree                                                           *)

GroupByPrefix ==
    [p \in {"bg", "surface", "text", "border", "hairline", "accent", "success", "warning",
            "error", "info", "focus"} |-> "color"]

OtherGroups == [font |-> "fontFamily", space |-> "dimension", radius |-> "dimension",
                shadow |-> "shadow", duration |-> "duration", ease |-> "cubicBezier",
                leading |-> "number", tracking |-> "dimension"]

TextColorKeys == {<<"text">>, <<"text", "muted">>, <<"text", "strong">>}

\* _classify(): the group of a key, which is the $type of its leaf as well;
\* "other" has no $type.
Classify(key) ==
    IF key[1] = "text" THEN IF key \in TextColorKeys THEN "color" ELSE "dimension"
    ELSE IF key[1] \in DOMAIN GroupByPrefix THEN GroupByPrefix[key[1]]
    ELSE IF key[1] \in DOMAIN OtherGroups THEN OtherGroups[key[1]]
    ELSE "other"

\* to_dtcg_json(): the leaves of every group that has one.
ToDtcgJson(tokens) ==
    [g \in {Classify(k) : k \in DOMAIN tokens} |->
        [k \in {x \in DOMAIN tokens : Classify(x) = g} |-> tokens[k]]]

\* to_postgres_row(): what the extractor's own insert would write.
ToPostgresRow(url, result) ==
    [url |-> url, status |-> IF result.error = "" THEN "ok" ELSE "failed",
     dtcg |-> IF result.error = "" THEN ToDtcgJson(result.tokens) ELSE <<>>]
=============================================================================
