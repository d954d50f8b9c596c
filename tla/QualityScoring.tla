--------------------------- MODULE QualityScoring ---------------------------
(***************************************************************************)
(* The score of an extraction (app/quality_scoring.py with the weights of  *)
(* app/scoring_weights.py) and the penalties for defaults that pass for a  *)
(* brand (app/quality_heuristics.py).                                      *)
(*                                                                         *)
(* Scores are integers, in millionths; a quotient is rounded down.  The    *)
(* distance of two colours in CIE LAB is computed from the constant Lab,   *)
(* the coordinates of the instance's colours in tenths.                    *)
(***************************************************************************)
EXTENDS TokenContract, FiniteSetsExt

CONSTANTS Lab

One == 1000000
Threshold == 550000                     \* DEFAULT_THRESHOLD_V1_1_X
ChromaThreshold == 250000
TypeScaleTarget == 4
SpacingScaleTarget == 5

Weights == [palette_role_coverage |-> 25, color_chroma_diversity |-> 20,
            type_scale_completeness |-> 15, type_pairing_signal |-> 10,
            spacing_scale_completeness |-> 15, token_value_diversity |-> 15]

Dimensions == <<"palette_role_coverage", "color_chroma_diversity", "type_scale_completeness",
                "type_pairing_signal", "spacing_scale_completeness", "token_value_diversity">>

PaletteRoleSlots == {<<"bg">>, <<"text">>, <<"accent">>, <<"text", "muted">>, <<"border">>}
ChromaInputSlots == {<<"accent">>, <<"accent", "2">>, <<"success">>, <<"warning">>,
                     <<"error">>, <<"info">>, <<"focus", "ring">>}

Least(a, b) == IF a < b THEN a ELSE b
Distance(a, b) == IF a < b THEN b - a ELSE a - b

\* The slots of S that hold a hex colour, and the colours they hold.
Populated(tokens, S) == {k \in S \intersect DOMAIN tokens : tokens[k].hex # NoHex}
Hexes(tokens, S) == {tokens[k].hex : k \in Populated(tokens, S)}
Values(tokens, S) == {tokens[k].text : k \in S \intersect DOMAIN tokens}

PrimaryFamily(tokens, key) ==
    IF key \in DOMAIN tokens /\ tokens[key].stack # <<>> THEN tokens[key].stack[1] ELSE ""

-----------------------------------------------------------------------------
(* The six dimensions                                                      *)

\* The saturation of HLS, from the extreme channels.
Saturation(c) ==
    LET hi == Max({c[1], c[2], c[3]}) lo == Min({c[1], c[2], c[3]})
        room == IF hi + lo <= 255 THEN hi + lo ELSE 510 - hi - lo
    IN  IF hi = lo THEN 0 ELSE ((hi - lo) * One) \div room

ScorePaletteRoleCoverage(tokens) ==
    (Cardinality(Hexes(tokens, PaletteRoleSlots)) * One) \div Cardinality(PaletteRoleSlots)

ScoreColorChromaDiversity(tokens) ==
    LET seen == {Saturation(c) : c \in Hexes(tokens, ChromaInputSlots)}
    IN  IF seen = {} THEN 0
        ELSE Least((Max(seen) * 4), One)     \* over CHROMA_THRESHOLD, a quarter

ScoreTypeScaleCompleteness(tokens) ==
    Least((Cardinality(Values(tokens, TextSizeKeys)) * One) \div TypeScaleTarget, One)

\* The weights the code would compare are not keys of a token set, so one
\* family for both roles is no pairing.
ScoreTypePairingSignal(tokens) ==
    LET display == PrimaryFamily(tokens, <<"font", "display">>)
        body == PrimaryFamily(tokens, <<"font", "body">>)
    IN  IF "" \in {display, body} \/ display = body THEN 0 ELSE One

ScoreSpacingScaleCompleteness(tokens) ==
    Least((Cardinality(Values(tokens, SpacingKeys)) * One) \div SpacingScaleTarget, One)

ScoreTokenValueDiversity(tokens) ==
    IF DOMAIN tokens = {} THEN 0
    ELSE (Cardinality(Values(tokens, DOMAIN tokens)) * One) \div Cardinality(DOMAIN tokens)

Scores(tokens) ==
    [palette_role_coverage |-> ScorePaletteRoleCoverage(tokens),
     color_chroma_diversity |-> ScoreColorChromaDiversity(tokens),
     type_scale_completeness |-> ScoreTypeScaleCompleteness(tokens),
     type_pairing_signal |-> ScoreTypePairingSignal(tokens),
     spacing_scale_completeness |-> ScoreSpacingScaleCompleteness(tokens),
     token_value_diversity |-> ScoreTokenValueDiversity(tokens)]

\* _suggestion_for(): the first of the lowest dimensions.
SuggestionFor(scores) ==
    Dimensions[CHOOSE i \in DOMAIN Dimensions :
        /\ \A j \in DOMAIN Dimensions : scores[Dimensions[i]] <= scores[Dimensions[j]]
        /\ \A j \in 1..(i - 1) : scores[Dimensions[j]] > scores[Dimensions[i]]]

ComputeQualityScore(tokens) ==
    LET scores == Scores(tokens)
        part == [d \in DOMAIN Weights |-> scores[d] * Weights[d]]
        composite == FoldSet(LAMBDA d, n : n + part[d], 0, DOMAIN Weights) \div 100
    IN  [composite |-> composite, dimensions |-> scores,
         suggestion |-> IF composite < Threshold THEN SuggestionFor(scores) ELSE ""]

-----------------------------------------------------------------------------
(* The penalties                                                           *)

FontKeys == {<<"font", "body">>, <<"font", "display">>, <<"font", "mono">>}
RoleColorKeys == {<<"bg">>, <<"text">>, <<"accent">>}
NearDefaultColorKeys == RoleColorKeys \union {<<"surface">>}

SystemFontFamilies ==
    {"system-ui", "-apple-system", "blinkmacsystemfont", "segoe ui", "roboto", "helvetica",
     "helvetica neue", "arial", "georgia", "times", "times new roman", "courier",
     "courier new", "monaco", "consolas", "sans-serif", "serif", "monospace"}

CommonDefaultColors == {<<255, 255, 255>>, <<245, 245, 245>>, <<26, 26, 26>>, <<0, 0, 0>>,
                        <<79, 70, 229>>}
NearDefaultReferences == CommonDefaultColors \union {<<136, 136, 136>>}

DefaultColorDistanceMax == 80
ScoreThresholdPercent == 90
LabThreshold == 50                      \* PENALTY_ACCENT_TEXT_LAB_THRESHOLD, in tenths

Families(tokens) == {k \in FontKeys : PrimaryFamily(tokens, k) # ""}
SystemFonts(tokens) == {k \in FontKeys : PrimaryFamily(tokens, k) \in SystemFontFamilies}

DetectAllSystemFonts(tokens) ==
    Families(tokens) # {} /\ Families(tokens) = SystemFonts(tokens)

DetectAllDefaultColors(tokens) ==
    Hexes(tokens, RoleColorKeys) # {} /\ Hexes(tokens, RoleColorKeys) \subseteq CommonDefaultColors

DeltaESquared(a, b) ==
    (Lab[a][1] - Lab[b][1]) * (Lab[a][1] - Lab[b][1]) +
    (Lab[a][2] - Lab[b][2]) * (Lab[a][2] - Lab[b][2]) +
    (Lab[a][3] - Lab[b][3]) * (Lab[a][3] - Lab[b][3])

DetectMissingAccentDiversity(tokens) ==
    /\ Populated(tokens, {<<"accent">>, <<"text">>}) = {<<"accent">>, <<"text">>}
    /\ DeltaESquared(tokens[<<"accent">>].hex, tokens[<<"text">>].hex)
          < LabThreshold * LabThreshold

DetectDisplayEqualsBody(tokens) ==
    LET display == PrimaryFamily(tokens, <<"font", "display">>)
    IN  display # "" /\ display = PrimaryFamily(tokens, <<"font", "body">>)

Manhattan(a, b) == Distance(a[1], b[1]) + Distance(a[2], b[2]) + Distance(a[3], b[3])

IsNearDefaultColor(c) ==
    \E ref \in NearDefaultReferences : Manhattan(c, ref) < DefaultColorDistanceMax

\* Every slot counts, so two slots with one colour weigh twice.
DetectNearDefaultExtraction(tokens) ==
    LET slots == Populated(tokens, NearDefaultColorKeys)
        near == {k \in slots : IsNearDefaultColor(tokens[k].hex)}
    IN  /\ Families(tokens) # {} /\ slots # {}
        /\ Cardinality(SystemFonts(tokens)) * 100
              >= ScoreThresholdPercent * Cardinality(Families(tokens))
        /\ Cardinality(near) * 100 >= ScoreThresholdPercent * Cardinality(slots)

Penalty == [all_system_font_stack |-> 300000, all_common_default_colors |-> 300000,
            missing_accent_diversity |-> 150000, display_equals_body |-> 150000]

Triggered(tokens) ==
    {p \in DOMAIN Penalty :
        CASE p = "all_system_font_stack" -> DetectAllSystemFonts(tokens)
          [] p = "all_common_default_colors" -> DetectAllDefaultColors(tokens)
          [] p = "missing_accent_diversity" -> DetectMissingAccentDiversity(tokens)
          [] p = "display_equals_body" -> DetectDisplayEqualsBody(tokens)}

\* Mutant: the near-default rule is one more penalty, not a floor.
ApplyHeuristicPenaltiesNoFloor(tokens, composite) ==
    LET left == composite - FoldSet(LAMBDA p, n : n + Penalty[p], 0, Triggered(tokens))
    IN  [score |-> IF left < 0 THEN 0 ELSE left, applied |-> Triggered(tokens)]

\* apply_heuristic_penalties(): the near-default rule floors the score.
ApplyHeuristicPenalties(tokens, composite) ==
    LET near == DetectNearDefaultExtraction(tokens)
        left == composite - FoldSet(LAMBDA p, n : n + Penalty[p], 0, Triggered(tokens))
    IN  [score |-> IF near \/ left < 0 THEN 0 ELSE left,
         applied |-> Triggered(tokens) \union
                        (IF near THEN {"near_default_extraction"} ELSE {})]
=============================================================================
