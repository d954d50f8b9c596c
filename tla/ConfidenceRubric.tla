-------------------------- MODULE ConfidenceRubric --------------------------
(***************************************************************************)
(* The confidence rubric an extraction is answered with                    *)
(* (extractor/confidence_rubric.py) and the defaults of site builders it   *)
(* knows (extractor/known_cms_defaults.py).  It rests on the same tokens   *)
(* as the score, and on the warning of the screenshot palette.             *)
(*                                                                         *)
(* Scores are integers in ten-thousandths.                                 *)
(***************************************************************************)
EXTENDS TokenContract, SequencesExt, FiniteSetsExt

CONSTANTS
    CmsPalettes,        \* _CMS_PALETTE_REGISTRY: a sequence of [label, colors]
    TrivialGrayscale,
    DefaultFonts        \* ALL_CMS_DEFAULT_FONTS: a set of stacks

Unit == 10000
DiversityFullAt == 4
WarnThreshold == 5500

\* The order of _COLOR_SLOTS.
ColorSlots == <<<<"bg">>, <<"text">>, <<"accent">>, <<"accent", "2">>, <<"border">>,
                <<"surface">>, <<"surface", "2">>, <<"hairline">>, <<"text", "muted">>,
                <<"text", "strong">>>>
FontSlots == {<<"font", "body">>, <<"font", "display">>, <<"font", "mono">>}

NotRun == [run |-> FALSE, missed |-> {}]        \* a warning of None
Missed(colors) == [run |-> TRUE, missed |-> colors]

AllCmsColors == UNION {CmsPalettes[i].colors : i \in DOMAIN CmsPalettes}

\* identify_cms_match(): the first builder whose palette holds the colour.
IdentifyCmsMatch(c) ==
    CmsPalettes[CHOOSE i \in DOMAIN CmsPalettes :
        /\ c \in CmsPalettes[i].colors
        /\ \A j \in 1..(i - 1) : c \notin CmsPalettes[j].colors].label

PopulatedColors(tokens) ==
    LET held == SelectSeq(ColorSlots, LAMBDA k : k \in DOMAIN tokens /\ tokens[k].hex # NoHex)
    IN  [i \in DOMAIN held |-> tokens[held[i]].hex]

PopulatedFonts(tokens) ==
    {k \in FontSlots \intersect DOMAIN tokens : tokens[k].stack # <<>>}

BrandHues(colors) == ToSet(colors) \ (TrivialGrayscale \union AllCmsColors)

ScorePaletteDiversity(colors) ==
    LET count == Cardinality(BrandHues(colors))
    IN  IF count >= DiversityFullAt THEN Unit ELSE (count * Unit) \div DiversityFullAt

\* identify_generic_default_matches(): once for every slot that matches.
GenericDefaultMatches(colors) ==
    SelectSeq(colors, LAMBDA c : c \in AllCmsColors /\ c \notin TrivialGrayscale)

ScoreGenericDefaults(count) == IF count >= 4 THEN 0 ELSE Unit - count * (Unit \div 4)

GenericFonts(tokens) == {k \in PopulatedFonts(tokens) : tokens[k].stack \in DefaultFonts}

ScoreFontSpecificity(tokens) ==
    LET fonts == Cardinality(PopulatedFonts(tokens))
    IN  IF fonts = 0 THEN 0
        ELSE Unit - (Cardinality(GenericFonts(tokens)) * Unit) \div fonts

\* A pass that was not run scores as one that missed nothing.
ScoreScreenshotConsistency(warning) ==
    IF ~warning.run \/ Cardinality(warning.missed) = 0 THEN Unit
    ELSE IF Cardinality(warning.missed) >= 5 THEN 0
    ELSE Unit - Cardinality(warning.missed) * 2000

Composite(diversity, defaults, fonts, screenshot) ==
    (35 * diversity + 25 * defaults + 25 * fonts + 15 * screenshot) \div 100

Flags(tokens, warning, composite) ==
    LET colors == PopulatedColors(tokens)
        matches == GenericDefaultMatches(colors)
        fonts == PopulatedFonts(tokens)
    IN  {<<"matches", IdentifyCmsMatch(matches[i])>> : i \in DOMAIN matches}
        \union (IF colors = <<>> THEN {<<"no color">>}
                ELSE IF BrandHues(colors) = {} THEN {<<"no brand hue">>} ELSE {})
        \union (IF fonts = {} THEN {<<"no font">>}
                ELSE IF GenericFonts(tokens) # {} THEN {<<"generic fonts">>} ELSE {})
        \union (IF ~warning.run THEN {<<"not run">>}
                ELSE IF warning.missed # {} THEN {<<"missed">>} ELSE {})
        \union (IF composite < WarnThreshold THEN {<<"low confidence">>} ELSE {})

\* compute_confidence_rubric()
ComputeConfidenceRubric(tokens, warning) ==
    LET colors == PopulatedColors(tokens)
        count == Len(GenericDefaultMatches(colors))
        composite == Composite(ScorePaletteDiversity(colors), ScoreGenericDefaults(count),
                               ScoreFontSpecificity(tokens),
                               ScoreScreenshotConsistency(warning))
    IN  [palette_diversity |-> ScorePaletteDiversity(colors), matches |-> count,
         font_specificity |-> ScoreFontSpecificity(tokens),
         screenshot |-> ScoreScreenshotConsistency(warning),
         composite |-> composite, flags |-> Flags(tokens, warning, composite)]
=============================================================================
