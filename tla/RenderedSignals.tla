-------------------------- MODULE RenderedSignals --------------------------
(***************************************************************************)
(* What a headless browser adds to the signals of a page: the computed     *)
(* styles of a census of elements (extractor/computed_styles.py) and the   *)
(* dominant colours of a screenshot (extractor/screenshot_palette.py), and *)
(* the comparison of those with the declared colours.                      *)
(*                                                                         *)
(* A colour is <<r, g, b>>; distances are compared squared.  A rendering   *)
(* is what the browser would do with the page: the failure it ends in, the *)
(* style each selector finds and the number of pixels of each colour.      *)
(***************************************************************************)
EXTENDS Integers, Sequences, FiniteSets, SequencesExt

CONSTANTS
    CensusDefault,      \* ELEMENT_CENSUS: a sequence of [selector, slot]
    SelectorOverrides,  \* BRAND_SELECTOR_OVERRIDES: [brand -> [slot -> selector or Skip]]
    WaitOverrides,      \* BRAND_WAIT_STRATEGY_OVERRIDES: [brand -> strategy]
    Skip,               \* the None of an override
    NoBrand,
    MaxDominantColors,  \* MAX_DOMINANT_COLORS
    FractionPerMille    \* DOMINANT_PIXEL_FRACTION, in thousandths

\* Eight colours, each of at least half a percent.
ASSUME PaletteAssumption ==
    /\ MaxDominantColors \in Nat \ {0}
    /\ FractionPerMille \in Nat /\ FractionPerMille * MaxDominantColors <= 1000

ValidWaitStrategies == {"domcontentloaded", "networkidle"}
QuantizationStep == 16
SimilaritySquared == 8 * 8      \* COLOR_SIMILARITY_THRESHOLD, squared

-----------------------------------------------------------------------------
(* Computed styles                                                         *)

EmptyReport(status) == [status |-> status, signals |-> <<>>]

\* resolve_census(): the brand's selectors in place of the default ones, and
\* no entry at all where the brand skips the slot.
ResolveCensus(brand) ==
    IF brand \notin DOMAIN SelectorOverrides THEN CensusDefault
    ELSE LET over == SelectorOverrides[brand]
             kept == SelectSeq(CensusDefault, LAMBDA e :
                        ~(e.slot \in DOMAIN over /\ over[e.slot] = Skip))
         IN  [i \in DOMAIN kept |-> IF kept[i].slot \in DOMAIN over
                                    THEN [kept[i] EXCEPT !.selector = over[kept[i].slot]]
                                    ELSE kept[i]]

\* resolve_wait_strategy(): argument, then brand, then environment, then default.
ResolveWaitStrategy(explicit, brand, env) ==
    LET candidate == IF explicit # "" THEN explicit
                     ELSE IF brand \in DOMAIN WaitOverrides THEN WaitOverrides[brand]
                     ELSE IF env # "" THEN env ELSE "domcontentloaded"
    IN  IF candidate \in ValidWaitStrategies THEN candidate ELSE "domcontentloaded"

\* The capture script: the elements a census finds that have a style.  A page
\* that hydrates shows its late elements only under networkidle.
Evaluate(census, rendering, wait) ==
    LET found == SelectSeq(census, LAMBDA e :
                    /\ e.selector \in DOMAIN rendering.styles
                    /\ e.selector \notin rendering.late \/ wait = "networkidle"
                    /\ rendering.styles[e.selector] # {})
    IN  [i \in DOMAIN found |-> [slot |-> found[i].slot, selector |-> found[i].selector,
                                 properties |-> rendering.styles[found[i].selector]]]

\* capture_computed_styles(): the census of the brand, then the default
\* selectors for the slots whose own selector found nothing.
CaptureComputedStyles(rendering, brand, explicit, env) ==
    IF rendering.browser # "ok" THEN EmptyReport(rendering.browser)
    ELSE LET wait == ResolveWaitStrategy(explicit, brand, env)
             primary == Evaluate(ResolveCensus(brand), rendering, wait)
             found == {primary[i].slot : i \in DOMAIN primary}
             missing == IF brand \notin DOMAIN SelectorOverrides THEN {}
                        ELSE {s \in DOMAIN SelectorOverrides[brand] :
                                 SelectorOverrides[brand][s] # Skip /\ s \notin found}
             again == SelectSeq(CensusDefault, LAMBDA e : e.slot \in missing)
         IN  [status |-> "ok",
              signals |-> primary \o Evaluate(again, rendering, wait)]

-----------------------------------------------------------------------------
(* The screenshot palette                                                  *)

Bucket(c) == [i \in 1..3 |-> (c[i] \div QuantizationStep) * QuantizationStep]

SumOver(f, S) == FoldSet(LAMBDA x, n : n + f[x], 0, S)

\* Mutant: the first buckets met, not the largest ones.
TakeFirst(buckets) ==
    [b \in {x \in DOMAIN buckets :
               Cardinality({y \in DOMAIN buckets : buckets[y] < buckets[x]})
                  < MaxDominantColors} |-> buckets[b]]

\* The largest buckets, MAX_DOMINANT_COLORS of them: a stable sort, whose ties
\* are broken here by the channels.
TakeLargest(buckets) ==
    LET before(x, y) == buckets[x] > buckets[y] \/ (buckets[x] = buckets[y] /\
                          (x[1] * 65536 + x[2] * 256 + x[3] < y[1] * 65536 + y[2] * 256 + y[3]))
    IN  [b \in {x \in DOMAIN buckets :
                   Cardinality({y \in DOMAIN buckets : before(y, x)}) < MaxDominantColors} |->
            buckets[b]]

\* _decode_png_and_count(): opaque pixels per bucket, those that cover the
\* fraction of all pixels, transparent ones included in the total.
CountPixels(rendering) ==
    LET px == rendering.pixels
        total == SumOver(px, DOMAIN px) + rendering.transparent
        keys == {Bucket(c) : c \in DOMAIN px}
        counts == [k \in keys |-> SumOver(px, {c \in DOMAIN px : Bucket(c) = k})]
        dominant == {k \in keys : counts[k] * 1000 >= FractionPerMille * total}
    IN  TakeLargest([k \in dominant |-> counts[k]])

\* capture_screenshot_palette(): the colours, or none with the status of the failure.
CaptureScreenshotPalette(rendering) ==
    IF rendering.shot # "ok" THEN [status |-> rendering.shot, colors |-> <<>>]
    ELSE [status |-> "ok", colors |-> CountPixels(rendering)]

DistanceSquared(a, b) ==
    (a[1] - b[1]) * (a[1] - b[1]) + (a[2] - b[2]) * (a[2] - b[2]) + (a[3] - b[3]) * (a[3] - b[3])

\* filter_against_declared(): the colours of the screenshot no declared colour
\* is near; all of them where nothing is declared.
FilterAgainstDeclared(report, declared) ==
    {c \in DOMAIN report.colors :
        \A d \in declared : DistanceSquared(c, d) > SimilaritySquared}

\* palette_completeness_warning(): None, or the colours that survive the filter.
PaletteCompletenessWarning(report, declared) ==
    IF report.status # "ok" THEN {} ELSE FilterAgainstDeclared(report, declared)

\* render_for_prompt(): the colours the palette block of the prompt lists.
RenderPalette(report, declared) ==
    IF report.status # "ok" THEN {}
    ELSE IF declared # {} THEN FilterAgainstDeclared(report, declared)
    ELSE DOMAIN report.colors
=============================================================================
