---------------------------- MODULE ShadcnTheme ----------------------------
(***************************************************************************)
(* The shadcn theme a token tree is converted to                           *)
(* (converters/shadcn/src/resemblio_shadcn/converter.py and constants.py). *)
(*                                                                         *)
(* A shade is an HSL triple: saturation and lightness in tenths of a       *)
(* percent, and the colour its hue comes from (the defaults of shadcn have *)
(* hues of their own, which nothing here reads).                           *)
(***************************************************************************)
EXTENDS TokenContract, FiniteSetsExt, SequencesExt

CONSTANTS
    KeyOrder,       \* the order in which the stored tree lists its leaves
    MonoHints       \* MONO_FAMILY_HINTS: the families that name a monospace

ASSUME KeyOrderAssumption == KeyOrder \in Seq(AllowedKeys)

NeutralSaturationCeiling == 120
LightBackgroundFloor == 920
ForegroundLightnessPivot == 600
DefaultRadius == 500            \* in thousandths of a rem

Shade(hue, s, l) == [hue |-> hue, s |-> s, l |-> l]
Default(s, l) == Shade(NoHex, s, l)
NearWhite == Default(400, 980)
NearBlack == Default(474, 112)

\* A slot and the foreground that is drawn on it.
Grounded == [background |-> "foreground", card |-> "card_foreground",
             popover |-> "popover_foreground", primary |-> "primary_foreground",
             secondary |-> "secondary_foreground", muted |-> "muted_foreground",
             accent |-> "accent_foreground", destructive |-> "destructive_foreground"]

DefaultLight ==
    [background |-> Default(0, 1000), foreground |-> Default(840, 49),
     card |-> Default(0, 1000), card_foreground |-> Default(840, 49),
     popover |-> Default(0, 1000), popover_foreground |-> Default(840, 49),
     primary |-> NearBlack, primary_foreground |-> NearWhite,
     secondary |-> Default(400, 961), secondary_foreground |-> NearBlack,
     muted |-> Default(400, 961), muted_foreground |-> Default(163, 469),
     accent |-> Default(400, 961), accent_foreground |-> NearBlack,
     destructive |-> Default(842, 602), destructive_foreground |-> NearWhite,
     border |-> Default(318, 914), input |-> Default(318, 914), ring |-> Default(840, 49)]

DefaultDark ==
    [background |-> Default(840, 49), foreground |-> NearWhite,
     card |-> Default(840, 49), card_foreground |-> NearWhite,
     popover |-> Default(840, 49), popover_foreground |-> NearWhite,
     primary |-> NearWhite, primary_foreground |-> NearBlack,
     secondary |-> Default(326, 175), secondary_foreground |-> NearWhite,
     muted |-> Default(326, 175), muted_foreground |-> Default(202, 651),
     accent |-> Default(326, 175), accent_foreground |-> NearWhite,
     destructive |-> Default(628, 306), destructive_foreground |-> NearWhite,
     border |-> Default(326, 175), input |-> Default(326, 175), ring |-> Default(268, 839)]

-----------------------------------------------------------------------------
(* Colours                                                                 *)

\* round(x * 100, 1) of x = n / d, in tenths; a tie, which floats decide, goes up.
Tenths(n, d) == (2000 * n + d) \div (2 * d)

HexToHslTriple(c) ==
    LET hi == Max({c[1], c[2], c[3]}) lo == Min({c[1], c[2], c[3]})
        room == IF hi + lo <= 255 THEN hi + lo ELSE 510 - hi - lo
    IN  Shade(c, IF hi = lo THEN 0 ELSE Tenths(hi - lo, room), Tenths(hi + lo, 510))

ForegroundFor(shade) == IF shade.l <= ForegroundLightnessPivot THEN NearWhite ELSE NearBlack
InvertLightness(shade) == [shade EXCEPT !.l = 1000 - @]
BumpLightness(shade) == [shade EXCEPT !.l = IF @ + 100 > 1000 THEN 1000 ELSE @ + 100]

\* The elements of s at the indices I, in an order: the n-th has n - 1 ahead of it.
InOrder(s, I, Ahead(_, _)) ==
    [n \in 1..Cardinality(I) |->
        s[CHOOSE i \in I : Cardinality({j \in I : Ahead(j, i)}) = n - 1]]

\* _iter_color_leaves(): the hex colours of the tree, in its order.
ColorLeaves(dtcg) ==
    LET colors == IF "color" \in DOMAIN dtcg THEN dtcg["color"] ELSE <<>>
        held == {i \in DOMAIN KeyOrder : /\ KeyOrder[i] \in DOMAIN colors
                                        /\ colors[KeyOrder[i]].hex # NoHex}
        keys == InOrder(KeyOrder, held, <)
    IN  [n \in DOMAIN keys |-> HexToHslTriple(colors[keys[n]].hex)]

\* _classify_palette(): stable sorts, so equals keep the order of the tree.
ClassifyPalette(x) ==
    LET sat == {i \in DOMAIN x : x[i].s > NeutralSaturationCeiling}
        neu == {i \in DOMAIN x : x[i].s <= NeutralSaturationCeiling}
    IN  [saturated |-> InOrder(x, sat, LAMBDA i, j :
                          x[i].s > x[j].s \/ (x[i].s = x[j].s /\ i < j)),
         neutral |-> InOrder(x, neu, LAMBDA i, j :
                          x[i].l < x[j].l \/ (x[i].l = x[j].l /\ i < j)),
         light |-> InOrder(x, {i \in DOMAIN x : x[i].l >= LightBackgroundFloor}, <),
         dark |-> InOrder(x, {i \in DOMAIN x : x[i].l <= 1000 - LightBackgroundFloor}, <)]

-----------------------------------------------------------------------------
(* The two modes                                                           *)

\* The same shade, or the shade and its foreground, for some slots of a mode.
Set(mode, slots, shade) == [s \in DOMAIN mode |-> IF s \in slots THEN shade ELSE mode[s]]
SetGround(mode, slots, shade) ==
    Set(Set(mode, slots, shade), {Grounded[s] : s \in slots}, ForegroundFor(shade))

AssignSlotsLight(buckets) ==
    LET sat == buckets.saturated neu == buckets.neutral
        primary == IF sat = <<>> THEN DefaultLight
                   ELSE Set(SetGround(DefaultLight, {"primary"}, sat[1]), {"ring"}, sat[1])
        accent == IF sat = <<>> THEN primary
                  ELSE SetGround(primary, {"accent"}, sat[IF Len(sat) >= 2 THEN 2 ELSE 1])
        back == IF buckets.light = <<>> THEN accent
                ELSE Set(accent, {"background", "card", "popover"}, buckets.light[1])
        fore == IF buckets.dark = <<>> THEN back
                ELSE Set(back, {"foreground", "card_foreground", "popover_foreground"},
                         buckets.dark[1])
        soft == IF neu = <<>> THEN fore
                ELSE SetGround(fore, {"muted", "secondary"}, neu[Len(neu)])
    IN  IF Len(neu) < 2 THEN soft ELSE Set(soft, {"border", "input"}, neu[1])

\* Mutant: the text of the dark mode is the text of the light mode.
AssignSlotsDarkKeepingText(light, buckets) ==
    IF buckets.saturated = <<>> /\ buckets.neutral = <<>> THEN DefaultDark
    ELSE Set(Set(DefaultDark, {"background", "card", "popover"},
                 InvertLightness(light.background)),
             {"foreground", "card_foreground", "popover_foreground"}, light.foreground)

AssignSlotsDark(light, buckets) ==
    LET sat == buckets.saturated
        back == [s \in {"background", "card", "popover"} |->
                    IF buckets.dark # <<>> THEN buckets.dark[1] ELSE InvertLightness(light[s])]
        base == [s \in DOMAIN DefaultDark |->
                    IF s \in DOMAIN back THEN back[s] ELSE DefaultDark[s]]
        fore == Set(base, {"foreground", "card_foreground", "popover_foreground"},
                    InvertLightness(light.foreground))
        brand == IF sat = <<>> THEN fore
                 ELSE Set(SetGround(fore, {"primary"}, BumpLightness(sat[1])), {"ring"},
                          BumpLightness(sat[1]))
        accent == IF sat = <<>> THEN brand
                  ELSE SetGround(brand, {"accent"},
                                 BumpLightness(sat[IF Len(sat) >= 2 THEN 2 ELSE 1]))
        muted == InvertLightness(light.muted)
    IN  IF sat = <<>> /\ buckets.neutral = <<>> THEN DefaultDark
        ELSE Set(SetGround(accent, {"muted", "secondary"}, muted), {"border", "input"}, muted)

Charts(pool) == SubSeq(pool, 1, IF Len(pool) > 5 THEN 5 ELSE Len(pool))

-----------------------------------------------------------------------------
(* Fonts, radius, theme                                                    *)

\* _pick_fonts(): the first monospace stack and the first other one; a role
\* called mono counts as one.
PickFonts(dtcg) ==
    LET group == IF "fontFamily" \in DOMAIN dtcg THEN dtcg["fontFamily"] ELSE <<>>
        held == SelectSeq(KeyOrder, LAMBDA k : k \in DOMAIN group)
        mono == SelectSeq(held, LAMBDA k :
                    k = <<"font", "mono">> \/ ToSet(group[k].stack) \intersect MonoHints # {})
        sans == SelectSeq(held, LAMBDA k : ~ \E i \in DOMAIN mono : mono[i] = k)
    IN  [sans |-> IF sans = <<>> THEN <<>> ELSE group[sans[1]].stack,
         mono |-> IF mono = <<>> THEN <<>> ELSE group[mono[1]].stack]

\* _radius_from_dimension(): md, sm, lg, then any radius, of those that parse.
RadiusFromDimension(dtcg, parsed) ==
    LET held == IF "dimension" \notin DOMAIN dtcg THEN <<>>
                ELSE SelectSeq(<<<<"radius", "md">>, <<"radius", "sm">>, <<"radius", "lg">>>>
                                 \o SelectSeq(KeyOrder, LAMBDA k : k[1] = "radius"),
                               LAMBDA k : /\ k \in DOMAIN dtcg["dimension"]
                                          /\ dtcg["dimension"][k].text \in DOMAIN parsed)
    IN  IF held = <<>> THEN DefaultRadius ELSE parsed[dtcg["dimension"][held[1]].text]

\* dtcg_to_shadcn()
DtcgToShadcn(dtcg, parsed) ==
    LET buckets == ClassifyPalette(ColorLeaves(dtcg))
        light == AssignSlotsLight(buckets)
        fonts == PickFonts(dtcg)
    IN  [light |-> light, dark |-> AssignSlotsDark(light, buckets),
         charts_light |-> Charts(buckets.saturated \o buckets.neutral),
         charts_dark |-> Charts(buckets.saturated),
         sans |-> fonts.sans, mono |-> fonts.mono,
         radius |-> RadiusFromDimension(dtcg, parsed)]
=============================================================================
