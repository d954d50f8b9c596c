---------------------------- MODULE TokenExport ----------------------------
(***************************************************************************)
(* The files an extraction is downloaded as (app/exporters), its Figma     *)
(* Variables (converters/figma), and who may download them                 *)
(* (app/routes/exports.py, app/routes/convert.py).                         *)
(*                                                                         *)
(* A stylesheet is the set of its declarations; a declaration's name is    *)
(* the sequence of its dash-separated segments.                            *)
(***************************************************************************)
EXTENDS TokenContract

SupportedFormats == {"dtcg", "css", "tailwind", "zip"}

Declaration(name, v) == [name |-> name, value |-> v.text]

\* _kebab() of a group name.
Kebab(group) ==
    CASE group = "fontFamily" -> <<"font", "family">>
      [] group = "cubicBezier" -> <<"cubic", "bezier">>
      [] OTHER -> <<group>>

\* Mutant: a declaration is named by the last segment alone.
DtcgToCssUnqualified(dtcg) ==
    UNION {{Declaration(SubSeq(leaf, Len(leaf), Len(leaf)), dtcg[g][leaf]) :
               leaf \in DOMAIN dtcg[g]} : g \in DOMAIN dtcg}

\* dtcg_to_css(): a custom property for every leaf of every group.
DtcgToCss(dtcg) ==
    UNION {{Declaration(Kebab(g) \o leaf, dtcg[g][leaf]) : leaf \in DOMAIN dtcg[g]} :
           g \in DOMAIN dtcg}

Namespace == [color |-> "color", fontFamily |-> "font", shadow |-> "shadow"]
DimensionNamespace == [space |-> "spacing", radius |-> "radius", text |-> "text"]

EmitSimpleGroup(dtcg, group) ==
    IF group \notin DOMAIN dtcg THEN {}
    ELSE {Declaration(<<Namespace[group]>> \o leaf, dtcg[group][leaf]) :
             leaf \in DOMAIN dtcg[group]}

EmitDimensionGroup(dtcg) ==
    IF "dimension" \notin DOMAIN dtcg THEN {}
    ELSE {Declaration(<<DimensionNamespace[leaf[1]]>> \o leaf, dtcg["dimension"][leaf]) :
             leaf \in {l \in DOMAIN dtcg["dimension"] : l[1] \in DOMAIN DimensionNamespace}}

\* dtcg_to_tailwind_theme(): only what Tailwind has a namespace for.
DtcgToTailwindTheme(dtcg) ==
    (UNION {EmitSimpleGroup(dtcg, g) : g \in DOMAIN Namespace}) \union EmitDimensionGroup(dtcg)

\* dtcg_to_zip_bundle(): the routes pass no screenshot.
DtcgToZipBundle(dtcg) ==
    [tokens |-> dtcg, css |-> DtcgToCss(dtcg), tailwind |-> DtcgToTailwindTheme(dtcg)]

BuildArtifact(fmt, dtcg) ==
    LET none == [tokens |-> <<>>, css |-> {}, tailwind |-> {}] IN
    CASE fmt = "dtcg" -> [none EXCEPT !.tokens = dtcg]
      [] fmt = "css" -> [none EXCEPT !.css = DtcgToCss(dtcg)]
      [] fmt = "tailwind" -> [none EXCEPT !.tailwind = DtcgToTailwindTheme(dtcg)]
      [] fmt = "zip" -> DtcgToZipBundle(dtcg)
      [] OTHER -> none

-----------------------------------------------------------------------------
(* The Figma Variables a token tree is converted to                        *)
(* (converters/figma/src/resemblio_figma/converter.py and constants.py).   *)

CollectionOrder == <<"Colors", "Spacing", "Typography", "Numbers">>

Routing == [color |-> [collection |-> "Colors", type |-> "COLOR"],
            dimension |-> [collection |-> "Spacing", type |-> "FLOAT"],
            fontFamily |-> [collection |-> "Typography", type |-> "STRING"],
            number |-> [collection |-> "Numbers", type |-> "FLOAT"]]

\* _convert_leaf_value(): a hex colour, a length or a number, a text; a value
\* that is none of these is skipped.  parsed holds the texts that are numbers.
Converts(v, type, parsed) ==
    CASE type = "COLOR" -> v.hex # NoHex
      [] type = "FLOAT" -> v.text \in DOMAIN parsed
      [] type = "STRING" -> TRUE

\* dtcg_path_to_figma_name() splits at the dashes of the leaf, so the name of
\* a variable is its collection and the segments of its key.
GroupVariables(dtcg, group, parsed) ==
    LET to == Routing[group] IN
    {[collection |-> to.collection, type |-> to.type, name |-> <<to.collection>> \o leaf,
      value |-> dtcg[group][leaf]] :
        leaf \in {l \in DOMAIN dtcg[group] : Converts(dtcg[group][l], to.type, parsed)}}

\* dtcg_to_figma_variables(): a collection for every routed group with a variable.
DtcgToFigmaVariables(dtcg, parsed) ==
    LET variables == UNION {GroupVariables(dtcg, g, parsed) :
                            g \in DOMAIN dtcg \intersect DOMAIN Routing}
    IN  [collections |-> SelectSeq(CollectionOrder, LAMBDA c :
                            \E v \in variables : v.collection = c),
         variables |-> variables]

-----------------------------------------------------------------------------
(* The routes                                                              *)

Empty == <<>>       \* no DTCG payload: the extraction has no asset version

\* A row as the routes see it: its owner, its payload, and the claim token of
\* its registry row if it was anonymous.
ExportExtraction(fmt, user, row) ==
    CASE fmt \notin SupportedFormats -> 400
      [] fmt \in SupportedFormats /\ (~row.exists \/ row.owner # user) -> 404
      [] fmt \in SupportedFormats /\ row.exists /\ row.owner = user ->
            IF row.dtcg = Empty THEN 409 ELSE 200

ExportAnonymousExtraction(fmt, token, row) ==
    IF fmt \notin SupportedFormats THEN 400
    ELSE IF token = "" THEN 403
    ELSE IF row.token = "" THEN 404
    ELSE IF row.token # token THEN 403
    ELSE IF ~row.exists THEN 404
    ELSE IF row.dtcg = Empty THEN 409 ELSE 200

\* convert_shadcn() and convert_figma(), up to the conversion itself.
Convert(user, row) ==
    IF ~row.exists \/ row.owner # user THEN 404
    ELSE IF row.dtcg = Empty THEN 409 ELSE 200
=============================================================================
