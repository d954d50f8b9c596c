---------------------------- MODULE PageSignals ----------------------------
(***************************************************************************)
(* What the extractor reads from the fetched HTML before it asks the       *)
(* model: the custom properties of root-level rules                        *)
(* (extractor/css_root_parser.py), the web fonts                           *)
(* (extractor/font_link_parser.py) and the style digest that resolves      *)
(* var() for the brand roles (extractor/style_digest.py).                  *)
(*                                                                         *)
(* A page is its rules in source order and its font links.  The regex that *)
(* cuts rules out of a style block starts again inside an at-rule, so the  *)
(* rules of a @media block are rules like any other.  A segment of a       *)
(* selector carries what the three predicates read of it: the text, the    *)
(* head left of the first of . # : [, the letters alone, and whether it    *)
(* names a heading.                                                        *)
(***************************************************************************)
EXTENDS Integers, Sequences, FiniteSets, SequencesExt

CONSTANTS
    MaxCapturedProperties,  \* MAX_CAPTURED_PROPERTIES
    VarDepth,               \* VAR_MAX_RESOLVE_DEPTH
    None                    \* Python's None, and no value at all

ASSUME CaptureAssumption == MaxCapturedProperties \in Nat

Segment(text, head, letters, heading) ==
    [text |-> text, head |-> head, letters |-> letters, heading |-> heading]

\* A CSS value: a literal, or one var() with an optional fallback, which is a
\* literal or Nested, a var() of its own.
Nested == "nested"
Literal(v) == [var |-> None, lit |-> v, spoilt |-> FALSE]
Var(name, fallback) == [var |-> name, lit |-> fallback, spoilt |-> FALSE]

-----------------------------------------------------------------------------
(* Root-level custom properties                                            *)

Texts(selector) == [i \in DOMAIN selector |-> selector[i].text]

RootSelectors == {<<":root">>, <<"html">>, <<"body">>,
                  <<"html", "body">>, <<"body", "html">>}

\* The whole selector, or the head of one of its segments.  The head of
\* ":root" is empty, so ":root" counts only where it stands alone.
SelectorIsRootLevel(selector) ==
    \/ Texts(selector) \in RootSelectors
    \/ \E i \in DOMAIN selector : selector[i].head \in {":root", "html", "body"}

\* Mutant: a full capture also refuses a property it already holds.
CaptureNothingWhenFull(captured, d) ==
    LET same == {i \in DOMAIN captured :
                    captured[i].on = d.on /\ captured[i].name = d.name}
    IN  IF Len(captured) >= MaxCapturedProperties THEN captured
        ELSE IF same # {} THEN [i \in DOMAIN captured |->
                                  IF i \in same THEN d ELSE captured[i]]
        ELSE Append(captured, d)

\* One declaration: it replaces its (selector, name) where that was captured,
\* and is new below the cap.
Capture(captured, d) ==
    LET same == {i \in DOMAIN captured :
                    captured[i].on = d.on /\ captured[i].name = d.name}
    IN  IF same # {} THEN [i \in DOMAIN captured |->
                             IF i \in same THEN d ELSE captured[i]]
        ELSE IF Len(captured) >= MaxCapturedProperties THEN captured
        ELSE Append(captured, d)

Declared(rule) ==
    [i \in DOMAIN rule.vars |->
        [on |-> Texts(rule.on), name |-> rule.vars[i].name, value |-> rule.vars[i].value]]

\* One rule: its declarations in turn, where the selector is root-level.
CaptureRule(captured, rule) ==
    IF SelectorIsRootLevel(rule.on) THEN FoldLeft(Capture, captured, Declared(rule))
    ELSE captured

ParseRootCustomProperties(page) == FoldLeft(CaptureRule, <<>>, page.rules)

\* properties_by_name: the last entry of the capture order wins.
PropertiesByName(captured) ==
    [n \in {captured[i].name : i \in DOMAIN captured} |->
        captured[CHOOSE i \in DOMAIN captured :
                    /\ captured[i].name = n
                    /\ \A j \in DOMAIN captured : captured[j].name = n => j <= i].value]

-----------------------------------------------------------------------------
(* Web fonts                                                               *)

\* The families one stylesheet link stands for; Typekit and Adobe name none,
\* and leave a marker instead.
ClassifyLink(link) ==
    CASE link.host \in {"google", "bunny", "fontshare"} -> link.families
      [] link.host = "typekit" -> IF link.kit = None THEN <<>> ELSE <<"typekit:kit">>
      [] link.host = "adobe" ->
            <<IF link.kit = None THEN "adobe-fonts" ELSE "adobe-fonts:kit">>
      [] OTHER -> <<>>

FirstSeen(seq) ==
    FoldLeft(LAMBDA seen, x : IF \E i \in DOMAIN seen : seen[i] = x THEN seen
                              ELSE Append(seen, x), <<>>, seq)

\* parse_loaded_fonts(): stylesheet links, then @font-face, each family once.
ParseLoadedFonts(page) ==
    FirstSeen(FoldLeft(LAMBDA fams, l : IF l.stylesheet THEN fams \o ClassifyLink(l) ELSE fams,
                       <<>>, page.links) \o page.faces)

-----------------------------------------------------------------------------
(* The style digest                                                        *)

\* One substitution of resolve_var().  A fallback that is a var() of its own
\* is cut at its parenthesis: the property's value then carries that
\* parenthesis, and without a property nothing resolves any more.
Follow(v, vars) ==
    IF v.var = None THEN v
    ELSE IF v.var \in DOMAIN vars
         THEN [vars[v.var] EXCEPT !.spoilt = v.spoilt \/ v.lit = Nested]
    ELSE IF v.lit \in {None, Nested} THEN v
    ELSE [Literal(v.lit) EXCEPT !.spoilt = v.spoilt]

\* resolve_var(): a value is followed VarDepth times; what is a var() then stays one.
ResolveVar(v, vars) ==
    LET chain[d \in 0..VarDepth] == IF d = 0 THEN v ELSE Follow(chain[d - 1], vars)
    IN  chain[VarDepth]

BodySelectors == {<<"html">>, <<"body">>, <<"html", "body">>, <<"body", "html">>, <<"html body">>}

IsAccentSelector(selector) ==
    \E i \in DOMAIN selector :
        \/ selector[i].text \in {"a", "a:link", "a:visited", "a:hover", "a:focus", "a:active"}
        \/ selector[i].letters \in {"btn", "button", "cta", "link", "accent", "primary"}

NoSlots == [bg |-> None, text |-> None, font_body |-> None, font_display |-> None,
            accent |-> None]

\* One declaration of a rule: the last one wins for the body roles, the first
\* for the heading font and the accent; an unresolved value is no value.
TakeDeclaration(slots, rule, decl, vars) ==
    LET v == ResolveVar(decl.value, vars)
        body == Texts(rule.on) \in BodySelectors
        heading == \E i \in DOMAIN rule.on : rule.on[i].heading
        accent == IsAccentSelector(rule.on)
    IN  IF v.var # None THEN slots
        ELSE [bg |-> IF body /\ decl.prop = "background" THEN v.lit ELSE slots.bg,
              text |-> IF body /\ decl.prop = "color" THEN v.lit ELSE slots.text,
              font_body |-> IF body /\ decl.prop = "font-family" THEN v.lit
                            ELSE slots.font_body,
              font_display |-> IF heading /\ slots.font_display = None
                                  /\ decl.prop = "font-family"
                               THEN v.lit ELSE slots.font_display,
              accent |-> IF accent /\ slots.accent = None /\ decl.prop = "color"
                         THEN v.lit ELSE slots.accent]

ExtractBrandCascade(page, vars) ==
    FoldLeft(LAMBDA slots, rule :
                 FoldLeft(LAMBDA s, d : TakeDeclaration(s, rule, d, vars), slots, rule.decls),
             NoSlots, page.rules)

\* build_style_digest(): the web fonts fill the font roles the rules left open.
BuildStyleDigest(page, vars) ==
    LET cascade == ExtractBrandCascade(page, vars)
        families == ParseLoadedFonts(page)
    IN  [cascade EXCEPT
            !.font_body = IF @ = None /\ Len(families) >= 1 THEN families[1] ELSE @,
            !.font_display = IF @ = None /\ Len(families) >= 2 THEN families[2] ELSE @]
=============================================================================
