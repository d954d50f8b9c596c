---------------------------- MODULE ComponentCss ----------------------------
(***************************************************************************)
(* The CSS of a component, as iter_css_rules walks it                      *)
(* (app/library_style_scope.py): a sequence of rules                       *)
(*   [kind, selectors, animations, name, inner]                            *)
(* of kind plain, nested (@media and the like, whose inner rules are       *)
(* plain), keyframes, declaration (@font-face and the rest) or comment.    *)
(* A selector is a sequence of compounds [el, classes, states], el the     *)
(* element, ":root", "*" or "".  Nesting is modelled one level deep.       *)
(***************************************************************************)
EXTENDS Sequences, SequencesExt

Wrapper == ".rs-library-page"

\* strip_provenance_comments, on a style sheet or on markup
StripComments(s) == SelectSeq(s, LAMBDA x : x.kind # "comment")

-----------------------------------------------------------------------------
(* scope_style_block: the selectors of a page stay inside its article. *)

ScopeSelector(selector) ==
    LET first == Head(selector)
        bare == first.classes = {} /\ first.states = {}
        wrapped == <<[el |-> Wrapper, classes |-> {}, states |-> {}]>>
    IN CASE first.el = ":root" /\ bare -> selector
         [] first.el = Wrapper -> selector
         [] first.el \in {"html", "body"} /\ ~bare ->
                <<[first EXCEPT !.el = Wrapper]>> \o Tail(selector)
         [] first.el \in {"html", "body"} /\ bare -> wrapped \o Tail(selector)
         [] OTHER -> wrapped \o selector

ScopePlain(rule) ==
    [rule EXCEPT !.selectors = {ScopeSelector(s) : s \in rule.selectors}]

ScopeRule(rule) ==
    CASE rule.kind = "plain" -> ScopePlain(rule)
      [] rule.kind = "nested" ->
             [rule EXCEPT !.inner =
                 [i \in DOMAIN rule.inner |-> ScopePlain(rule.inner[i])]]
      [] OTHER -> rule

ScopeStyleBlock(css) == [i \in DOMAIN css |-> ScopeRule(css[i])]

-----------------------------------------------------------------------------
(* css_rules_for_classes (app/whole_mining.py) *)

\* The subject of a selector is its last compound.
SubjectMatches(selector, classes) == Last(selector).classes \cap classes # {}

PlainMatches(rule, classes) ==
    \E s \in rule.selectors : SubjectMatches(s, classes)

KeepInner(rule, classes) ==
    SelectSeq(rule.inner, LAMBDA r : PlainMatches(r, classes))

KeepsRule(rule, classes) ==
    \/ rule.kind = "plain" /\ PlainMatches(rule, classes)
    \/ rule.kind = "nested" /\ KeepInner(rule, classes) # <<>>

\* Kept rules first, then the keyframes that a kept plain rule plays.  A rule
\* kept inside an at-rule does not count for the keyframes outside it.
CssRulesForClasses(css, classes) ==
    LET kept == SelectSeq(css, LAMBDA r : KeepsRule(r, classes))
        played == UNION {r.animations : r \in {x \in ToSet(kept) : x.kind = "plain"}}
        cut(r) == IF r.kind = "nested"
                  THEN [r EXCEPT !.inner = KeepInner(r, classes)] ELSE r
    IN [i \in DOMAIN kept |-> cut(kept[i])]
          \o SelectSeq(css, LAMBDA r : r.kind = "keyframes" /\ r.name \in played)

\* derive_states_present: the states any selector names, and "rest".
StatesPresent(css) ==
    LET rules == ToSet(css) \cup UNION {ToSet(r.inner) : r \in ToSet(css)}
    IN {"rest"} \cup UNION {compound.states :
           compound \in UNION {ToSet(s) : s \in UNION {r.selectors : r \in rules}}}
=============================================================================
