------------------------------ MODULE WebFonts ------------------------------
(***************************************************************************)
(* The free typefaces a library page loads in place of the brand's own     *)
(* (app/brand_font_registry.py, app/library_web_fonts.py).  A family is    *)
(* the sequence of its words, as _normalize_key leaves it; StackOf is what *)
(* _parse_family_stack makes of the value of a font token.                 *)
(***************************************************************************)
EXTENDS Naturals, Sequences, SequencesExt

CONSTANTS
    StackOf,        \* [token value -> the families it lists, in order]
    Registry,       \* <<[key |-> family, free |-> family]>>, the curated rows
    DefaultFree,    \* the free family of an unknown brand font
    GenericFamily   \* CSS keywords, which name no family

-----------------------------------------------------------------------------
(* lookup *)

RegistryRow(family) == SelectSeq(Registry, LAMBDA row : row.key = family)

\* The registry key left by dropping the fewest words from the end.
StemPrefix(family) ==
    LET stems == {n \in 1..(Len(family) - 1) :
                     RegistryRow(SubSeq(family, 1, n)) # <<>>}
    IN IF stems = {} THEN <<>>
       ELSE RegistryRow(SubSeq(family, 1, CHOOSE n \in stems :
                                             \A m \in stems : m <= n))

IsPart(part, whole) ==
    \E i \in 1..(Len(whole) - Len(part) + 1) :
        SubSeq(whole, i, i + Len(part) - 1) = part

ContainmentMatch(family) ==
    SelectSeq(Registry, LAMBDA row : IsPart(row.key, family) \/ IsPart(family, row.key))

DefaultMapping == [known |-> FALSE, free |-> DefaultFree]

\* The exact row, else the longest stem's, else the first that contains or is
\* contained, else the default.
Lookup(family) ==
    LET rows == IF family = <<>> THEN <<>>
                ELSE RegistryRow(family) \o StemPrefix(family) \o ContainmentMatch(family)
    IN IF rows = <<>> THEN DefaultMapping
                      ELSE [known |-> TRUE, free |-> rows[1].free]

-----------------------------------------------------------------------------
(* The slots of a page. *)

FontSlots == <<"display", "body", "mono">>

FontSlotAlias == [display |-> "font-display", body |-> "font-body", mono |-> "font-mono"]

\* The first family that is no CSS keyword, of the slot's first usable
\* declaration: ds- keys first, then bare ones.
SlotFirstPreference(slot, tokens) ==
    LET named(spelling) ==
            SelectSeq(tokens, LAMBDA t : t.slot = FontSlotAlias[slot] /\ t.spelling = spelling)
        family(t) == SelectSeq(StackOf[t.value], LAMBDA f : f \notin GenericFamily)
        usable == SelectSeq(named("ds") \o named("bare"), LAMBDA t : family(t) # <<>>)
    IN IF usable = <<>> THEN <<>> ELSE family(usable[1])[1]

\* One resolution per declared slot; the default for a brand without fonts.
Resolutions(tokens) ==
    LET declared == SelectSeq(FontSlots, LAMBDA s : SlotFirstPreference(s, tokens) # <<>>)
    IN IF declared = <<>>
       THEN <<[slot |-> "display", brand |-> <<>>, mapping |-> DefaultMapping]>>
       ELSE [i \in DOMAIN declared |->
                LET family == SlotFirstPreference(declared[i], tokens)
                IN [slot |-> declared[i], brand |-> family, mapping |-> Lookup(family)]]

\* The families of the page's one Google Fonts request, without repeats.
FreeAlternatives(tokens) ==
    FoldLeft(LAMBDA seen, r : IF r.mapping.free \in ToSet(seen) THEN seen
                              ELSE Append(seen, r.mapping.free),
             <<>>, Resolutions(tokens))

\* The --ds-font-* the page redirects to a family it loads.
FontAlternativeRoot(tokens) ==
    LET resolved == SelectSeq(Resolutions(tokens), LAMBDA r : r.brand # <<>>)
        of(slot) == SelectSeq(resolved, LAMBDA r : r.slot = slot)[1]
    IN IF resolved = <<>>
       THEN [slot \in {"display", "body"} |-> DefaultFree]
       ELSE [slot \in {r.slot : r \in ToSet(resolved)} |-> of(slot).mapping.free]

\* The disclosure names the display slot's fonts, or the first slot's.
FontDisclosure(tokens) ==
    LET all == Resolutions(tokens)
        display == SelectSeq(all, LAMBDA r : r.slot = "display")
        primary == (display \o all)[1]
    IN [brand |-> primary.brand, known |-> primary.mapping.known,
        free |-> primary.mapping.free]
=============================================================================
