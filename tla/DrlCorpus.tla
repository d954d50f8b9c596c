----------------------------- MODULE DrlCorpus -----------------------------
(***************************************************************************)
(* The design reference library on disk and what the seed makes of it      *)
(* (scripts/seed_from_drl.py, transformer, app/metadata_overrides.py).  A  *)
(* corpus is a sequence of systems                                         *)
(*   [slug, name, tier, category, principles, assets]                      *)
(* and an asset a record                                                   *)
(*   [class, slug, kind, path, tags, applicable, tokens, html]:            *)
(* path is the rank of its path among the others, tokens what              *)
(* parse_tokens_css finds (<<>> without a file), html its asset.html       *)
(* [head, styles, body] or NoHtml.                                         *)
(***************************************************************************)
EXTENDS WholeMining

CONSTANTS
    NoHtml,         \* an asset without asset.html
    CurationOverlay, \* [brand -> [category, remove, add]], partial
    MineableClasses \* MINEABLE_ATOM_CLASSES, in order

IsList(s) == Len(s) \in Nat /\ s = [i \in 1..Len(s) |-> s[i]]

ASSUME ClassesAssumption == IsList(MineableClasses)

\* A corpus as load_corpus finds it: one entry per system, and a source_id that
\* is unique per asset, as brand_strip takes it to be.
IsCorpus(corpus) ==
    /\ IsList(corpus)
    /\ \A s \in DOMAIN corpus : IsList(corpus[s].assets)
    /\ \A s, t \in DOMAIN corpus : corpus[s].slug = corpus[t].slug => s = t
    /\ \A s \in DOMAIN corpus : \A a, b \in ToSet(corpus[s].assets) :
          a.class = b.class /\ a.slug = b.slug => a = b

\* The elements of s at some of its positions, in order.
Among(s, I) == FlattenSeq([i \in DOMAIN s |-> IF i \in I THEN <<s[i]>> ELSE <<>>])

-----------------------------------------------------------------------------
(* Which assets. *)

IterAssets(corpus) ==
    FlattenSeq([s \in DOMAIN corpus |->
        [a \in DOMAIN corpus[s].assets |->
            [system |-> corpus[s], asset |-> corpus[s].assets[a]]]])

\* --source-system; --limit is not modelled.
FilterAssets(pairs, system) ==
    Among(pairs, {i \in DOMAIN pairs : pairs[i].system.slug = system})

-----------------------------------------------------------------------------
(* What is kept of an asset. *)

\* brand_strip raises.
Malformed(pair) == "" \in {pair.system.slug, pair.asset.class, pair.asset.slug}

SourceUrl(pair) ==
    [system |-> pair.system.slug, class |-> pair.asset.class,
     slug |-> pair.asset.slug, mined |-> FALSE]

\* brand_strip: no tag that is the brand's slug or name.
BrandStrip(pair) ==
    [url |-> SourceUrl(pair), class |-> pair.asset.class, slug |-> pair.asset.slug,
     tags |-> pair.asset.tags \ {pair.system.slug, pair.system.name},
     applicable |-> pair.asset.applicable,
     tier |-> pair.system.tier, category |-> pair.system.category]

TokenEdits(current, override) == (current \ override.remove) \cup override.add

\* apply_metadata_overrides: one correction for all assets of the brand.
ApplyMetadataOverrides(stripped) ==
    IF stripped.url.system \notin DOMAIN CurationOverlay THEN stripped
    ELSE LET override == CurationOverlay[stripped.url.system]
         IN [stripped EXCEPT
                !.category = IF override.category = "" THEN @ ELSE override.category,
                !.applicable = TokenEdits(@, override),
                !.tags = TokenEdits(@, override)]

\* build_bundle: the dtcg_json of the asset version.
BuildBundle(stripped, tokens, principles) ==
    [class |-> stripped.class, slug |-> stripped.slug, tags |-> stripped.tags,
     applicable |-> stripped.applicable, tier |-> stripped.tier,
     category |-> stripped.category, principles |-> principles,
     tokens |-> tokens, mined |-> FALSE]

SeededBundle(pair) ==
    BuildBundle(ApplyMetadataOverrides(BrandStrip(pair)), pair.asset.tokens,
                pair.system.principles)

-----------------------------------------------------------------------------
(* The component of an asset. *)

\* extract_drl_head_font_link_tags
FontLinks(head) ==
    SelectSeq(head, LAMBDA link : link.rel = "stylesheet"
                                  /\ link.host = "fonts.googleapis.com")

\* extract_component_css, extract_component_html
ComponentOf(html) ==
    LET css == StripComments(html.styles)
    IN [kind |-> "component", html |-> StripComments(html.body), css |-> css,
        states |-> StatesPresent(css), fontLinks |-> FontLinks(html.head)]

-----------------------------------------------------------------------------
(* Atoms mined from the wholes of a brand. *)

\* Standalone atoms, by the directory of their path: it is their class.
StandaloneClasses(system) ==
    {a.class : a \in {x \in ToSet(system.assets) : x.kind = "atom"}}

WholesInOrder(system) ==
    SortSeq(SelectSeq(system.assets, LAMBDA a : a.kind = "whole"),
            LAMBDA a, b : a.path < b.path)

\* The first whole, by path, that holds an atom of the class.
WholesYielding(system, class) ==
    SelectSeq(WholesInOrder(system),
              LAMBDA a : a.html # NoHtml /\ MineAtom(a.html, class).html # <<>>)

\* mine_and_persist_atoms_for_brand: url, dtcg and component of each synthetic
\* version.  The overlay of app/metadata_overrides.py is not applied to them.
MinedSynthetics(system) ==
    LET open == Among(MineableClasses, {i \in DOMAIN MineableClasses :
                    LET c == MineableClasses[i] IN
                    c \notin StandaloneClasses(system) /\ WholesYielding(system, c) # <<>>})
        whole(c) == WholesYielding(system, c)[1]
        mined(c) == MineAtom(whole(c).html, c)
    IN [i \in DOMAIN open |-> LET c == open[i] IN
          [url |-> [system |-> system.slug, class |-> c,
                    slug |-> whole(c).slug, mined |-> TRUE],
           dtcg |-> [class |-> c, slug |-> whole(c).slug, tags |-> {},
                     applicable |-> whole(c).applicable, tier |-> system.tier,
                     category |-> system.category, principles |-> system.principles,
                     tokens |-> whole(c).tokens, mined |-> TRUE],
           component |-> [kind |-> "component", html |-> mined(c).html,
                          css |-> mined(c).css, states |-> mined(c).states,
                          fontLinks |-> <<>>]]]
=============================================================================
