---------------------------- MODULE LibraryReads ----------------------------
(***************************************************************************)
(* What the public library routes answer (app/routes/library.py) from the  *)
(* rows the indexer wrote.  lib is a snapshot of the tables:               *)
(*   versions   asset_versions, a sequence indexed by id                   *)
(*   pages      [<<version, category>> -> [brand, label, page, metadata]]  *)
(*   canonical  the <<version, category>> that are is_canonical            *)
(* An answer is the set of rows it may be: ORDER BY ... fetched_at DESC    *)
(* LIMIT 1 leaves the choice among equals open, and {} is a 404.           *)
(***************************************************************************)
EXTENDS PageComposer

CONSTANTS
    NameWords,      \* [token slot -> the words of its name, ds- removed]
    ValueWords,     \* [token value -> the set of words in it]
    ColourValue,    \* values that are a hex, rgb or hsl colour
    LengthValue,    \* values in px, rem or em
    BrandWords,     \* [brand slug -> words of the slug and of its source host]
    Stopwords,      \* _DOMAIN_STOPWORDS
    InternalLabel,  \* version labels no visitor is shown
    AppleSignature, \* [category -> classes its finished page must show], partial
    AppleCompleted, \* _APPLE_COMPLETED_CATEGORY_SLUGS
    AppleMinLength, \* _APPLE_READY_MIN_HTML_CHARS, in markup events
    HexColour,      \* values _HEX_COLOR_RE matches
    RelatedCap,     \* sibling categories of a brand's related list
    ReservedBrandSlugs, \* RESERVED_BRAND_SLUGS
    MalformedBrand,     \* brand slugs _BRAND_SLUG_RE refuses: empty or over 64 characters
    MalformedCategory,  \* categories _CATEGORY_SLUG_RE refuses, and labels
    MalformedLabel      \* _VERSION_LABEL_RE refuses: no slug, or over 128 characters

\* The one alias a route of the pilot brand turns back; and every name of an
\* aliased category has the shape of a slug.
ASSUME AliasAssumption ==
    /\ {c \in DOMAIN DrlToPublicCategory : DrlToPublicCategory[c] = "form-fields"} = {"forms"}
    /\ \A c \in DOMAIN DrlToPublicCategory :
          {c, DrlToPublicCategory[c]} \cap (MalformedCategory \cup {"none"}) = {}

-----------------------------------------------------------------------------
(* The tokens a page offers for export (app/library_token_exports.py),     *)
(* scrubbed of the words of the brand and of where they came from.  Names  *)
(* and values are what _kebab and the word boundaries make of them:        *)
(* sequences and sets of words.                                            *)

InternalNameParts == {"resemblio", "drl", "urn", "seed", "bootstrap", "mined", "rebuild"}

ProtectedParts(brand) == BrandWords[brand] \ Stopwords

\* _classify_flat_token: the group of a token, by the first word of its name
\* and then by its value, and the words its leaf keeps.
Group(token) ==
    LET first == Head(NameWords[token.slot])
        long == Len(NameWords[token.slot]) > 1
    IN CASE long /\ first = "font" -> "fontFamily"
         [] long /\ first \in {"space", "radius", "container", "breakpoint", "section"} ->
                "dimension"
         [] long /\ first = "text" /\ token.value \in LengthValue -> "dimension"
         [] long /\ first = "shadow" -> "shadow"
         [] long /\ first = "duration" -> "duration"
         [] long /\ first = "ease" -> "cubicBezier"
         [] token.value \in ColourValue -> "color"
         [] OTHER -> "none"

LeafWords(token) ==
    LET words == NameWords[token.slot]
        prefix == [fontFamily |-> "font", shadow |-> "shadow", duration |-> "duration",
                   cubicBezier |-> "ease", color |-> "color"]
        group == Group(token)
    IN IF group \in DOMAIN prefix /\ Len(words) > 1 /\ Head(words) = prefix[group]
       THEN Tail(words) ELSE words

\* _safe_value
SafeValue(token, protected) ==
    ValueWords[token.value] \cap (protected \cup InternalNameParts) = {}

\* _safe_leaf_name: refused for an internal word, else without protected ones;
\* <<>> stands for the numbered fallback.
SafeLeaf(token, protected) ==
    SelectSeq(LeafWords(token), LAMBDA w : w \notin protected)

NameIsSafe(token) == ToSet(LeafWords(token)) \cap InternalNameParts = {}

\* _from_flat_tokens and _add_token: a name taken gets a number of its own.
ExportTokens(tokens, brand) ==
    LET protected == ProtectedParts(brand)
        kept == SelectSeq(tokens, LAMBDA t : /\ Group(t) # "none"
                                             /\ SafeValue(t, protected)
                                             /\ NameIsSafe(t))
        name(i) == [group |-> Group(kept[i]), leaf |-> SafeLeaf(kept[i], protected)]
        copy(i) == Cardinality({j \in 1..i : name(j) = name(i)})
    IN [i \in DOMAIN kept |->
           [group |-> name(i).group, leaf |-> name(i).leaf, copy |-> copy(i),
            value |-> kept[i].value]]

\* build_library_token_payload: nothing is offered rather than an empty file.
IsExportable(tokens, brand) == ExportTokens(tokens, brand) # <<>>

-----------------------------------------------------------------------------
(* Rows. *)

PublicRows(lib) == {r \in DOMAIN lib.pages : lib.versions[r[1]].public}

BrandRows(lib, brand) == {r \in PublicRows(lib) : lib.pages[r].brand = brand}

Newest(lib, rows) ==
    {r \in rows : \A q \in rows :
        lib.versions[q[1]].fetched <= lib.versions[r[1]].fetched}

\* The first of two queries that finds a row.
FirstAnswer(rows, others) == IF rows # {} THEN rows ELSE others

-----------------------------------------------------------------------------
(* _public_readiness_status *)

Leaks(page) ==
    page.kind = "component" /\ \E e \in ToSet(page.html) : e.tag = "provenance"

HasMarker(page) == page.kind = "component"

PageClasses(page) ==
    IF page.kind = "component" THEN UNION {e.classes : e \in ToSet(page.html)} ELSE {}

\* A finished page of the pilot brand shows its signature or, without one, is a
\* real component of a completed category and long enough.
ApplePilotIsReady(category, page) ==
    /\ \A e \in IF HasMarker(page) THEN ToSet(page.html) ELSE {} : e.tag # "placeholder"
    /\ IF category \in DOMAIN AppleSignature
       THEN AppleSignature[category] \subseteq PageClasses(page)
       ELSE category \in AppleCompleted /\ HasMarker(page)
                /\ Len(page.html) >= AppleMinLength

Readiness(brand, category, page) ==
    CASE Leaks(page) -> "fix_leak"
      [] ~Leaks(page) /\ brand = "apple" ->
             IF ApplePilotIsReady(CanonicalPublicCategory(category), page)
             THEN "ready" ELSE "hold_no_marker"
      [] OTHER -> IF category = "none" \/ HasMarker(page) THEN "ready"
                                                          ELSE "hold_no_marker"

\* _apple_public_asset_slug
PublicSlug(brand, category) ==
    LET canonical == CanonicalPublicCategory(category)
    IN IF brand = "apple" /\ canonical = "form-fields" THEN "forms" ELSE canonical

ReadyRow(lib, r) ==
    LET brand == lib.pages[r].brand
    IN Readiness(brand, PublicSlug(brand, r[2]), lib.pages[r].page) = "ready"

-----------------------------------------------------------------------------
(* The routes. *)

CanonicalRows(lib, brand) == BrandRows(lib, brand) \cap lib.canonical

InCategory(rows, category) == {r \in rows : r[2] = category}

\* _validate_brand_slug, _validate_category_slug, _validate_version_label: what
\* they refuse is a 404 before any query.
ValidBrandSlug(brand) == brand \notin ReservedBrandSlugs \cup MalformedBrand
ValidCategorySlug(category) == category \notin MalformedCategory
ValidVersionLabel(label) == label \notin MalformedLabel

\* GET /library/brands/{brand}
GetBrandCanonical(lib, brand) ==
    LET featured == IF brand = "apple" THEN "hero" ELSE "alphabet"
        rows == CanonicalRows(lib, brand)
    IN IF ~ValidBrandSlug(brand) THEN {}
       ELSE FirstAnswer(Newest(lib, InCategory(rows, featured)), Newest(lib, rows))

\* GET /library/brands/{brand}/versions/{label}
GetBrandVersionSnapshot(lib, brand, label) ==
    IF ~(ValidBrandSlug(brand) /\ ValidVersionLabel(label)) THEN {}
    ELSE Newest(lib, {r \in BrandRows(lib, brand) : lib.pages[r].label = label})

\* GET /library/brands/{brand}/categories/{category}, and category_lookup_slugs:
\* the slug as it is asked for, then the public one it is an alias of.
GetBrandCategoryCanonical(lib, brand, category) ==
    LET answer(slug) == Newest(lib, InCategory(CanonicalRows(lib, brand), slug))
    IN IF ~(ValidBrandSlug(brand) /\ ValidCategorySlug(category)) THEN {}
       ELSE FirstAnswer(answer(category), answer(CanonicalPublicCategory(category)))

\* The canonical row of a category and label first, then the newest.
CategoryVersionLookup(lib, brand, category, label) ==
    LET labelled(slug) == {r \in InCategory(BrandRows(lib, brand), slug) :
                              lib.pages[r].label = label}
        best(rows) == IF rows \cap lib.canonical # {} THEN rows \cap lib.canonical
                                                      ELSE rows
        answer(slug) == Newest(lib, best(labelled(slug)))
    IN FirstAnswer(answer(category), answer(CanonicalPublicCategory(category)))

\* GET .../categories/{category}/{label}; the sitemap lists no path below it.
GetBrandCategoryVersion(lib, brand, category, label) ==
    IF ~(ValidBrandSlug(brand) /\ ValidCategorySlug(category) /\ ValidVersionLabel(label))
    THEN {} ELSE CategoryVersionLookup(lib, brand, category, label)

\* _related_for: ready sibling categories, the first RelatedCap of them, and
\* the version labels a visitor may see.
RelatedFor(lib, brand, exclude) ==
    LET rows == BrandRows(lib, brand)
        ready == {PublicSlug(brand, r[2]) : r \in {x \in rows : ReadyRow(lib, x)}}
                     \ {PublicSlug(brand, exclude)}
    IN [categories |-> ready,
        shown |-> IF brand = "apple" \/ Cardinality(ready) <= RelatedCap
                  THEN Cardinality(ready) ELSE RelatedCap,
        versions |-> {lib.pages[r].label : r \in rows} \ (InternalLabel \cup {"none"})]

\* _extract_curated_metadata: the fields that hold something.
ExtractCuratedMetadata(dtcg) ==
    LET present == {f \in {"tier", "category", "principles"} : dtcg[f] # ""}
    IN [f \in present |-> dtcg[f]]

\* _page_to_data; a route without a category passes "none".
PageToData(lib, r, category) ==
    LET row == lib.pages[r]
        version == lib.versions[r[1]]
        readiness == Readiness(row.brand, category, row.page)
    IN [readiness |-> readiness,
        exportable |-> readiness = "ready" /\ IsExportable(version.dtcg.tokens, row.brand),
        missing |-> row.metadata.missing,
        captured |-> row.metadata.groups,
        curated |-> ExtractCuratedMetadata(version.dtcg),
        related |-> RelatedFor(lib, row.brand, category)]

\* _apple_root_manifest_fields
AppleRootManifest(lib) ==
    LET ready == {r[2] : r \in {x \in BrandRows(lib, "apple") : ReadyRow(lib, x)}}
        done == {CanonicalPublicCategory(c) : c \in ready} \cap AppleCompleted
    IN [missing |-> AppleCompleted \ done,
        captured |-> done \cup {PublicSlug("apple", c) : c \in done}]

-----------------------------------------------------------------------------
(* The hub and the sitemap. *)

\* _palette_from_metadata: accent first, hex only, without repeats.
Palette(colours) ==
    FoldLeft(LAMBDA seen, slot :
                 IF colours[slot] \notin HexColour \/ colours[slot] \in ToSet(seen)
                 THEN seen ELSE Append(seen, colours[slot]),
             <<>>, <<"accent", "bg", "surface", "text">>)

\* _hub_meta_for_brand: the look of the newest page, the captured groups of all.
HubCard(lib, brand) ==
    LET rows == BrandRows(lib, brand)
        groups == UNION {lib.pages[r].metadata.groups : r \in rows}
    IN [categories |-> Cardinality({r[2] : r \in rows}),
        palettes |-> {Palette(lib.pages[r].metadata.colours) : r \in Newest(lib, rows)},
        signal |-> HubCaptureSignal(groups)]

ListBrands(lib) ==
    LET brands == {lib.pages[r].brand : r \in PublicRows(lib)}
    IN [b \in brands |-> HubCard(lib, b)]

\* GET /library/sitemap: paths [brand, category, label], "none" where the path
\* has no such part.
Sitemap(lib) ==
    LET path(b, c, l) == [brand |-> b, category |-> c, label |-> l]
        rows == PublicRows(lib)
        listed(r) ==
            LET b == lib.pages[r].brand
                c == PublicSlug(b, r[2])
                l == lib.pages[r].label
            IN {path(b, "none", "none")} \cup
               (IF ~ReadyRow(lib, r) THEN {}
                ELSE {path(b, c, "none")} \cup
                     (IF l \in InternalLabel \cup {"none"} THEN {}
                      ELSE {path(b, "none", l), path(b, c, l)}))
    IN UNION {listed(r) : r \in rows}

\* The rows the route of a path answers with.
Serve(lib, p) ==
    CASE p.category = "none" /\ p.label = "none" -> GetBrandCanonical(lib, p.brand)
      [] p.category = "none" /\ p.label # "none" ->
             GetBrandVersionSnapshot(lib, p.brand, p.label)
      [] p.category # "none" /\ p.label = "none" ->
             GetBrandCategoryCanonical(lib, p.brand, p.category)
      [] OTHER -> GetBrandCategoryVersion(lib, p.brand, p.category, p.label)
=============================================================================
