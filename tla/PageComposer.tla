---------------------------- MODULE PageComposer ----------------------------
(***************************************************************************)
(* What the indexer writes of an asset version for one category: the page  *)
(* (_compose_with_gate and what it calls, app/library_indexer.py) and the  *)
(* metadata beside it (_metadata_for).  A page is a record: the article's  *)
(* class and brand, the values its :root block declares, the families it   *)
(* loads and redirects to, the scoped rules, the button override and the   *)
(* body.                                                                   *)
(***************************************************************************)
EXTENDS Integers, CaptureManifest, WebFonts, ComponentCss

CONSTANTS
    Templates,      \* [class of TEMPLATES_BY_CLASS -> [slots, styles, buttons]]
    DefaultOf,      \* [slot of the contract -> its default value]
    DisplayName,    \* [brand slug -> CANONICAL_BRAND_NAMES], partial
    Preset,         \* content slots _brand_placeholder enumerates
    TemplateOverride, \* the rule of LIBRARY_TEMPLATE_OVERRIDE_CSS
    DrlToPublicCategory \* [corpus class -> public category], partial

ASSUME TemplatesAssumption == IsFiniteSet(DOMAIN Templates) /\ DOMAIN Templates # {}

CanonicalPublicCategory(class) ==
    IF class \in DOMAIN DrlToPublicCategory THEN DrlToPublicCategory[class] ELSE class

\* pretty_brand_name: the curated name, else the slug in title case.
PrettyBrandName(brand) ==
    IF brand \in DOMAIN DisplayName THEN DisplayName[brand]
                                    ELSE [titleCase |-> brand]

-----------------------------------------------------------------------------
(* Tokens into CSS. *)

\* _emit_brand_root: every slot of the contract, the brand's value before the
\* default, and whatever else the brand declares.
BrandRoot(tokens) ==
    LET own == Overrides(tokens) IN own @@ DefaultOf

\* The envelope looks a field up bare, and only then under its ds- name.
EnvelopeField(tokens, slot) ==
    LET spelled(s) == SelectSeq(tokens, LAMBDA t : t.slot = slot /\ t.spelling = s)
        found == spelled("bare") \o spelled("ds")
    IN IF found = <<>> THEN "none" ELSE found[1].value

-----------------------------------------------------------------------------
(* The shape of the brand's own button, from its computed-style snapshot   *)
(* (extractor/button_tokens.py, extractor/button_override.py).             *)

NoButton == [captured |-> FALSE]

\* derive_button_tokens: the call-to-action of a report that is ok.
ButtonTokens(report) ==
    LET cta == {s \in report.signals : s.slot = "cta" /\ s.props # {}}
    IN IF report.status # "ok" \/ cta = {} THEN NoButton
       ELSE [captured |-> TRUE, props |-> (CHOOSE s \in cta : TRUE).props]

\* _load_button_tokens; a file that cannot be read is a report not ok.
LoadButtonTokens(snapshots, brand) ==
    IF brand \in DOMAIN snapshots THEN ButtonTokens(snapshots[brand]) ELSE NoButton

\* The properties .b-btn takes over; its siblings take the radius alone.  The
\* border width is always among them: it defaults to 0px.
ButtonOverride(button) ==
    IF ~button.captured THEN [own |-> {}, siblings |-> {}]
    ELSE [own |-> {"border-width"} \cup
                  (button.props \cap {"border-radius", "padding", "font-family",
                                      "font-size", "font-weight"}),
          siblings |-> button.props \cap {"border-radius"}]

-----------------------------------------------------------------------------
(* The page. *)

EmptyPage == [kind |-> "empty"]

\* _brand_placeholder: a category's own title, a preset, else the slot's name.
Placeholder(slot, brand, category) ==
    CASE slot \in {"title", "headline"} /\ category \notin {"snapshot", "featured-snapshot"} ->
             <<PrettyBrandName(brand), category>>
      [] slot \in Preset -> <<PrettyBrandName(brand), slot>>
      [] OTHER -> <<"humanized", slot>>

TemplatePage(class, brand, tokens, button) ==
    LET bundle == Templates[class]
    IN [kind |-> "template", class |-> class, brand |-> brand,
        root |-> BrandRoot(tokens),
        fonts |-> FreeAlternatives(tokens),
        fontRoot |-> FontAlternativeRoot(tokens),
        disclosure |-> FontDisclosure(tokens),
        css |-> ScopeStyleBlock(bundle.styles) \o <<TemplateOverride>>,
        override |-> IF bundle.buttons THEN ButtonOverride(button)
                                       ELSE ButtonOverride(NoButton),
        body |-> {Placeholder(s, brand, class) : s \in bundle.slots}]

\* A real component brings the fonts its source loads, if any, and then the
\* brand's own font values are left as they are.
ComponentPage(component, class, brand, tokens) ==
    LET ownFonts == component.fontLinks # <<>>
    IN [kind |-> "component", class |-> class, brand |-> brand,
        root |-> BrandRoot(tokens),
        fonts |-> IF ownFonts THEN component.fontLinks ELSE FreeAlternatives(tokens),
        fontRoot |-> IF ownFonts THEN <<>> ELSE FontAlternativeRoot(tokens),
        disclosure |-> FontDisclosure(tokens),
        css |-> ScopeStyleBlock(component.css),
        html |-> component.html]

NoComponent == [kind |-> "none"]

\* The asset's own category shows its component or nothing; any other one its
\* template, when the manifest admits it.
ComposeWithGate(class, own, component, brand, tokens, button, manifest) ==
    IF class = CanonicalPublicCategory(own)
    THEN IF component # NoComponent THEN ComponentPage(component, class, brand, tokens)
                                    ELSE EmptyPage
    ELSE IF EvaluateCategoryRender(class, manifest).shouldRender
         THEN TemplatePage(class, brand, tokens, button)
         ELSE EmptyPage

\* _classes_to_compose_for_asset
ClassesToCompose(own, mined, component) ==
    IF mined THEN {own}
    ELSE DOMAIN Templates \cup
            (IF component # NoComponent THEN {CanonicalPublicCategory(own)} ELSE {})

MetadataFor(tokens, manifest) ==
    [colours |-> [slot \in {"bg", "surface", "text", "accent"} |->
                     EnvelopeField(tokens, slot)],
     fontDisplay |-> EnvelopeField(tokens, "font-display"),
     groups |-> CapturedGroups(manifest),
     missing |-> MissingNotice(manifest),
     signal |-> HubCaptureSignal(CapturedGroups(manifest))]

\* What _process_job writes for an asset version: [category -> page], and the
\* metadata of all of them.
IndexedPages(asset, component, snapshots) ==
    LET button == LoadButtonTokens(snapshots, asset.brand)
        manifest == CaptureManifestOf(asset.tokens, button.captured,
                                      IF asset.mined THEN {asset.class} ELSE {})
        real == IF asset.class = "none" THEN NoComponent ELSE component
        classes == ClassesToCompose(asset.class, asset.mined, real)
    IN [pages |-> [c \in classes |->
                      ComposeWithGate(c, asset.class, real, asset.brand, asset.tokens,
                                      button, manifest)],
        metadata |-> MetadataFor(asset.tokens, manifest)]
=============================================================================
