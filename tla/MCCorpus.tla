------------------------------ MODULE MCCorpus ------------------------------
(***************************************************************************)
(* An instance of LibraryCorpus for TLC.  The brand acme has a hero page   *)
(* with a button in it; when the corpus moves on its tokens change and the *)
(* button becomes an asset of its own.  apple has a form and an asset      *)
(* without tokens; _shared is the design library's own, suppressed.  An    *)
(* earlier release left sites whose slugs or labels the routes refuse.     *)
(***************************************************************************)
EXTENDS LibraryCorpus

Token(spelling, slot, value) == [spelling |-> spelling, slot |-> slot, value |-> value]

Event(kind, tag, classes) == [kind |-> kind, tag |-> tag, classes |-> classes]

Rule(classes, states) ==
    [kind |-> "plain", selectors |-> {<<[el |-> "", classes |-> classes, states |-> states]>>},
     animations |-> {}, name |-> "", inner |-> <<>>]

HeroHtml ==
    [head |-> <<[rel |-> "stylesheet", host |-> "fonts.googleapis.com"]>>,
     styles |-> <<Rule({"acme-hero"}, {}), Rule({"acme-btn"}, {"hover"})>>,
     body |-> <<Event("start", "header", {"acme-hero"}),
                Event("start", "button", {"acme-btn"}), Event("end", "button", {}),
                Event("comment", "", {}), Event("end", "header", {})>>]

ButtonHtml == [HeroHtml EXCEPT !.head = <<>>, !.body = SubSeq(@, 2, 3)]

FormHtml ==
    [head |-> <<>>, styles |-> <<>>,
     body |-> <<Event("start", "form", {"apple-form"}), Event("end", "form", {})>>]

AssetOf(class, slug, kind, path, tokens, html) ==
    [class |-> class, slug |-> slug, kind |-> kind, path |-> path, tags |-> {"acme"},
     applicable |-> {"marketing"}, tokens |-> tokens, html |-> html]

SystemOf(slug, assets) ==
    [slug |-> slug, name |-> slug, tier |-> "1", category |-> "tools",
     principles |-> "", assets |-> assets]

Blue == <<Token("ds", "bg", "white"), Token("ds", "accent", "blue"),
          Token("ds", "text", "black"), Token("ds", "font-display", "sohne")>>

Red == <<Token("ds", "accent", "red"), Token("ds", "font-display", "sohne")>>

Acme(tokens, more) ==
    SystemOf("acme", <<AssetOf("heroes", "home", "whole", 1, tokens, HeroHtml)>> \o more)

Apple == SystemOf("apple", <<AssetOf("forms", "signup", "whole", 1, Blue, FormHtml),
                             AssetOf("cards", "plan", "whole", 2, <<>>, NoHtml)>>)

Shared == SystemOf("_shared", <<AssetOf("buttons", "base", "atom", 1, Blue, NoHtml)>>)

TheCorpora ==
    <<<<Acme(Blue, <<>>), Apple, Shared>>,
      <<Acme(Red, <<AssetOf("buttons", "cta", "atom", 2, Red, ButtonHtml)>>), Apple, Shared>>>>

Slugs == [s \in {"acme", "apple", "_shared", "docs", "long-host"} |->
             IF s = "_shared" THEN "shared" ELSE s]

-----------------------------------------------------------------------------

Groups == {"badge", "button", "card", "color", "input", "layout", "motion", "radius",
           "section", "shadow", "spacing", "typography"}

TheContract ==
    [g \in Groups |-> CASE g = "color" -> {"bg", "accent", "text"}
                        [] g = "typography" -> {"font-display"}
                        [] OTHER -> {}]

Defaults == [s \in {"bg", "accent", "text", "font-display"} |-> "default"]

TheTemplates ==
    [c \in {"hero", "buttons", "form-fields"} |->
        [slots |-> {"title"}, styles |-> <<>>, buttons |-> c = "buttons"]]

Aliases == [heroes |-> "hero", forms |-> "form-fields"]

Stacks == [v \in {"white", "blue", "black", "red"} |-> <<>>]
             @@ ("sohne" :> <<<<"sohne">>, <<"serif">>>>)

FontRows == <<[key |-> <<"sohne">>, free |-> <<"inter">>]>>

DefaultFont == <<"karla">>

Generics == {<<"serif">>}

ReportedButtons ==
    [acme |-> [status |-> "ok", signals |-> {[slot |-> "cta", props |-> {"padding"}]}]]

Substrings == [c \in {"acme-hero", "acme-btn", "apple-form"} |->
                  IF c = "acme-btn" THEN {"btn"} ELSE {}]

Overlay == [acme |-> [category |-> "payments", remove |-> {"marketing"}, add |-> {"checkout"}]]

Names == [bg |-> <<"bg">>, accent |-> <<"accent">>, text |-> <<"text">>]
            @@ ("font-display" :> <<"font", "display">>)

Words == [v \in {"white", "blue", "black", "red", "sohne"} |-> {v}]

Signature == [hero |-> {"apple-hero"}]

OwnWords == [b \in {"acme", "apple", "shared", "docs", "long-host"} |-> {b}]

\* What an earlier release left: an extraction of acme's site under a label of
\* its own, whose page an old indexer had filed under the corpus's name, and
\* another under a label and a category too long for a path; a page of the shared components,
\* public; a site with the slug of a route and one with a host too long for a slug.
Organic ==
    [url |-> [system |-> "acme", class |-> "none", slug |-> "site", mined |-> FALSE],
     dtcg |-> [class |-> "none", slug |-> "site", tags |-> {}, applicable |-> {},
               tier |-> "", category |-> "", principles |-> "", tokens |-> Red,
               mined |-> FALSE],
     public |-> TRUE, label |-> "may-2026", fetched |-> 0]

SiteOf(system, label) == [Organic EXCEPT !.url.system = system, !.label = label]

OldPage(brand, label, page) ==
    [brand |-> brand, label |-> label, page |-> page,
     metadata |-> MetadataFor(Red, CaptureManifestOf(Red, FALSE, {}))]

OldComponentPage(brand) ==
    ComponentPage(ComponentOf(HeroHtml), "heroes", brand, Red)

OldTemplatePage(brand) == TemplatePage("hero", brand, Red, NoButton)

LegacyTables ==
    [versions |-> <<Organic, SiteOf("_shared", "bootstrap"), SiteOf("docs", "may-2026"),
                    SiteOf("long-host", "may-2026"), SiteOf("acme", "long-label")>>,
     components |-> <<>>,
     queue |-> <<>>,
     pages |-> (<<1, "heroes">> :> OldPage("acme", "may-2026", OldComponentPage("acme")))
                  @@ (<<1, "hero">> :> OldPage("acme", "may-2026", OldTemplatePage("acme")))
                  @@ (<<2, "hero">> :> OldPage("shared", "bootstrap", OldTemplatePage("shared")))
                  @@ (<<3, "hero">> :> OldPage("docs", "may-2026", OldComponentPage("docs")))
                  @@ (<<4, "hero">> :>
                         OldPage("long-host", "may-2026", OldComponentPage("long-host")))
                  @@ [r \in {<<5, "cards">>, <<5, "long-category">>} |->
                         OldPage("acme", "long-label", OldComponentPage("acme"))],
     canonical |-> {<<1, "hero">>, <<2, "hero">>, <<3, "hero">>, <<4, "hero">>,
                    <<5, "cards">>, <<5, "long-category">>}]

Left == {LegacyTables}

Mineable == <<"buttons">>

NoNames == <<>>

TheOverride == Rule({"rs-article"}, {})
=============================================================================
