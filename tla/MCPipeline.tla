----------------------------- MODULE MCPipeline -----------------------------
(***************************************************************************)
(* An instance of ExtractionPipeline for TLC: one site that works, and     *)
(* sites that differ from it where the pipeline takes a different turn.    *)
(***************************************************************************)
EXTENDS ExtractionPipeline

CONSTANTS w1, w2

White == <<255, 255, 255>>
Black == <<0, 0, 0>>
Red == <<220, 30, 60>>
Orange == <<255, 165, 0>>
Blue == <<30, 60, 220>>
Paper == <<240, 240, 240>>      \* near a default, and none
Ink == <<40, 40, 40>>           \* near a default, and none
Indigo == <<90, 80, 220>>       \* near a default, and none
Grey == <<136, 136, 136>>

LabOf == (White :> <<1000, 0, 0>>) @@ (Black :> <<0, 0, 0>>) @@ (Red :> <<476, 693, 342>>)
         @@ (Blue :> <<353, 493, -829>>) @@ (Paper :> <<948, 0, 0>>)
         @@ (Ink :> <<161, 0, 0>>) @@ (Indigo :> <<429, 436, -704>>)
         @@ (Orange :> <<749, 239, 789>>) @@ (Grey :> <<566, 0, 0>>)

Palettes == <<[label |-> "Builder One", colors |-> {Orange, White}],
              [label |-> "Builder Two", colors |-> {Orange, Indigo}]>>
Stacks == {<<"inter">>, <<"system-ui">>}
Numbers == (<<"md">> :> 500) @@ (<<"lg">> :> 750) @@ (<<"4">> :> 1000)
Hints == {"courier"}

\* The order of a JSONB object: the length of a name, then its bytes.
Stored == <<<<"bg">>, <<"info">>, <<"text">>, <<"error">>, <<"accent">>, <<"border">>,
            <<"success">>, <<"surface">>, <<"warning">>, <<"accent", "2">>, <<"hairline">>,
            <<"surface", "2">>, <<"focus", "ring">>, <<"text", "muted">>, <<"text", "strong">>,
            <<"font", "body">>, <<"font", "mono">>, <<"font", "accent">>, <<"font", "display">>,
            <<"radius", "lg">>, <<"radius", "md">>, <<"radius", "sm">>, <<"radius", "xs">>,
            <<"radius", "full">>, <<"radius", "none">>>>

-----------------------------------------------------------------------------
(* What the model answers                                                  *)

Colours(bg, text, accent, second) ==
    [k \in ColorKeys |->
        CASE k \in {<<"bg">>, <<"surface">>} -> bg
          [] k \in {<<"text">>, <<"text", "strong">>} -> text
          [] k = <<"accent">> -> accent
          [] k \in {<<"text", "muted">>, <<"border">>} -> Grey
          [] OTHER -> second]

\* A full set over some colours and two faces, every scale filled in.
Full(colours, display, body) ==
    [k \in AllowedKeys |->
        IF k \in ColorKeys THEN Colour(colours[k][1], colours[k][2], colours[k][3])
        ELSE IF k = <<"font", "display">> THEN Stack(display, <<display>>)
        ELSE IF k = <<"font", "mono">> THEN Stack("courier", <<"courier">>)
        ELSE IF k[1] = "font" THEN Stack(body, <<body>>)
        ELSE Text(k[2])]

Answer(set) == [k \in DOMAIN set |-> Json("scalar", set[k])]

BrandSet == Answer(Full(Colours(White, Black, Red, Blue), "gilroy", "inter"))
\* A rich set, all of it near the defaults.
DefaultSet == Answer(Full(Colours(Paper, Ink, Indigo, Blue), "roboto", "georgia"))
OrangeSet == Answer(Full(Colours(Ink, White, Orange, Red), "inter", "inter"))
\* The keys the contract asks for, all alike, and a key it does not know.
FlatSet == [k \in RequiredKeys |-> Json("scalar", Colour(136, 136, 136))]
           @@ (<<"brand">> :> Json("scalar", Text("x")))
           @@ (<<"accent", "2">> :> Json("null", Text("x")))
LackingSet == [k \in RequiredKeys \ {<<"bg">>} |-> Json("scalar", Colour(136, 136, 136))]

-----------------------------------------------------------------------------
(* The sites                                                               *)

Thrice(r) == <<r, r, r>>
Page200 == Reply(200, TRUE, FALSE, TRUE)
Works == [head |-> Thrice(Page200), get |-> Thrice(Page200), page |-> Thrice(Page200),
          chrome |-> Thrice(Page200), sitemap |-> <<>>,
          links |-> <<[matches |-> {"pricing"}, opens |-> TRUE],
                      [matches |-> {"pricing", "docs"}, opens |-> TRUE]>>]

Root == <<Segment(":root", "", "root", FALSE)>>
Body == <<Segment("body", "body", "body", FALSE)>>
Link == <<Segment("a", "a", "a", FALSE)>>
Heading == <<Segment("h1", "h1", "h1", TRUE)>>
Rule(on, declared, decls) == [on |-> on, vars |-> declared, decls |-> decls]
Let(name, v) == [name |-> name, value |-> v]
Decl(prop, v) == [prop |-> prop, value |-> v]

\* Three properties where two are captured, the first declared again later.
Page == [rules |-> <<Rule(Root, <<Let("brand", Literal("red")), Let("ink", Var("brand", None)),
                                   Let("third", Literal("white"))>>, <<>>),
                     Rule(Body, <<Let("brand", Literal("blue"))>>,
                          <<Decl("background", Var("paper", "white")),
                            Decl("color", Var("ink", None))>>),
                     Rule(Root, <<Let("brand", Literal("white"))>>, <<>>),
                     Rule(Heading, <<>>, <<Decl("font-family", Var("face", Nested))>>),
                     Rule(Link, <<>>, <<Decl("color", Var("brand", None))>>)>>,
         links |-> <<[stylesheet |-> TRUE, host |-> "google", kit |-> None,
                      families |-> <<"gilroy", "inter">>],
                     [stylesheet |-> TRUE, host |-> "adobe", kit |-> None, families |-> <<>>]>>,
         faces |-> <<"gilroy">>]
Parses == ("red" :> {Red}) @@ ("white" :> {White}) @@ ("blue" :> {Blue}) @@ ("orange" :> {Orange})

\* A hero image covers half of the page in a colour nothing declares.
Rendering == [browser |-> "ok", shot |-> "ok", late |-> {".cta"},
              styles |-> ("body" :> {"white"}) @@ (".cta" :> {"orange"}),
              pixels |-> (White :> 30) @@ (Orange :> 50) @@ (Red :> 10) @@ (Black :> 4)
                         @@ (<<252, 250, 250>> :> 2),
              transparent |-> 4]

Meets(status, size, counts) == [status |-> status, size |-> size, hits |-> counts]
Counts(n) == [wix_class |-> 0, waf_blocked |-> 0, js_rendered |-> 0, html_first |-> n]

Good == [valid |-> TRUE, site |-> Works, breaks |-> FALSE, page |-> Page,
         rendering |-> Rendering, browser_off |-> FALSE, colors |-> Parses,
         gateway |-> TRUE, model |-> <<"transient", "answers", "answers">>, json |-> TRUE,
         answer |-> BrandSet, tries |-> <<Transport, Meets(200, 9000, Counts(3)), Transport>>]

With(site) == [Good EXCEPT !.site = site]
Says(set) == [Good EXCEPT !.answer = set]

Sites ==
    [good |-> Good,
     defaults |-> [Says(DefaultSet) EXCEPT !.tries[2] = Meets(200, 400, Counts(3))],
     orange |-> [Says(OrangeSet) EXCEPT !.browser_off = TRUE,
                                        !.tries[2] = Meets(200, 400, [Counts(1) EXCEPT !.js_rendered = 3])],
     flat |-> [Says(FlatSet) EXCEPT !.rendering.shot = "error", !.tries[2] = Transport],
     lacking |-> [Says(LackingSet) EXCEPT !.rendering.browser = "unavailable",
                                          !.tries[2] = Meets(403, 9000, Counts(5))],
     garbled |-> [Good EXCEPT !.json = FALSE,
                              !.tries = Thrice(Meets(503, 9000, Counts(5)))],
     busy |-> [Good EXCEPT !.model = Thrice("transient")],
     refused |-> [Good EXCEPT !.model[1] = "refuses"],
     invalid |-> [Good EXCEPT !.valid = FALSE],
     stub |-> With([Works EXCEPT !.get = Thrice([Page200 EXCEPT !.stub = TRUE])]),
     gone |-> With([Works EXCEPT !.head = Thrice(Failed(0)), !.get = Thrice(Failed(404))]),
     relative |-> With([Works EXCEPT !.sitemap = <<[matches |-> {"docs"}, opens |-> FALSE]>>]),
     blocked |-> With([Works EXCEPT !.page = Thrice(Failed(403)),
                                    !.chrome = Thrice(Failed(404))]),
     shy |-> With([Works EXCEPT !.page = Thrice(Failed(429))]),
     ailing |-> With([Works EXCEPT !.page = Thrice(Failed(503))]),
     broken |-> [Good EXCEPT !.breaks = TRUE]]

Everything == DOMAIN Sites
Census == <<[selector |-> "body", slot |-> "body"], [selector |-> ".cta", slot |-> "cta"]>>
NoOverrides == [b \in {} |-> <<>>]
ByWorker == (w1 :> Everything) @@ (w2 :> {"good", "gone", "defaults"})
=============================================================================
