----------------------------- MODULE SiteRecon -----------------------------
(***************************************************************************)
(* What an extraction asks of the site before it asks the model: the probe *)
(* and the crawl of _vendored/drl/drl/_scripts/recon.py and the fetch of   *)
(* _vendored/drl/drl/_scripts/fetch_html.py.                               *)
(*                                                                         *)
(* A site answers a request with one reply per attempt.  A reply carries   *)
(* its status (0 for a transport error), whether it is HTML, whether it    *)
(* carries a stub marker and whether it has a body.  A URL a sitemap or a  *)
(* page lists carries the page types whose patterns it matches and whether *)
(* it is one urllib can open.                                              *)
(***************************************************************************)
EXTENDS Integers, Sequences, FiniteSets, SequencesExt

MaxRetries == 3

Reply(status, html, stub, body) ==
    [status |-> status, html |-> html, stub |-> stub, body |-> body]
Failed(status) == Reply(status, FALSE, FALSE, FALSE)

\* PAGE_TYPE_PATTERNS, in order.
PageTypes == <<"pricing", "docs", "article", "customer-story", "about", "research",
               "marketing">>
CanonicalTypes == <<"marketing", "about", "pricing", "customer-story", "article", "docs",
                    "research">>

\* _fetch() and _fetch_once(): a 4xx ends the retries without its body, a 5xx
\* or a transport error is tried again, and the last of them is a status 0.
Fetch(tries) ==
    LET final == {i \in 1..MaxRetries : tries[i].status \in 1..499}
    IN  IF final = {} THEN Failed(0)
        ELSE LET r == tries[CHOOSE i \in final : \A j \in final : i <= j]
             IN  IF r.status >= 400 THEN Failed(r.status) ELSE r

\* probe(): HEAD, then a GET that replaces it where HEAD was no use, or that
\* only looks for a stub where HEAD said HTML.
Probe(site) ==
    LET head == Fetch(site.head) get == Fetch(site.get)
    IN  IF head.status \in {0, 405} \/ (head.status = 200 /\ ~head.html)
        THEN [status |-> get.status, stub |-> get.stub]
        ELSE [status |-> head.status, stub |-> head.status = 200 /\ get.stub]

\* A URL matches the first type one of whose patterns it matches.
PageType(url) ==
    LET of == SelectSeq(PageTypes, LAMBDA t : t \in url.matches)
    IN  IF of = <<>> THEN "none" ELSE of[1]

\* fetch_sitemap_urls(), or the homepage's links where there is no sitemap.
DiscoveredUrls(site) == IF site.sitemap # <<>> THEN site.sitemap ELSE site.links

\* pick_representatives(): the first URL of each type.
PickRepresentatives(urls) ==
    [t \in {PageType(urls[i]) : i \in DOMAIN urls} \ {"none"} |->
        urls[CHOOSE i \in DOMAIN urls :
                /\ PageType(urls[i]) = t
                /\ \A j \in 1..(i - 1) : PageType(urls[j]) # t]]

\* recon(): it probes the homepage for "marketing" and a representative of
\* every other type it found; one that urllib cannot open raises.
Recon(site) ==
    LET chosen == PickRepresentatives(DiscoveredUrls(site))
        probed == {t \in ToSet(CanonicalTypes) \ {"marketing"} : t \in DOMAIN chosen}
    IN  [raised |-> \E t \in probed : ~chosen[t].opens,
         candidates |-> probed \union {"marketing"},
         not_applicable |-> (ToSet(CanonicalTypes) \ {"marketing"}) \ probed]

\* fetch(): one more try with a browser's user agent after a 403 or a 429,
\* which counts only if it succeeds.
FetchHtml(site) ==
    LET plain == Fetch(site.page) chrome == Fetch(site.chrome)
    IN  IF plain.status \in {403, 429} /\ chrome.status \in 200..399 THEN chrome ELSE plain
=============================================================================
