------------------------- MODULE ExtractionPipeline -------------------------
(***************************************************************************)
(* An extraction from the URL to the row it leaves: the bridge             *)
(* (app/extractor_bridge.py), the extractor                                *)
(* (extractor/codex_extractor.py) and the part of create_extraction() that *)
(* calls them, scores the result and decides whether the credit goes back  *)
(* (app/routes/extractions.py).                                            *)
(*                                                                         *)
(* The threads of one server process share its environment, where the      *)
(* bridge hides RESEMBLIO_DB_URL while the extractor runs so that the      *)
(* extractor does not write to the database itself.                        *)
(***************************************************************************)
EXTENDS PageSignals, RenderedSignals, SiteRecon, SiteClassifier, FailureModes,
        QualityScoring, ConfidenceRubric, TokenExport, ShadcnTheme

CONSTANTS
    Worker,         \* the threads that serve a request
    Request,        \* the extractions asked for
    Asked,          \* the requests a worker may serve
    What,           \* for every request, the site it meets and what the model says
    Configured,     \* whether RESEMBLIO_DB_URL is set
    Parsed          \* the number a text is, for the texts that are one

ASSUME PipelineAssumption ==
    /\ Configured \in BOOLEAN
    /\ None \notin {"site", "model", "store", "escaped"}

\* An answer is a JSON object: finitely many names, in segments, and texts that
\* parse to a colour or do not.
ASSUME AnswerAssumption ==
    \A r \in Request : LET answer == What[r].answer IN
        /\ IsFiniteSet(DOMAIN answer) /\ DOMAIN answer \subseteq Seq(STRING)
        /\ \A k \in DOMAIN answer : answer[k].value.hex \in HexColors

IsList(s) == Len(s) \in Nat /\ DOMAIN s = 1..Len(s)

\* A page is a list of rules and a rule a list of declarations.  A screenshot has
\* finitely many colours, each of a pixel at least, and what a literal parses to
\* is a colour.
ASSUME SiteAssumption ==
    /\ \A r \in Request : LET rules == What[r].page.rules IN
        /\ IsList(rules)
        /\ \A i \in DOMAIN rules : IsList(rules[i].vars)
    /\ \A r \in Request : LET shot == What[r].rendering IN
        /\ IsFiniteSet(DOMAIN shot.pixels) /\ DOMAIN shot.pixels \subseteq [1..3 -> 0..255]
        /\ \A c \in DOMAIN shot.pixels : shot.pixels[c] \in Nat \ {0}
        /\ shot.transparent \in Nat
        /\ \A v \in DOMAIN What[r].colors : What[r].colors[v] \subseteq [1..3 -> 0..255]

VARIABLES
    env,        \* whether the environment holds RESEMBLIO_DB_URL
    pc,         \* where a worker is in its request
    held,       \* whether a worker's "previous" holds the URL
    req,        \* the request of a worker
    msg,        \* what the extractor says went wrong
    cause,      \* who is to blame: the site, the model, the store, or an escaped exception
    prompt,     \* the signals the model was shown
    tokens,     \* the token set
    row,        \* the extraction row, as committed
    reply,      \* what the POST was answered
    survey,     \* the support class an anonymous request was answered
    file        \* the last file that was asked for

vars == <<env, pc, held, req, msg, cause, prompt, tokens, row, reply, survey, file>>

Here(w) == What[req[w]]

\* The program counters inside _without_extractor_db_url().
Inside == {"probe", "recon", "fetch", "gather", "ask", "persist", "leave"}

NoRow == [status |-> "pending", tokens |-> <<>>, dtcg |-> Empty, raw |-> None,
          score |-> None, dimensions |-> <<>>, code |-> None, refunded |-> FALSE]

NoPrompt == [declared |-> {}, fonts |-> <<>>, captured |-> <<>>, digest |-> NoSlots,
             palette |-> [status |-> "skipped", colors |-> <<>>], block |-> {},
             warning |-> NotRun]

NoFile == [http |-> 0, fmt |-> None, of |-> None, body |-> <<>>]

Init ==
    /\ env = Configured
    /\ pc = [w \in Worker |-> "idle"]
    /\ held = [w \in Worker |-> FALSE]
    /\ req \in [Worker -> Request] /\ \A w \in Worker : req[w] \in Asked[w]
    /\ msg = [w \in Worker |-> NoError]
    /\ cause = [w \in Worker |-> None]
    /\ prompt = [w \in Worker |-> NoPrompt]
    /\ tokens = [w \in Worker |-> <<>>]
    /\ row = [w \in Worker |-> NoRow]
    /\ reply = [w \in Worker |-> <<>>]
    /\ survey = [w \in Worker |-> None]
    /\ file = NoFile

Goto(w, there) == pc' = [pc EXCEPT ![w] = there]

\* The extractor gives up: it still offers the failure to its own store.
GiveUp(w, m, whose) ==
    /\ msg' = [msg EXCEPT ![w] = m]
    /\ cause' = [cause EXCEPT ![w] = whose]
    /\ Goto(w, "persist")

-----------------------------------------------------------------------------
(* The extractor                                                           *)

\* _without_extractor_db_url() on entry: pop, which one thread at a time does.
Enter(w) ==
    /\ pc[w] = "idle"
    /\ held' = [held EXCEPT ![w] = env]
    /\ env' = FALSE
    /\ Goto(w, "probe")
    /\ UNCHANGED <<req, msg, cause, prompt, tokens, row, reply, survey, file>>

ProbeSite(w) ==
    /\ pc[w] = "probe"
    /\ LET probe == Probe(Here(w).site) IN
       IF ~Here(w).valid THEN GiveUp(w, Message("invalid url", 0), "site")
       ELSE IF probe.status \notin 200..299 \/ probe.stub
            THEN GiveUp(w, Message("unreachable", probe.status), "site")
       ELSE Goto(w, "recon") /\ UNCHANGED <<msg, cause>>
    /\ UNCHANGED <<env, held, req, prompt, tokens, row, reply, survey, file>>

\* The result of recon() is not used; only that it did not raise.
ReconSite(w) ==
    /\ pc[w] = "recon"
    /\ IF Recon(Here(w).site).raised THEN GiveUp(w, Message("recon failed", 0), "site")
       ELSE Goto(w, "fetch") /\ UNCHANGED <<msg, cause>>
    /\ UNCHANGED <<env, held, req, prompt, tokens, row, reply, survey, file>>

\* A connection that ends inside the body is no error the fetch catches: the
\* exception leaves the extractor.
FetchPage(w) ==
    /\ pc[w] = "fetch"
    /\ LET got == FetchHtml(Here(w).site) IN
       IF Here(w).breaks
       THEN cause' = [cause EXCEPT ![w] = "escaped"] /\ Goto(w, "leave") /\ UNCHANGED msg
       ELSE IF got.status \notin 200..299 \/ ~got.body
            THEN GiveUp(w, Message("fetch failed", got.status), "site")
       ELSE Goto(w, "gather") /\ UNCHANGED <<msg, cause>>
    /\ UNCHANGED <<env, held, req, prompt, tokens, row, reply, survey, file>>

\* _declared_hex_colors(): the colours of the root properties and of the
\* computed styles; what a literal or a style parses to is in Here(w).colors.
DeclaredHexColors(colors, byName, styles) ==
    LET literals == {byName[n].lit : n \in DOMAIN byName}
        computed == IF styles.status # "ok" THEN {}
                    ELSE UNION {styles.signals[i].properties : i \in DOMAIN styles.signals}
    IN  UNION {colors[v] : v \in (literals \union computed) \intersect DOMAIN colors}

\* The signals of the page, and the browser pass unless it is switched off.
Gather(w) ==
    /\ pc[w] = "gather"
    /\ LET it == Here(w)
           captured == ParseRootCustomProperties(it.page)
           byName == PropertiesByName(captured)
           styles == CaptureComputedStyles(it.rendering, NoBrand, "", "")
           palette == CaptureScreenshotPalette(it.rendering)
           declared == DeclaredHexColors(it.colors, byName, styles)
           plain == [NoPrompt EXCEPT !.fonts = ParseLoadedFonts(it.page),
                                     !.captured = captured,
                                     !.digest = BuildStyleDigest(it.page, byName)]
       IN  prompt' = [prompt EXCEPT ![w] =
               IF it.browser_off THEN plain
               ELSE [plain EXCEPT
                       !.declared = declared, !.palette = palette,
                       !.block = RenderPalette(palette, declared),
                       !.warning = IF PaletteCompletenessWarning(palette, declared) = {}
                                   THEN NotRun
                                   ELSE Missed(PaletteCompletenessWarning(palette, declared))]]
    /\ Goto(w, "ask")
    /\ UNCHANGED <<env, held, req, msg, cause, tokens, row, reply, survey, file>>

\* _dispatch_anthropic(): three tries, of which a transient failure takes one
\* and any other failure ends them.
Dispatched(it) ==
    it.gateway /\ \E n \in 1..3 : /\ it.model[n] = "answers"
                                  /\ \A i \in 1..(n - 1) : it.model[i] = "transient"

\* A token set the contract refuses is a ValueError like one that does not
\* parse, so both are reported as a reply that does not parse.
AskModel(w) ==
    /\ pc[w] = "ask"
    /\ LET it == Here(w) set == CoerceTokenSet(it.answer) IN
       IF ~Dispatched(it)
       THEN GiveUp(w, Message("anthropic failed", 0), "model") /\ UNCHANGED tokens
       ELSE IF ~it.json \/ ~ValidTokenSet(set)
       THEN GiveUp(w, Message("model JSON parse failed", 0), "model") /\ UNCHANGED tokens
       ELSE /\ tokens' = [tokens EXCEPT ![w] = set]
            /\ Goto(w, "persist")
            /\ UNCHANGED <<msg, cause>>
    /\ UNCHANGED <<env, held, req, prompt, row, reply, survey, file>>

\* _persist(): reads the environment, where another thread may have put the
\* URL back; an insert that fails is chained behind the message there is.
Persist(w) ==
    /\ pc[w] = "persist"
    /\ \/ UNCHANGED <<msg, cause>>
       \/ /\ env
          /\ msg' = [msg EXCEPT ![w] = IF @ = NoError THEN InsertFailed
                                       ELSE [@ EXCEPT !.insert_failed = TRUE]]
          /\ cause' = [cause EXCEPT ![w] = "store"]
    /\ Goto(w, "leave")
    /\ UNCHANGED <<env, held, req, prompt, tokens, row, reply, survey, file>>

\* Mutant: an error leaves the block without its finally.
LeaveOnlyOnSuccess(w) ==
    /\ pc[w] = "leave"
    /\ env' = (env \/ (held[w] /\ cause[w] = None))
    /\ held' = [held EXCEPT ![w] = FALSE]
    /\ Goto(w, IF cause[w] = None THEN "bundle" ELSE "fail")
    /\ UNCHANGED <<req, msg, cause, prompt, tokens, row, reply, survey, file>>

\* The end of _without_extractor_db_url(), on every way out.
Leave(w) ==
    /\ pc[w] = "leave"
    /\ env' = (held[w] \/ env)
    /\ held' = [held EXCEPT ![w] = FALSE]
    /\ Goto(w, IF cause[w] = None THEN "bundle" ELSE "fail")
    /\ UNCHANGED <<req, msg, cause, prompt, tokens, row, reply, survey, file>>

-----------------------------------------------------------------------------
(* The route                                                               *)

\* The two except branches of create_extraction().
Fail(w) ==
    /\ pc[w] = "fail"
    /\ LET code == IF cause[w] = "escaped" THEN "PERSIST_ERROR"
                   ELSE ClassifyExtractorError(msg[w])
       IN  /\ row' = [row EXCEPT ![w] = [NoRow EXCEPT !.status = "failed", !.code = code,
                                          !.refunded = code \in RefundableCodes]]
           /\ reply' = [reply EXCEPT ![w] = [http |-> HttpStatusByCode[code], body |-> row'[w]]]
    /\ Goto(w, "done")
    /\ UNCHANGED <<env, held, req, msg, cause, prompt, tokens, survey, file>>

\* bundle_from_token_set() and the uploads: the one of the archive may fail.
Bundle(w) ==
    /\ pc[w] = "bundle"
    /\ \/ /\ Goto(w, "save")
          /\ UNCHANGED cause
       \/ /\ cause' = [cause EXCEPT ![w] = "escaped"]
          /\ Goto(w, "fail")
    /\ UNCHANGED <<env, held, req, msg, prompt, tokens, row, reply, survey, file>>

\* The first commit of the success path: an "ok" row that has no score yet.
Save(w) ==
    /\ pc[w] = "save"
    /\ row' = [row EXCEPT ![w] = [NoRow EXCEPT !.status = "ok", !.tokens = tokens[w],
                                               !.dtcg = ToDtcgJson(tokens[w])]]
    /\ Goto(w, "score")
    /\ UNCHANGED <<env, held, req, msg, cause, prompt, tokens, reply, survey, file>>

\* The second: the scores, and the refund of what falls below the threshold.
Score(w) ==
    /\ pc[w] = "score"
    /\ LET result == ComputeQualityScore(row[w].tokens)
           penalized == ApplyHeuristicPenalties(row[w].tokens, result.composite).score
           low == penalized < Threshold
       IN  /\ row' = [row EXCEPT ![w] =
                        [@ EXCEPT !.raw = result.composite, !.score = penalized,
                                  !.dimensions = result.dimensions,
                                  !.status = IF low THEN "low_quality" ELSE "ok",
                                  !.code = IF low THEN "LOW_QUALITY_OUTPUT" ELSE None,
                                  !.refunded = low]]
           /\ reply' = [reply EXCEPT ![w] =
                [http |-> 200, body |-> row'[w],
                 rubric |-> ComputeConfidenceRubric(tokens[w], prompt[w].warning)]]
    /\ Goto(w, "done")
    /\ UNCHANGED <<env, held, req, msg, cause, prompt, tokens, survey, file>>

\* create_anonymous_extraction() only classifies the site: the row stays
\* pending.
Survey(w) ==
    /\ pc[w] = "idle"
    /\ survey' = [survey EXCEPT ![w] = ClassifyUrl(Here(w).tries, FALSE)]
    /\ Goto(w, "done")
    /\ UNCHANGED <<env, held, req, msg, cause, prompt, tokens, row, reply, file>>

-----------------------------------------------------------------------------
(* Downloads                                                               *)

\* The row as the download routes find it: an anonymous one belongs to the
\* service user and is reached by its token.
Found(w) ==
    [exists |-> TRUE, dtcg |-> row[w].dtcg,
     owner |-> IF survey[w] = None THEN "owner" ELSE "service",
     token |-> IF survey[w] = None THEN "" ELSE "token"]

Answered(w, http, fmt, body) ==
    /\ pc[w] \in {"score", "done"} /\ file = NoFile       \* one download is followed
    /\ file' = [http |-> http, fmt |-> fmt, of |-> w, body |-> IF http = 200 THEN body ELSE <<>>]
    /\ UNCHANGED <<env, pc, held, req, msg, cause, prompt, tokens, row, reply, survey>>

Export(w) ==
    \E fmt \in SupportedFormats \union {"pdf"}, user \in {"owner", "stranger"} :
        Answered(w, ExportExtraction(fmt, user, Found(w)), fmt, BuildArtifact(fmt, row[w].dtcg))

ExportAnonymous(w) ==
    \E fmt \in SupportedFormats, token \in {"", "token", "other"} :
        Answered(w, ExportAnonymousExtraction(fmt, token, Found(w)), fmt,
                 BuildArtifact(fmt, row[w].dtcg))

ConvertTo(w) ==
    \E to \in {"shadcn", "figma"}, user \in {"owner", "stranger"} :
        Answered(w, Convert(user, Found(w)), to,
                 IF to = "shadcn" THEN DtcgToShadcn(row[w].dtcg, Parsed)
                 ELSE DtcgToFigmaVariables(row[w].dtcg, Parsed))

Next ==
    \E w \in Worker :
        \/ Survey(w) \/ Enter(w) \/ ProbeSite(w) \/ ReconSite(w) \/ FetchPage(w)
        \/ Gather(w) \/ AskModel(w) \/ Persist(w) \/ Leave(w)
        \/ Fail(w) \/ Bundle(w) \/ Save(w) \/ Score(w)
        \/ Export(w) \/ ExportAnonymous(w) \/ ConvertTo(w)

Spec == Init /\ [][Next]_vars

-----------------------------------------------------------------------------
(* Properties                                                              *)

\* The URL a thread takes out of the environment is back once no thread is
\* inside the extractor, however their entries and exits interleave
\* (extractor_bridge.py, _without_extractor_db_url()).
EnvironmentKept == (\A w \in Worker : pc[w] \notin Inside) => env = Configured

\* A failed extraction is refunded exactly when the site is not to blame:
\* what the extractor writes into its message and what failure_modes.py reads
\* out of it agree, chained insert failures included.
FailureMatchesCause ==
    \A w \in Worker : row[w].status = "failed" => (row[w].refunded <=> cause[w] # "site")

\* A colour that covers 1/MAX_DOMINANT_COLORS of the screenshot and is far
\* from every declared colour is in the warning and in the prompt.  Far is the
\* threshold and the diagonal of a bucket, 8 + 16 * sqrt(3) (screenshot_palette.py).
MissedColoursShown ==
    \A w \in Worker : prompt[w].palette.status = "ok" =>
        LET shot == Here(w).rendering
            total == SumOver(shot.pixels, DOMAIN shot.pixels) + shot.transparent
        IN  \A c \in DOMAIN shot.pixels :
              (/\ shot.pixels[c] * MaxDominantColors >= total
               /\ \A d \in prompt[w].declared : DistanceSquared(c, d) > 36 * 36)
              => Bucket(c) \in prompt[w].warning.missed \intersect prompt[w].block

\* The root properties a prompt lists are capped, and below the cap nobody's
\* last word is lost: a captured property has the value the last root rule
\* gives it (css_root_parser.py).
CapturedIsCurrent ==
    \A w \in Worker :
        LET captured == prompt[w].captured
            rules == Here(w).page.rules
            root == {i \in DOMAIN rules : SelectorIsRootLevel(rules[i].on)}
            Said(i, j) == Declared(rules[i])[j]
        IN  /\ Len(captured) <= MaxCapturedProperties
            /\ \A x \in DOMAIN captured :
                 \E i \in root : \E j \in DOMAIN rules[i].vars :
                    /\ captured[x] = Said(i, j)
                    /\ \A k \in root : \A l \in DOMAIN rules[k].vars :
                         k > i \/ (k = i /\ l > j) =>
                            <<Said(k, l).on, Said(k, l).name>> # <<Said(i, j).on, Said(i, j).name>>

\* An extraction whose fonts and colours are all defaults is never kept as
\* "ok" once it is scored, and a penalty never raises a score
\* (quality_heuristics.py).
DefaultsNeverKept ==
    \A w \in Worker : row[w].raw # None =>
        /\ row[w].score <= row[w].raw
        /\ DetectNearDefaultExtraction(row[w].tokens) => row[w].refunded

\* Every token has a declaration of its own in the stylesheet, and no two
\* tokens of a set share a name in the theme or in the Figma collections
\* (exporters, converters/figma).
ExportsKeepEveryToken ==
    LET Named(ds) == Cardinality({d.name : d \in ds}) IN
    file.http = 200 =>
        /\ file.fmt \in {"css", "zip"} =>
              Named(file.body.css) = Cardinality(DOMAIN row[file.of].tokens)
        /\ file.fmt \in {"tailwind", "zip"} =>
              Named(file.body.tailwind) = Cardinality(file.body.tailwind)
        /\ file.fmt = "figma" =>
              Named(file.body.variables) = Cardinality(file.body.variables)

\* In both modes of a shadcn theme, what is drawn on a ground differs from it
\* in lightness by at least what shadcn's own defaults do, and text on the page
\* by far more, whatever colours the site has (converters/shadcn).
ThemeReadable ==
    file.http = 200 /\ file.fmt = "shadcn" =>
        LET Contrast(mode, s) == Distance(mode[s].l, mode[Grounded[s]].l)
        IN  \A mode \in {file.body.light, file.body.dark} :
              /\ \A s \in DOMAIN Grounded : Contrast(mode, s) >= 378
              /\ \A s \in {"background", "card", "popover"} : Contrast(mode, s) >= 840

=============================================================================
