# Resemblio API: a TLA+ verification project

Resemblio is a paid HTTP API: a customer sends a URL, the service extracts the site's
design tokens, charges the customer's credit and publishes good results in a public
library. This directory models the parts of the program that keep state other processes
write too (money, replays, quotas, logins, keys, the library's job queue and corpus) and the
computations those rest on: the extraction, its score, its exports and the pages of the
library. They are model-checked with TLC on small instances, and their most important
properties are proved with TLAPS for every value of the constants.

Paths below are relative to `src/`. `PROJECT.json` maps each definition to the lines it
models and lists runs, mutants, hazards, findings and theorems.

## 1. Inventory

The program is FastAPI over SQLAlchemy, on PostgreSQL in production and SQLite in
development. Handlers declared `def` run in a thread pool, so two requests of one process
interleave; several processes share the database. Isolation is READ COMMITTED: every
statement sees what is committed by then, and a decision taken from a SELECT can be stale
when the UPDATE it justifies runs. Timers start one-shot processes (indexer, sweep, reaper)
against the same tables. Components meet only in the database and in the calls below.

| Component | State it keeps | Operations | What is hard | What must hold |
|---|---|---|---|---|
| Charged extraction, `app/routes/extractions.py` | `extractions`, `credit_ledger`, `auto_refund_audit_events`; a lock per process and user | charge, retry, extract, persist, score, refund, mail | races between threads and processes, two commits, a crash between them | no overdraft, cap kept, each row matches its ledger rows, one refund at most |
| Credit top-up, `app/routes/credit.py`, `webhooks.py`, `app/payments.py` | `topup_sessions`, `stripe_events_seen`, ledger rows | open a Checkout, claim an event, credit, mark | redelivery, two events per payment, leases, crashes, lost markers | credited exactly once, never acknowledged uncredited |
| Idempotency keys, `app/idempotency.py`, `app/cli/sweep_idempotency.py` | `idempotency_keys` | look up, store, sweep | overlapping retries, TTL, sweep | a retry of an answered call is free, a replay is the right answer |
| Anonymous funnel, `app/routes/extractions_anonymous.py`, claim in `internal_auth.py`, `scripts/reap_anonymous_extractions.py` | `anon_extract_counters`, `anonymous_extractions`, owner of `extractions` | count, insert with a token, claim, reap | first-of-the-day race, claim race, reaper | daily cap, row and owner agree |
| Web session login, `app/routes/internal_auth.py` | `magic_link_tokens`, `users`, `web_session_keys`, `api_keys` | ask for a link, redeem, log out | double redemption, first login twice, unlocked session row | a link mints once, one grant, rows and keys agree |
| Library indexer, `app/library_indexer.py`, `app/cli/library_indexer.py`, `scripts/seed_from_drl.py` | `library_index_jobs`, `library_pages`, `asset_components`, scores | enqueue, drain, gate, render, elect | seeds racing the worker, retries, crashes, order of indexing | one canonical page, components never blanked, jobs end |
| API keys and middleware, `app/auth.py`, `app/routes/api_keys.py` | `api_keys` | authenticate, create, rotate, revoke | rows read before a concurrent change and written after it, blind writes of `expired` | a revoked or lapsed key passes no look-up |
| Rate limiter, `app/rate_limit.py` | two token buckets per key and user, in memory | check | lazy refill, order of the buckets, rounding of Retry-After | never above the rate, refused only at it |
| Extractor and bridge, `app/extractor_bridge.py`, `extractor/` | the process environment, one row | probe, crawl, fetch, gather, ask the model, persist, score | threads that share the environment; failures that travel as text | environment kept, refund follows the cause |
| Scoring and classification, `app/quality_scoring.py`, `quality_heuristics.py`, `site_classifier.py` | none | score, penalise, classify | many overlapping thresholds | defaults are not sold |
| Exports and converters, `app/exporters/`, `converters/` | none | write a format | name collisions, derived dark theme | no token lost, themes readable |
| Design corpus and its scripts, `scripts/seed_from_drl.py`, `bootstrap_drl_library.py`, `refresh_brand_library.py`, `suppress_seed_brands.py`, `reconcile_library_alias_canonicals.py` | the object store, `asset_versions`, `asset_components`, `extractions`, jobs, `is_canonical` | seed in batches, mine, bootstrap, refresh, suppress, reconcile | crashes between store, rows and commit; a failed brand's session; deletion before re-seeding | what a script reports done is whole, refreshed pages return |
| Library presentation and reads, `app/library_indexer.py` (composition), `app/library_*.py`, `app/brand_*.py`, `app/routes/library.py` | `library_pages` | compose, scope, list, serve | sitemap and routes decide by different columns | what is listed is served, but for what a validator refuses |
| Asset versions, `app/asset_versions.py` | `asset_versions`, `asset_components` | insert or reuse, upsert | no UNIQUE on the dedup key | one row per content |
| Refund reconciliation, `app/refund_reconcile.py` | none, reads the ledger | daily report | its definition of "refund due" against the route's | no false drift |

How they interact:

- Authentication loads the key and user rows and keeps that copy for the whole request;
  the charge reads its spend cap from it (`ExtractionBilling.capSeen`).
- `create_extraction` wraps the charged extraction in the idempotency look-up and store.
- The charged extraction calls `insert_or_reuse_asset_version` and
  `enqueue_for_asset_version`; the seed script calls the latter too; the indexer drains.
- The webhook adds to the ledger the charge reads (`ExtractionBilling.TopUp`).
- A first login can claim what the anonymous funnel stored.
- The charged extraction calls the bridge, which runs the extractor in the request's thread;
  `ExtractionBilling.RunExtractor` chooses among the outcomes `ExtractionPipeline` derives.
- Export and convert routes read the row the extraction stored.
- The seed writes the versions and components the indexer composes pages from, and the read
  routes answer from those pages.

## 2. Modules

| Module | What it is |
|---|---|
| `ExtractionBilling` | the charged extraction, its locks, refunds, crashes |
| `CreditAccount` | abstract specification it implements: deposit, pay, refund |
| `StripeTopup` | top-up creation, delivery, claim, credit, failure markers |
| `TopupPromise` | abstract specification it implements: a paid session is credited, once |
| `Idempotency` | the calls made with one key |
| `AnonymousExtraction` | the anonymous requests of one IP, claims, reaper |
| `WebSession` | the login of one address |
| `LibraryIndexer` | queue, worker and pages of one brand |
| `RateLimiter` | token buckets in exact fractions |
| `Authentication` | the middleware and the key routes, over `RateLimiter` |
| `PageSignals`, `RenderedSignals` | what the extractor reads of the HTML and of the rendered page |
| `SiteRecon`, `SiteClassifier` | probe, crawl and fetch; the support class of a site |
| `FailureModes` | failure texts, codes and refunds |
| `TokenContract` | a valid token set and its DTCG tree |
| `QualityScoring`, `ConfidenceRubric` | score, penalties and floor; the rubric of the answer |
| `TokenExport`, `ShadcnTheme` | what a download or a conversion contains |
| `ExtractionPipeline` | the threads that run all of these, from URL to row and download |
| `CaptureManifest`, `WebFonts`, `ComponentCss` | what was captured of a brand, the faces a page loads, the scoping of CSS |
| `WholeMining` | atoms lifted out of a captured page |
| `PageComposer` | the page and metadata of a version for a category |
| `DrlCorpus` | the corpus on disk and what the seed makes of it |
| `LibraryReads` | the tokens a page offers; the read routes |
| `LibraryCorpus` | the operator's scripts and the indexer, over all of these |
| `MC*` | the instances TLC checks |
| `*Proofs` | theorems and proofs about the module they extend |

Every module writes one action per database statement or commit that another process can
observe or interleave with. `pc` (or `call`, `redeem`, `worker.pc`) is where a handler
stands. A row inserted and not yet committed is visible to nobody, so it lives in `pc`
until the commit. Locks are predicates of `pc`: whoever stands between the statement that
takes a lock and the one that releases it holds it, hence a crash frees it by moving `pc`.
Operators named in a comment that starts with "Mutant" are wrong variants of the definition
they precede; nothing uses them unless a mutation run substitutes them.

### ExtractionBilling

`POST /v1/extractions`, from authentication to the answer. `charged` and
`refundRows` are the committed debit and refund rows, `deposits` the sum of all others, and
`credit_balance(u)` the sum a query returns. `Authenticate`, `ReadBalance`, `ReadCap` are the
unlocked fast path; `EnterUserLock` the `threading.Lock` of the process; `LockUserRow` the
`SELECT .. FOR UPDATE` (skipped on SQLite); `RecheckBalance`, `RecheckCap` the authoritative
checks; `InsertCharge`, `CommitCharge` the flush, the CHECK on `balance_after_cents` and the
commit with the retry loop around them. `RunExtractor` picks success, a classified
failure or a storage error. `PersistBundle` is the first success commit, `ScorePasses`,
`ScoreFails` and `CommitLowQuality` the second. `TopUp`, `update_spend_cap`, `LeaveWindow`
and `Crash` are what else happens. A write of a row that references the user waits for the
FOR UPDATE lock of another transaction (`Writable`), as PostgreSQL's foreign key check does.

### StripeTopup

A worker is a process: the webhook is a coroutine without an await after its body is read.
`ClaimEvent` is the single INSERT .. ON CONFLICT DO UPDATE .. WHERE and its commit;
`ReadBack` the 200/409 decision; `ClaimTopup` the conditional UPDATE, which waits for the
row lock of another transaction and then looks again; `CommitCredit` commits ledger row,
top-up status and the processed marker together. Failures end in `MarkEventFailed` or
`MarkerLost`. `LeaseExpires` may strike while the worker that claimed is still alive.
The signature check, the comparison of metadata and amounts and the wording of mails are
functions of one delivery; their verdict is the constant `Creditable`.

### Idempotency

The calls of one key, with their body hash. `Lookup` takes no reservation. `Store` swallows
the IntegrityError of a second insert. `Age` ends the TTL of the oldest answer and
`Sweep` deletes an expired row. What lies between is ExtractionBilling reduced to
`Refuse`, `Charge`, `Extract`, `Raise`.

### AnonymousExtraction

`ReadCounter`, `InsertCounter`, `Limit`, `Increment` are `_check_and_increment_ip_counter`
statement by statement. `Insert` is one pass of the token loop; after a rollback the flushed
extraction is gone, so a later pass fails as well, with whatever token. `FindClaim` and
`Rebind` are the two halves of a claim, `Reap` the reaper's commit, `AgeRow` and
`Midnight` time. A claim between its halves is assumed shorter than the 30 days between the
end of the claim window and the deletion of the row.

### WebSession

A redemption is one transaction: `FindLink` (locked on PostgreSQL), `ConsumeLink` with its
row count, `ReadAccount`, `InsertAccount` with UNIQUE (email), `ReadSession` with
`scalar_one_or_none`, `Mint` the commit. On SQLite the first write takes the only write lock
(`MayWrite`). `ResolveKey` and `Logout` are the two halves of a logout. Both engines are
initial states, so one run covers both.

### LibraryIndexer

A `Call` is a transaction that ends in `enqueue_for_asset_version`: a seed, which also
writes the component, or an extraction, whose score follows in a second commit. `Tick`
selects the oldest pending jobs, `Start` marks one running and counts the attempt, then
`Skip` or `PassGate`, `ReadComponent` and `Write`, which refreshes the pages, re-elects the
canonical ones and completes the job in one commit. `Raise` is an exception anywhere, `Crash`
the death of the worker. HTML is abstracted to what the election compares: a component (named
after the seed that wrote it), a template, or nothing. `Crash` during a step leaves the job
`running`: nothing in the code selects it again. The gate is read as "unscored passes", as in
`_process_job`; the branch for a missing asset version is left out because a foreign key
makes it unreachable. One worker runs at a time: the unit is `Type=oneshot`
(`deploy/systemd/resemblio-library-indexer.service`). The branch that appends a non-template
class of an organic asset is in `Composed` and in the proofs, not in the instance TLC checks.

### Authentication and RateLimiter

A call is one request: `Dispatch` is the look-up, the verdict and the limiter (the middleware
runs on the event loop, so these are one step), `Expire` the write of `expired`, `Serve` the
hand-over to a route. A key route runs in a thread with its own session, so `FindTarget` (the
read) and `Rotate`, `Revoke` (the commit over what was read) are two steps and others
come between; `Overtake` is the commit that finds the row changed. `Restart` empties the
buckets and loses the requests. `rotated` and `revoked` record history for the property. A
bucket holds tokens in units of 1/window, so refills are exact integers.

### ExtractionPipeline

Threads of one process. `Enter` and `Leave` are the context manager around
`RESEMBLIO_DB_URL`; between them `ProbeSite`, `ReconSite`, `FetchPage`, `Gather`, `AskModel` and
`Persist` follow `CodexExtractor`, and `Fail`, `Save` and `Score` the route. A site, a browser and
a model are data of the request: a reply per attempt, a rendering, an answer. `Gather` runs
the parsers of `PageSignals` and the palette of `RenderedSignals`; `Score` runs
`ComputeQualityScore` and `ApplyHeuristicPenalties`. `Export`, `ExportAnonymous` and `ConvertTo`
write one file of what is stored. `Survey` is the classifier of the anonymous funnel.
Parsing HTML, CSS and colours is left to the instance: a page is its rules, a value
what each reader takes of it.

### LibraryCorpus

`op` is the script that runs and `txn` what it has not committed. `StartSeed`,
`StartBootstrap` and `DeleteBrandRows` begin the three ways to seed; `SkipAsset`, `PutZip`,
`SeedAsset`, `EndAssets`, `Mine` are the loop of `apply_seed` with its batches; `SeedFails` a
store or statement that fails, `Crash` the death of the script. `SuppressSeedBrands` and
`ReconcileAliases` are one transaction each. `StartJob`, `WriteJob` and `LoseJob` are the timer's
worker, without the retries and crashes `LibraryIndexer` has; `LoseJob` is a job whose row
a refresh deleted while it ran. Pages are not abstract here: `WriteJob` stores what
`IndexedPages` composes and `Winners` elects, and `Sitemap` and `Serve` read them. Each route of
`Serve` first asks its validators (`ValidBrandSlug`, `ValidCategorySlug`, `ValidVersionLabel`), as
`library.py:376-391` does; `Sitemap` asks none. Which slugs a regular expression refuses is a
set the instance gives, the reserved ones are another.

## 3. Runs

| Run | Question | Result | Distinct states |
|---|---|---|---|
| `billing_postgres` | can races, caps and crashes break the ledger on PostgreSQL? | `BalanceNonNegative`, `ContentionUnreachable`, `RowMatchesLedger`, `AnswerMatchesLedger`, `SpendCapRespected` hold | 599,184 |
| `billing_account` | does the protocol implement an account, with top-ups, and answer every request? | `ImplementsCreditAccount`, `EveryRequestEnds` hold | 89,654 |
| `billing_sqlite` | is CHECK plus retry enough where FOR UPDATE does nothing? | `BalanceNonNegative` holds; 409 `charge_contention` is reachable here | 90,916 |
| `topup` | exactly-once credit under redelivery, leases, faults | all safety properties and `ImplementsTopupPromise`, liveness included, hold | 204,397 |
| `idempotency` | what are a retry and a replay promised? | `RetryIsReplayed`, `ReplayMatchesBody`, `YoungRowIsKept` hold | 28,450 |
| `idempotency_double_charge` | is a retry never charged twice? | no, see section 5 | until refuted |
| `anonymous` | daily cap, claim and reaper | `CapRespected`, `ClaimedIsRebound` hold | 451,713 |
| `session` | login and logout races on both engines | `LinkMintsOnce`, `RowsTrackKeys`, `GrantedOnce`, `OneActiveKeyOnSQLite` hold | 126,547 |
| `library` | queue, worker and election | `OnePublicPage`, `SeedIsShown`, `NeverBlanked`, `JobsEnd` hold | 424,678 |
| `authentication` | do rotations, revocations, expiries and restarts let a dead key pass, or the limiter admit too much or too little? | `RateBounded`, `RefusedOnlyAtRate`, `RetryAfterSuffices`, `OnlyLiveKeysPass` hold | 273,615 |
| `pipeline` | does an extraction end in the right row, refund, prompt, score and file, beside another thread? | `EnvironmentKept`, `FailureMatchesCause`, `MissedColoursShown`, `CapturedIsCurrent`, `DefaultsNeverKept`, `ExportsKeepEveryToken`, `ThemeReadable` hold | 98,759 |
| `corpus` | is the library what its corpus says after scripts that fail, die and delete? | `SeededIsWhole`, `ListedResolves`, `RefreshedReturns` hold | 23,538 |

### Bounds and why they are enough

- Billing: three requests of one user. Two share a process and one is in another, which
  is every combination of the two locks; `TwoKeys` puts two on one key and one on another, so
  the cap of a key and the balance of the user are different constraints. Prices 500 and
  1000 against a balance of 1000: the first charge may or may not leave enough for the
  second. `MaxDeposit` bounds top-ups at one. `CapCents` holds one value next to NoCap. On
  SQLite `MaxRetries` is 2 so that a request can lose every round. Users are independent:
  every lock, sum and check is per user, apart from SQLite's write lock.
- Top-up: one session, two events that credit and one that does not, two workers, three
  faults. Sessions share no row, so one suffices; two workers are enough for each race, and
  three faults allow a crash, a lost marker and another failure on one event.
- Idempotency: four calls, three with one body: first, overlapping retry, late retry,
  and another body.
- Anonymous: three requests, two tokens (so tokens collide), two claims, two days, caps
  1 and 2. Three requests and a cap of 1 exercise insert, lost insert and refusal.
- Session: three links and three redemptions; two first logins and a third login that finds
  what they left.
- Library: two asset versions, one of them mined, seeded twice; two categories; batches of
  2 of at most 3 jobs; three attempts; one crash. The elder version carries the component and
  the younger a template for the same category, which is the case of issue 31.

- Authentication: four interchangeable requests with a user's key, the dashboard's key and
  two keys still to be minted; two requests a minute and three a day, a window of three and
  four hours of the model's clock, a grace of one hour, three hours in all (`LastHour`). The two
  buckets refill at different rates and run dry at different times, and a rotation can lapse.
- Pipeline: two threads. One serves any of sixteen requests, which differ from a site that
  works in one turn the pipeline takes each; the other any of three. Sharing is only through the
  environment, so a second thread needs no more. One download is followed per extraction.
  `MaxDominantColors` and `MaxCapturedProperties` are 2 so that both caps are reached; `VarDepth` is 3.
- Corpus: two scripts in a row (`MaxRuns`), batches of two (`BatchSize`), and a corpus that moves on
  once: the tokens of `acme` change and the button that was mined becomes an asset.
  `apple` has a readiness test of its own and an asset without tokens, `_shared` is suppressed, and
  an earlier release left an organic version whose pages use both names of one category, a page
  of a brand with a reserved slug, one of a brand whose slug is too long, and pages under a label
  and in a category the routes refuse: the sitemap lists them all.
  Nested at-rules are one deep, fonts are compared word by word, one script runs at a time.

Deadlock is checked in every run of ExtractionBilling, where `AllEnded` is the only way to
stop. The other systems stop when their clients have nothing more to send.

### Fairness

- ExtractionBilling `FairSpec`: weak fairness of each request's next step. A thread that can
  run is run, a free lock is granted, and the extractor returns because it runs under a
  timeout. Top-ups, crashes and new requests are not fair.
- StripeTopup `FairSpec`: weak fairness of each worker and of the passing of time, and strong
  fairness of the redelivery of an event that was not answered 2xx, which is what Stripe
  documents and the handler's 409 and 5xx answers rely on. Faults are bounded, so from some
  point on a delivery runs undisturbed.
- LibraryIndexer `FairSpec`: weak fairness of the worker as a whole, since the timer fires
  every minute. No fairness chooses success over `Raise`.
- LibraryCorpus `FairSpec`: the running script goes on and the indexer is started again and
  again. It is weak fairness written out (`[]<>~CanGo \/ []<><<A>>_vars`) because TLC's
  ENABLED would compose every page to find out whether a step is possible. Failing, dying
  and starting a script are not fair.

## 4. Theorems

Liveness under fairness stays with TLC. Everything below is for every value of the constants
that satisfies the assumptions in the modules; these fix no number of requests, workers,
tokens, assets or faults. Most only type the constants or, for ExtractionBilling and
LibraryIndexer, take `Request` and `Asset` to be finite sets, so that sums and maxima exist.
The others say what is true of the data, and TLC checks them on its instances. Of the pipeline's:

- `AnswerAssumption`: an answer of the model is a JSON object, so finitely many names, and a
  text parses to a colour of three channels below 256 or to none.
- `SiteAssumption`: a page is a list of rules and a rule a list of declarations; a screenshot has
  finitely many colours, each of a pixel or more; what a literal parses to is a colour.
- `PaletteAssumption`: `MAX_DOMINANT_COLORS` colours of `DOMINANT_PIXEL_FRACTION` each fit into
  the screenshot (8 times 0.5 percent in the code). Beyond that a colour could cover its share
  and still be below the fraction.
- `KeyOrderAssumption`: the order in which a JSONB object lists its leaves is a list of contract
  keys. It is not assumed to list each of them, or each once.

Of the library's:

- `CorpusAssumption`: a corpus is a list of systems with lists of assets, one entry per slug (a
  system is a directory of its slug, `seed_from_drl.py:327`), one asset per class and slug (what
  makes `source_id` unique, `transformer/__init__.py:109-111`); the seed's batches are not empty. `ClassesAssumption`: the mineable classes are listed. `TemplatesAssumption`: there
  are finitely many templates, and at least one.
- `AliasAssumption`: `forms` is the only alias of `form-fields`, as in `DRL_TO_PUBLIC_CATEGORY_SLUG`,
  and both have the shape of a slug.
- `TablesAssumption`: what an earlier release left (`IsTables`) is a library the code can have
  written: a page names a version and its brand, a brand that is not suppressed shows public
  versions only (the gate composes no page of any other), and in every category of a brand one
  page is canonical, maybe under the other name.

- `ExtractionBillingProofs`. `StatusInv` says, per `pc`, what the row, the answer, the
  audit row and the refund rows are; it is inductive and gives `TypeCorrect`,
  `RowsMatchLedger`, `AnswersMatchLedger`. Non-negativity alone is not inductive, since a
  charge about to commit must still be covered. `FundsInv` adds that row locks exclude each
  other (`LocksExclusive`) and that a request past its re-check still has its price covered
  and its cap kept (`FundsOf`). That survives other requests because a debit needs the lock,
  and refunds and top-ups only add. It gives `NeverNegative`, `NoContention` and, with
  `LedgerSteps`, `CapRespected`. The sums rest on `CentsAdd` and the lemmas on
  cardinalities before it. `LedgerIsAnAccount` maps every step to a step or a stutter of
  `CreditAccount`.
- `StripeTopupProofs`. `IInv`: a completed row is exactly a credited one, a worker past the
  conditional UPDATE holds the row and the row is pending, a processed or acknowledged paid
  event has a completed session. It gives `NeverCreditedTwice`, `ProcessedProvesCredit`,
  `AckProvesCredit`, `ProcessedStays` and the safety half of the refinement, `PromiseKept`.
- `IdempotencyProofs`. `ReplayIInv` (the row belongs to a finished call) and `RetryIInv` (until
  a TTL has passed, the first answer's row is there and young) give
  `ReplaysAnswerTheSameQuestion`, `RetriesAreFree`, `YoungRowsStay`.
- `FunnelProofs`, about `AnonymousExtraction` and `WebSession`. `OneADay` (a day without a
  counter row let nobody through) gives `DefaultCapHolds`; `RowsIInv` (a request has one row,
  a claim between its halves has a live row) gives `ClaimsAndOwnersAgree`.
  `LinkIInv` (a redemption past its UPDATE holds its link alone, by the
  row lock on PostgreSQL and by the write lock on SQLite) gives `LinksAreSingleUse`;
  `GrantIInv` gives `OneOnboardingGrant`; `RowsTrackKeys` is inductive as it stands.
  `SoleKeyIInv` (on SQLite what a redemption has read still holds when it mints, since it has
  the write lock: the one row there is, is the row it replaces) gives `SoleKeyOnSQLite`.
- `LibraryIndexerProofs`. `QueueIInv` (a pending job has an attempt left) gives
  `IndexerTypeCorrect`; `ShownIInv` (a worker about to write holds the current component
  unless it was replaced by a seed whose job has not started) gives `SeedReachesItsPage`;
  `PageIInv` (the flags are the last election's) with `BestExists`, that a finite non-empty
  set of pages has a best one, gives `OneCanonicalPage` and `ComponentStaysPublic`.
- `AuthenticationProofs`. `LiveIInv`: a revoked key's row stands in an ended status, a rotated
  key's row is neither new nor active and its grace ends by the last rotation plus `Grace`
  (`GraceOk`), and what a route has read (`FoundOk`) or the middleware is about to write
  (`ExpiringOk`) can only lead to such rows again. It gives `LiveKeysOnly`.
  `RateIInv` relates each bucket to the requests that paid it. From any moment on, what they
  paid and what is left is at most what the bucket held and what came in (`MinuteInv`, `DayInv`,
  which also say that only finitely many have paid: the set of requests need not be finite);
  from the moment a bucket was last full it is at least that much (`Spent`), which is what a
  refusal needs. A key's owner never changes, so a user's requests can be counted by key. It
  gives `RatesAreBounded` and `RefusalsAreEarned`; `RetryAfterIsEnough` is about one bucket and
  needs types only.
- `PipelineProofs`. `EnvInv` (the URL is in the environment or in the hand of exactly one
  thread inside, `OnePlace`) gives `EnvironmentIsKept`; `CauseInv` (what the message says and who is
  to blame tell one story at every step) gives `RefundsMatchCauses`.
  `PromptInv` (what a prompt shows of a screenshot and of a page's rules) gives
  `LargeColoursAreShown` and `LastWordIsKept`; `KeptInv` (a row has the tree of its tokens and a
  score no penalty raised, a file is made from the row as it still is) gives
  `DefaultsAreRefunded`, `NoTokenIsLost` and `ThemesAreReadable`. These invariants are short; the
  work is in what the operators compute:
  - Induction. The library's induction theorems take a predicate, which no prover here can be
    given. `NatSet` does instead: a set of numbers with 0 that is closed under successor holds
    every number, from well-foundedness of `<`. Each induction below names its set.
  - Sums. `FoldSet` unfolds to a CHOOSE of a function on subsets (`Unroll`); `SumsExist` builds
    one, so the chosen one obeys its recursion, and `SumsRemove` shows that the order does not
    matter. So sums are natural, additive over disjoint sets and monotone.
  - A large colour: its bucket has its pixels at least; were `MAX_DOMINANT_COLORS` buckets ahead
    of it, one more than that many shares would not fit into the screenshot (`LargeIsTaken`). A
    colour within 8 of the base of a bucket is within 36 of all in it (`NearBucket`).
  - Root properties: the two folds of `parse_root_custom_properties` obey their recursion
    (`FoldsExist`), and reading a declaration keeps every captured one the last of its name so far
    (`CaptureCurrent`). The bound needs no distinct names.
  - Names: a kebab-cased group has one or two segments of which the first tells groups apart
    (`KebabShape`), so no two keys meet in a stylesheet, a theme or a collection.
  - Themes: the palette's orders list elements by rank (`Placed`), so the buckets hold what
    their bounds say; each assignment keeps a mode `Legible`, the light one `Bright` and the dark
    one `Dim`, and 378 and 840 follow from the bounds on the buckets alone.
- `LibraryCorpusProofs`. `Types` (`TypesHold`) says what the tables and the transaction are made
  of; jobs name versions that exist, also across `LoseJob`.
  - `ListIInv` gives `ListedResolves`: every page has its version and its version's brand, is
    public unless the brand is suppressed, and some page of its category is canonical, of whatever
    name. That survives the indexer because an election takes a maximum of a finite non-empty set
    (`WinnerExists`), the alias reconciliation because it promotes before it demotes
    (`PromotedBest`), and a deletion because it takes all pages of a brand. `SlugAsked` is why the
    sitemap's slug is then answered: the look-up tries the aliases of the category it is asked for.
    All that holds of a path no validator refuses (`Accepted`); for the others the theorem says
    the opposite, that they are dead under either name (`RefusedUnanswered`, `AliasAccepted`). So
    it names the dead paths of the sitemap exactly.
  - `SeededIsWhole` speaks of a script that has ended; while one runs, what it wrote is partly
    flushed, partly committed, partly still to do. `ScriptIInv` says what is still to do (`Todo`)
    and when nothing is uncommitted; `SeedIInv` that every asset the script is done with is whole
    in its transaction (`WholeIn`), and mined in it unless its system is among those still to mine.
    Both speak of a script that has not failed: `SeedFails` rolls a batch back, and `~op.failed` is
    what tells a batch that may be committed from one that may not. `AddsKeeps` is the step they
    share: a row under its own URL leaves whole what other URLs hold, and `UrlsApart` that a mined
    atom's URL is never an asset's.
  - `FoldLeft` and `FlattenSeq` are a CHOOSE of a function on positions; `MinedSolves` and
    `FlattenList` show that there is one, by induction through `NatSet`, so that they obey their
    recursion.

The type invariants of Authentication and of the modules before it are proved rather than run.
Model-checked only:

- `EveryRequestEnds`, `JobsEnd`, `RefreshedReturns` and the liveness half of
  `ImplementsTopupPromise`: liveness under fairness. Every other property of a passing run is
  proved.
- What has no property of its own: the pages `PageComposer` composes and the answers of
  `LibraryReads` beyond `ListedResolves` are evaluated in the run and no more.

## 5. Where the code and its documentation disagree

One has a run that TLC refutes: `models.py:425-426` says a retry must not be charged twice;
a retry that overlaps the first call, or follows its death, is (`idempotency_double_charge`).

Observed while reading, without a run of their own:

- A failure that is classified as not refundable keeps its charge (`extractions.py:697-698`),
  while the repository's README says at line 37 that failed work is refunded.
- `refund_reconcile.py:18-23` leaves `low_quality` rows out because they stay charged; the
  route refunds them.
- `models.py:358-360` says a handler that crashes has its claim row rolled back, so that the
  next delivery claims it fresh; the claim is committed first, and a row left in processing
  waits for the 900 s lease (`webhooks.py:382`).
- An expired idempotency row blocks the storing of a new one until the sweep
  (`idempotency.py:188`), although the comment at 139-144 speaks of an UPSERT; refusals are
  stored and replayed as well, against `idempotency.py:19-20`.
- A daily cap above 1 is not kept (`extractions_anonymous.py:337`): the increment writes the
  number it computed from what it read.
- A token collision never recovers: the rollback takes the flushed extraction along
  (`extractions_anonymous.py:474`).
- A job whose worker died stays running and blocks the enqueueing of its version, while the
  comment at `library_indexer.py:1782-1785` says the next tick can reclaim it.
- The docstring of `library_indexer.py:34-40` elects by latest `fetched_at`; the code ranks
  real components and content first.
- Penalty flags are looked for in `quality_dimension_scores`, where
  `extractions.py:794` writes only the dimension scores.
- `extractions.py:235-236` says the refund is in the ledger before the customer is mailed; it
  is committed after `extractions.py:247`.
- `internal_auth.py:551-553` says a double claim is a hard error; two claims that both read the
  row before either writes (592) are both answered 200.
- `models.py:460` says exactly one active session key per user; on PostgreSQL two logins that
  read the session row (`internal_auth.py:428`) before either commits leave two, and every
  later login then raises.

Keys and limiter:

- `rotate_api_key` ignores the status: it revives a revoked key for the grace period. A rotation
  that read its row before a revocation writes over it, and a blind `expired` may do the
  same to a revocation or a fresh rotation.
- A request the day bucket refuses has paid its minute token; buckets are per process.

Pipeline:

- `extractor_bridge.py:285-293` promises that persistence is off while the extractor runs. A
  thread that leaves restores the URL for a thread still inside, whose `_persist` may then
  fail and have a successful extraction refunded as `PERSIST_ERROR`.
- `ExtractionValidationError` is a `ValueError`, so missing keys are reported as a model whose JSON
  did not parse, not as `NO_TOKENS_FOUND`.
- The result of the crawl is discarded, yet a relative `<loc>` in a sitemap raises there and ends
  as a network error that is not refunded.
- The palette takes the floor of a channel to 16 while similar means closer than 8, so an
  exactly rendered declared colour can be reported as missed.
- `palette_completeness_warning` returns None when nothing is missed, and
  `confidence_rubric.py:354-355` reads None as "pass was not run".
- `css_root_parser` drops `:root.dark` and `:root, [data-theme]`, and keeps `body .card`.
- `style_digest` includes `@media` rules its docstring excludes; a nested fallback is cut at its
  first parenthesis.
- `site_classifier` classifies the body of a 5xx on its last attempt, while its docstring says that
  exhaustion is a transport error.
- The prompt allows `rgb()` and `hsl()`, the scorers read hex only.

Corpus and library:

- `reconcile_library_alias_canonicals` may move the flag to a row under the corpus's name;
  the route then answers 404 for the public slug the sitemap still lists, against
  `library.py:992-993`. `ListedResolves` therefore admits the alias.
- `get_sitemap` lists paths no validator has seen. A brand named as one of `RESERVED_BRAND_SLUGS`
  (the host or the design system `docs`), a slug over 64 characters, or a category or label over
  128, is listed and answered 404 (`library.py:376-391`, which `test_library_endpoints.py:320-324`
  asserts): `derive_brand_slug` neither reserves nor caps, though `slugify_version_label` says the
  route of its label resolves. `ListedResolves` says these listed paths are dead, and no others.
- `asset_versions.py` calls double rows harmless; later look-ups use `scalar_one_or_none` and raise.
- A corpus that returns to earlier tokens reuses the old row with its old `fetched_at`, so the
  page of the newer version stays canonical until a refresh.
- A refresh whose bootstrap fails leaves the brand without pages and outside `--all`. Its job
  deletion by URL misses `/_shared/`. A job deleted while it runs aborts the drain.
- `process_brand_apply` catches an exception without a rollback: the next brand's commit takes along
  what was flushed.
- A crash after `put_object_at_key` leaves a row whose `zip_sha256` is not the object's, until the
  next seed; `SeededIsWhole` is stated for scripts that ended well.
- `suppress_seed_brands` finds versions through their pages only: a public version whose job is
  pending is indexed afterwards, and a re-seed keeps the first writer's `is_public`.
- Mined fragments collect the classes of their root element only, so rules of nested classes are
  lost; mined atoms skip the metadata overrides; void elements written without a slash keep a
  capture open.
- `css_rules_for_classes` does not see the animations of rules inside `@media`; a page's
  `:root.dark` rule is prefixed into one that never matches.

## 6. Not modelled

`PROJECT.json` gives the reason per component. In short: outside-in monitoring, adapters for
mail and storage (their failures are choices of the modules that call them), wiring, migrations,
command lines, reports, Apple's manifests and the markup of the templates. Known limits of the
modelled parts:

- `ExtractionBilling` and `LibraryCorpus` do not model a statement that fails and leaves the session
  in need of a rollback.
- `LibraryCorpus` has neither retries nor crashes of the worker (`LibraryIndexer` has both), nor two
  scripts at once, nor `--limit`; `LibraryIndexer` has one worker.
- The route of one asset of a page (`.../{version_label}/{asset_id}`) is left out: the sitemap lists
  no such path.
- Two extractions that insert one `(url, content_hash)` at once are not modelled.
- The limiter's buckets are per process; one process is modelled.
- The two models of an extraction are not composed: `ExtractionBilling` takes the outcome as a
  choice, `ExtractionPipeline` takes the charge as done.

## 7. Plan

Done, in this order: ExtractionBilling with CreditAccount, StripeTopup with TopupPromise,
Idempotency, AnonymousExtraction, WebSession, LibraryIndexer, Authentication with RateLimiter,
ExtractionPipeline and the modules under it, LibraryCorpus and the modules under it.

Next:

1. Two workers in `LibraryIndexer`, and what a re-seed that found a live job is promised.
2. Asset versions without a UNIQUE key, under concurrent extractions.
3. The daily refund report as operators over the ledger, compared with `RefundDue`.
4. The idempotency wrapper composed with ExtractionBilling, and a proof that it charges twice
   only where the first answer was not stored.

Runs stay one per question: new properties of an existing module join its run where the state
space allows.
