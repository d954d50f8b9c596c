--------------------------- MODULE LibraryCorpus ---------------------------
(***************************************************************************)
(* How the library follows the design reference library on disk: the seed  *)
(* (scripts/seed_from_drl.py), the bootstrap that runs it brand by brand,  *)
(* the refresh that deletes a brand's pages first, the suppression script  *)
(* and the alias reconciler, beside the timer's indexer.  An operator runs *)
(* one script at a time ("the seed pipeline is single-process today",      *)
(* app/asset_versions.py); the indexer runs when it likes.  A script is    *)
(* one transaction after the other and sees its own writes; txn holds what *)
(* it has not committed.  The retries and crashes of the worker are those  *)
(* of LibraryIndexer; here a job starts, oldest first, and ends well.      *)
(***************************************************************************)
EXTENDS DrlCorpus, LibraryReads

CONSTANTS
    Corpora,        \* states the corpus on disk goes through, in order
    PseudoSystem,   \* system slugs that start with "_"
    LibrarySlug,    \* [system slug -> what derive_brand_slug makes of it]
    SuppressedSlugs, \* SUPPRESSED_SLUGS
    Snapshots,      \* [brand slug -> its button report], partial
    OldTables,      \* tables an earlier release may have left
    BatchSize,      \* rows per transaction of the seed
    MaxRuns         \* bound on the scripts run

ASSUME CorpusAssumption ==
    /\ Corpora # <<>> /\ IsList(Corpora) /\ \A c \in ToSet(Corpora) : IsCorpus(c)
    /\ BatchSize \in Nat \ {0}
    /\ MaxRuns \in Nat
    /\ PseudoSystem \subseteq DOMAIN LibrarySlug

VARIABLES
    disk,           \* index into Corpora of the corpus on disk
    versions,       \* asset_versions [url, dtcg, public, label, fetched], by id
    components,     \* [version -> asset_components], partial
    extractions,    \* [url -> [version, zip]] of the seed's rows
    store,          \* [url -> zip] of the object store
    queue,          \* versions with a pending index job, oldest first
    pages,          \* library_pages, as LibraryReads reads them
    canonical,      \* their is_canonical
    txn,            \* uncommitted versions, components, extractions and jobs
    op,             \* the script that runs, and the result of the last one
    runs,           \* scripts started, which is also the time
    worker          \* the indexer's job: its version, and what it read

tables == <<versions, components, extractions>>
library == <<pages, canonical>>
vars == <<disk, tables, store, queue, library, txn, op, runs, worker>>

NoTxn == [versions |-> versions, components |-> components,
          extractions |-> extractions, jobs |-> <<>>]

Idle(result) ==
    [pc |-> "idle", kind |-> "none", brand |-> "none", todo |-> <<>>, later |-> <<>>,
     batch |-> 0, seen |-> {}, failed |-> FALSE, scope |-> {}, result |-> result]

Resting == [version |-> 0, lost |-> FALSE, read |-> NoComponent]

corpus == Corpora[disk]

BrandOf(version) == LibrarySlug[version.url.system]

\* Tables the indexer may have left: its gate writes no page of a hidden version,
\* its election leaves every category of a brand a canonical page, of whatever
\* name, and no job outlives its version.
IsTables(old) ==
    LET rows == DOMAIN old.pages
        sameCategory(r, q) ==
            /\ old.pages[r].brand = old.pages[q].brand
            /\ CanonicalPublicCategory(r[2]) = CanonicalPublicCategory(q[2])
    IN
    /\ IsList(old.versions) /\ IsList(old.queue) /\ IsFiniteSet(rows)
    /\ \A v \in DOMAIN old.versions :
          /\ DOMAIN old.versions[v] = {"url", "dtcg", "public", "label", "fetched"}
          /\ old.versions[v].fetched \in Nat
    /\ ToSet(old.queue) \subseteq DOMAIN old.versions
    /\ \A r \in rows :
          /\ r[1] \in DOMAIN old.versions
          /\ old.pages[r].brand = BrandOf(old.versions[r[1]])
          /\ old.pages[r].brand \notin SuppressedSlugs => old.versions[r[1]].public
          /\ \E q \in rows \cap old.canonical : sameCategory(r, q)

ASSUME TablesAssumption == \A old \in OldTables : IsTables(old)

\* A job of the version is pending or running.
Live(v) == v \in ToSet(queue) \/ (worker.version = v /\ ~worker.lost)

lib == [versions |-> versions, pages |-> pages, canonical |-> canonical]

Init ==
    /\ disk = 1
    /\ \E old \in OldTables :
        /\ versions = old.versions /\ components = old.components
        /\ extractions = <<>> /\ store = <<>>
        /\ queue = old.queue
        /\ pages = old.pages /\ canonical = old.canonical
    /\ txn = NoTxn
    /\ op = Idle("none")
    /\ runs = 0
    /\ worker = Resting

\* The corpus on disk moves on (scripts/sync_drl_corpus.py), between scripts.
Sync ==
    /\ op.pc = "idle" /\ disk < Len(Corpora)
    /\ disk' = disk + 1
    /\ op' = Idle("none")
    /\ UNCHANGED <<tables, store, queue, library, txn, runs, worker>>

-----------------------------------------------------------------------------
(* Writes of the seed, into its transaction t. *)

IsBrandSuppressed(slug) == slug \in SuppressedSlugs

\* insert_or_reuse_asset_version: a row with the same url and content is left
\* as it is, its is_public and its fetched_at included.
InsertOrReuse(t, url, dtcg, label) ==
    LET same == {v \in DOMAIN t.versions : /\ t.versions[v].url = url
                                           /\ t.versions[v].dtcg = dtcg}
        row == [url |-> url, dtcg |-> dtcg, label |-> label, fetched |-> runs,
                public |-> ~IsBrandSuppressed(LibrarySlug[url.system])]
    IN IF same # {} THEN [id |-> CHOOSE v \in same : TRUE, versions |-> t.versions]
                    ELSE [id |-> Len(t.versions) + 1, versions |-> Append(t.versions, row)]

\* The partial function f with k mapped to x.
Put(f, k, x) == [y \in DOMAIN f \cup {k} |-> IF y = k THEN x ELSE f[y]]

\* insert_asset_component
InsertComponent(t, v, component) == Put(t.components, v, component)

\* Mutant: only a version that is new is indexed.
EnqueueInserted(t, v) == IF v \in DOMAIN versions THEN t.jobs ELSE Append(t.jobs, v)

\* enqueue_for_asset_version: a live job covers the version.
Enqueue(t, v) ==
    IF Live(v) \/ v \in ToSet(t.jobs) THEN t.jobs ELSE Append(t.jobs, v)

\* upsert_extraction
UpsertExtraction(t, pair, zip) ==
    LET url == SourceUrl(pair)
        got == InsertOrReuse(t, url, SeededBundle(pair), "bootstrap")
    IN [versions |-> got.versions,
        components |-> IF pair.asset.html = NoHtml THEN t.components
                       ELSE InsertComponent(t, got.id, ComponentOf(pair.asset.html)),
        extractions |-> Put(t.extractions, url, [version |-> got.id, zip |-> zip]),
        jobs |-> Enqueue(t, got.id)]

UpsertMined(t, synthetic) ==
    LET got == InsertOrReuse(t, synthetic.url, synthetic.dtcg, "mined")
    IN [t EXCEPT !.versions = got.versions,
                 !.components = InsertComponent(t, got.id, synthetic.component),
                 !.jobs = Enqueue(t, got.id)]

\* The atoms of the systems a seed has seen.
MinedOf(systems) ==
    FlattenSeq([s \in DOMAIN corpus |->
        IF corpus[s].slug \in systems THEN MinedSynthetics(corpus[s]) ELSE <<>>])

Commit(t) ==
    /\ versions' = t.versions
    /\ components' = t.components
    /\ extractions' = t.extractions
    /\ queue' = queue \o t.jobs
    /\ txn' = [t EXCEPT !.jobs = <<>>]

Keep(t) == txn' = t /\ UNCHANGED <<tables, queue>>

Rollback == txn' = NoTxn /\ UNCHANGED <<tables, queue>>

-----------------------------------------------------------------------------
(* The scripts. *)

Start(kind, brand, systems, batches) ==
    op' = [Idle("running") EXCEPT !.pc = "asset", !.kind = kind, !.brand = brand,
                                  !.todo = Head(batches), !.later = Tail(batches),
                                  !.scope = {s.slug : s \in ToSet(systems)}]

\* It ends well, for the systems it was told to seed.
Succeed == op' = [Idle("ok") EXCEPT !.scope = op.scope]

\* seed_from_drl --apply
StartSeed ==
    /\ op.pc = "idle" /\ runs < MaxRuns
    /\ runs' = runs + 1
    /\ Start("seed", "none", corpus, <<IterAssets(corpus)>>)
    /\ UNCHANGED <<disk, tables, store, queue, library, txn, worker>>

\* discover_brand_dirs
RealSystems == Among(corpus, {s \in DOMAIN corpus : corpus[s].slug \notin PseudoSystem})

PairsOf(systems) ==
    [i \in DOMAIN systems |-> FilterAssets(IterAssets(corpus), systems[i].slug)]

\* bootstrap_drl_library --apply
StartBootstrap ==
    /\ op.pc = "idle" /\ runs < MaxRuns /\ RealSystems # <<>>
    /\ runs' = runs + 1
    /\ Start("bootstrap", "none", RealSystems, PairsOf(RealSystems))
    /\ UNCHANGED <<disk, tables, store, queue, library, txn, worker>>

\* refresh_brand_library --brand: delete_brand_rows and its commit.  A job goes
\* by its url, which holds the system's slug; one the indexer is at is lost.
DeleteBrandRows(brand) ==
    LET mine == {v \in DOMAIN versions : versions[v].url.system = brand} IN
    /\ op.pc = "idle" /\ runs < MaxRuns
    /\ runs' = runs + 1
    /\ pages' = [r \in {x \in DOMAIN pages : pages[x].brand # brand} |-> pages[r]]
    /\ canonical' = {r \in canonical : pages[r].brand # brand}
    /\ queue' = Among(queue, {i \in DOMAIN queue : queue[i] \notin mine})
    /\ worker' = [worker EXCEPT !.lost = @ \/ worker.version \in mine]
    /\ op' = [Idle("running") EXCEPT !.pc = "deleted", !.kind = "refresh", !.brand = brand]
    /\ UNCHANGED <<disk, tables, store, txn>>

\* run_bootstrap: select_brands knows no other name than the corpus's.
BootstrapSingle ==
    LET known == Among(RealSystems, {s \in DOMAIN RealSystems :
                                      RealSystems[s].slug = op.brand}) IN
    /\ op.pc = "deleted"
    /\ IF known = <<>> THEN op' = Idle("failed")
                       ELSE Start("refresh", op.brand, known, PairsOf(known))
    /\ UNCHANGED <<disk, tables, store, queue, library, txn, runs, worker>>

SkipAsset ==
    /\ op.pc = "asset" /\ op.todo # <<>>
    /\ Malformed(Head(op.todo)) \/ Head(op.todo).asset.tokens = <<>>
    /\ op' = [op EXCEPT !.todo = Tail(@)]
    /\ UNCHANGED <<disk, tables, store, queue, library, txn, runs, worker>>

\* The zip goes to the object store before any row of it exists.
PutZip ==
    /\ op.pc = "asset" /\ op.todo # <<>>
    /\ ~Malformed(Head(op.todo)) /\ Head(op.todo).asset.tokens # <<>>
    /\ store' = Put(store, SourceUrl(Head(op.todo)), runs)
    /\ op' = [op EXCEPT !.pc = "put"]
    /\ UNCHANGED <<disk, tables, queue, library, txn, runs, worker>>

\* The rows of an asset, and a commit when the batch is full.
SeedAsset ==
    LET pair == Head(op.todo)
        t == UpsertExtraction(txn, pair, runs)
        full == op.batch + 1 >= BatchSize
    IN
    /\ op.pc = "put"
    /\ IF full THEN Commit(t) ELSE Keep(t)
    /\ op' = [op EXCEPT !.pc = "asset", !.todo = Tail(@),
                        !.batch = IF full THEN 0 ELSE @ + 1,
                        !.seen = @ \cup {pair.system.slug}]
    /\ UNCHANGED <<disk, store, library, runs, worker>>

\* Mutant: the rows of an unfinished batch wait for a commit that never comes.
EndAssetsUncommitted ==
    /\ op.pc = "asset" /\ op.todo = <<>>
    /\ Keep(txn)
    /\ op' = [op EXCEPT !.pc = "mining", !.batch = 0]
    /\ UNCHANGED <<disk, store, library, runs, worker>>

\* The last, unfinished batch.
EndAssets ==
    /\ op.pc = "asset" /\ op.todo = <<>>
    /\ IF op.batch > 0 THEN Commit(txn) ELSE Keep(txn)
    /\ op' = [op EXCEPT !.pc = "mining", !.batch = 0]
    /\ UNCHANGED <<disk, store, library, runs, worker>>

\* After a run of apply_seed: the next brand's, or the script ends; the session
\* it closes rolls back.  A refresh drains the queue first.
AfterBrand(failed) ==
    CASE op.later # <<>> ->
             op' = [op EXCEPT !.pc = "asset", !.todo = Head(op.later), !.later = Tail(@),
                              !.batch = 0, !.seen = {}, !.failed = failed]
      [] op.later = <<>> /\ failed -> op' = Idle("failed")
      [] op.later = <<>> /\ ~failed /\ op.kind = "refresh" ->
             op' = [op EXCEPT !.pc = "draining"]
      [] OTHER -> Succeed

\* The atoms of the brands seen, committed if there is any.
Mine ==
    LET mined == MinedOf(op.seen) IN
    /\ op.pc = "mining"
    /\ IF mined # <<>> THEN Commit(FoldLeft(UpsertMined, txn, mined))
       ELSE IF op.later # <<>> THEN Keep(txn) ELSE Rollback
    /\ AfterBrand(op.failed)
    /\ UNCHANGED <<disk, store, library, runs, worker>>

\* The store fails or a statement does.  The bootstrap notes the brand and goes
\* on with the same session, whatever it had flushed; the seed dies.
SeedFails ==
    /\ op.pc = "asset" /\ op.todo # <<>>
    /\ IF op.later # <<>> THEN Keep(txn) ELSE Rollback
    /\ AfterBrand(TRUE)
    /\ UNCHANGED <<disk, store, library, runs, worker>>

\* The operator's machine: a script that dies leaves what it committed.
Crash ==
    /\ op.pc # "idle"
    /\ Rollback
    /\ op' = Idle("crashed")
    /\ UNCHANGED <<disk, store, library, runs, worker>>

\* drain_indexer: until a pass finds no pending job.
EndRefresh ==
    /\ op.pc = "draining"
    /\ queue = <<>>
    /\ Succeed
    /\ UNCHANGED <<disk, tables, store, queue, library, txn, runs, worker>>

\* suppress_seed_brands: the versions behind the brand's pages, unless one of
\* them is behind another brand's page too.
SuppressSeedBrands ==
    LET behind(slug) == {r[1] : r \in {x \in DOMAIN pages : pages[x].brand = slug}}
        shared(slug) == \E r \in DOMAIN pages :
                            r[1] \in behind(slug) /\ pages[r].brand # slug
        hidden == UNION {behind(s) : s \in {x \in SuppressedSlugs : ~shared(x)}}
    IN
    /\ op.pc = "idle" /\ runs < MaxRuns /\ hidden # {}
    /\ runs' = runs + 1
    /\ versions' = [v \in DOMAIN versions |->
           IF v \in hidden THEN [versions[v] EXCEPT !.public = FALSE] ELSE versions[v]]
    /\ txn' = [txn EXCEPT !.versions = versions']
    /\ op' = Idle("suppressed")
    /\ UNCHANGED <<disk, components, extractions, store, queue, library, worker>>

-----------------------------------------------------------------------------
(* reconcile_library_alias_canonicals *)

\* Public rows of a brand that one public category names.
AliasGroup(brand, category) ==
    {r \in BrandRows(lib, brand) : CanonicalPublicCategory(r[2]) = category}

Marked(rows) == {r \in rows : HasMarker(pages[r].page)}

\* build_report: a canonical row without the marker, beside rows with it, gives
\* way to the best of those.
Promotion(brand, category) ==
    LET rows == AliasGroup(brand, category)
        best == CHOOSE r \in Marked(rows) : \A q \in Marked(rows) :
                    \/ versions[r[1]].fetched > versions[q[1]].fetched
                    \/ versions[r[1]].fetched = versions[q[1]].fetched /\ r[1] >= q[1]
    IN IF (rows \cap canonical) \ Marked(rows) = {} \/ Marked(rows) = {}
       THEN [promote |-> {}, demote |-> {}]
       ELSE [promote |-> {best}, demote |-> (rows \cap canonical) \ {best}]

\* apply_promotions, over the report read before it.
ReconcileAliases ==
    LET groups == {<<pages[r].brand, CanonicalPublicCategory(r[2])>> : r \in DOMAIN pages}
        plan == {Promotion(g[1], g[2]) : g \in groups}
        promoted == UNION {p.promote : p \in plan}
    IN
    /\ op.pc = "idle" /\ runs < MaxRuns /\ promoted # {}
    /\ runs' = runs + 1
    /\ canonical' = (canonical \cup promoted) \ UNION {p.demote : p \in plan}
    /\ op' = Idle("reconciled")
    /\ UNCHANGED <<disk, tables, store, queue, pages, txn, worker>>

-----------------------------------------------------------------------------
(* The indexer: drain_pending and _process_job. *)

\* The oldest pending job starts; the gate is asked and the component read.
StartJob ==
    LET v == Head(queue) IN
    /\ worker.version = 0 /\ queue # <<>>
    /\ queue' = Tail(queue)
    /\ worker' = IF versions[v].public
                 THEN [version |-> v, lost |-> FALSE,
                       read |-> IF v \in DOMAIN components THEN components[v]
                                                          ELSE NoComponent]
                 ELSE worker
    /\ UNCHANGED <<disk, tables, store, library, txn, op, runs>>

\* What the ORDER BY of _reconcile_canonical puts first.
Weight(page) ==
    CASE page.kind = "component" -> 2 [] page.kind = "template" -> 1 [] OTHER -> 0

Ranked(all, r) ==
    LET row == all[r]
    IN [row |-> r, brand |-> row.brand, weight |-> Weight(row.page),
        fetched |-> versions[r[1]].fetched]

Outranks(x, y) ==
    \/ x.weight > y.weight
    \/ x.weight = y.weight /\ x.fetched > y.fetched
    \/ x.weight = y.weight /\ x.fetched = y.fetched /\ x.row[1] >= y.row[1]

\* Mutant: one winner for the whole brand, whose pages are canonical.
BrandWinners(all, brand) ==
    LET rows == {r \in DOMAIN all : all[r].brand = brand}
    IN {r \in rows : \A q \in rows :
           \/ versions[r[1]].fetched > versions[q[1]].fetched
           \/ versions[r[1]].fetched = versions[q[1]].fetched /\ r[1] >= q[1]}

\* _reconcile_canonical: the winner of each category of the brand.
Winners(all, brand) ==
    LET ranked == {Ranked(all, r) : r \in DOMAIN all}
        rows == {x \in ranked : x.brand = brand}
    IN {x.row : x \in {y \in rows :
           \A z \in rows : z.row[2] = y.row[2] => Outranks(y, z)}}

\* The pages, the flags and the end of the job, in one commit.
WriteJob ==
    LET v == worker.version
        version == versions[v]
        brand == BrandOf(version)
        indexed == IndexedPages([brand |-> brand, tokens |-> version.dtcg.tokens,
                                 class |-> version.dtcg.class,
                                 mined |-> version.dtcg.mined],
                                worker.read, Snapshots)
        written == [r \in {v} \X DOMAIN indexed.pages |->
                       [brand |-> brand, label |-> version.label,
                        page |-> indexed.pages[r[2]], metadata |-> indexed.metadata]]
        all == [r \in DOMAIN written \cup DOMAIN pages |->
                   IF r \in DOMAIN written THEN written[r] ELSE pages[r]]
    IN
    /\ v # 0 /\ ~worker.lost
    /\ pages' = all
    /\ canonical' = {r \in canonical : pages[r].brand # brand} \cup Winners(pages', brand)
    /\ worker' = Resting
    /\ UNCHANGED <<disk, tables, store, queue, txn, op, runs>>

\* Its job deleted, the update of the row fails and the worker dies: its pages
\* are rolled back with it.
LoseJob ==
    /\ worker.version # 0 /\ worker.lost
    /\ worker' = Resting
    /\ UNCHANGED <<disk, tables, store, queue, library, txn, op, runs>>

-----------------------------------------------------------------------------

Brands == {LibrarySlug[s] : s \in DOMAIN LibrarySlug}

Script ==
    \/ BootstrapSingle \/ SkipAsset \/ PutZip \/ SeedAsset \/ EndAssets \/ Mine
    \/ EndRefresh

Operate ==
    \/ Sync \/ StartSeed \/ StartBootstrap \/ SuppressSeedBrands \/ ReconcileAliases
    \/ \E b \in Brands : DeleteBrandRows(b)
    \/ SeedFails \/ Crash

Drain == StartJob \/ WriteJob \/ LoseJob

Next == Operate \/ Script \/ Drain

Spec == Init /\ [][Next]_vars

\* Weak fairness of a script's steps, which goes on until it ends, and of the
\* timer's worker: WF_vars(Script) and WF_vars(Drain), their ENABLED spelled out,
\* since TLC would compose every page again to find that a job can end.
ScriptCanGo == op.pc # "idle" /\ ~(op.pc = "draining" /\ queue # <<>>)

WorkerCanGo == worker.version # 0 \/ queue # <<>>

Fairness ==
    /\ []<>~ScriptCanGo \/ []<><<Script>>_vars
    /\ []<>~WorkerCanGo \/ []<><<Drain>>_vars

FairSpec == Spec /\ Fairness

-----------------------------------------------------------------------------
(* Properties. *)

\* What a script that reported success left of one pair of the corpus.
SeededWhole(pair) ==
    LET url == SourceUrl(pair) IN
    /\ url \in DOMAIN extractions
    /\ extractions[url].zip = store[url]
    /\ LET v == extractions[url].version IN
        /\ versions[v].url = url /\ versions[v].dtcg = SeededBundle(pair)
        /\ pair.asset.html # NoHtml =>
               v \in DOMAIN components /\ components[v] = ComponentOf(pair.asset.html)
        /\ Live(v) \/ ~versions[v].public \/ \E r \in DOMAIN pages : r[1] = v

MinedWhole(synthetic) ==
    \E v \in DOMAIN components :
        /\ versions[v].url = synthetic.url /\ versions[v].dtcg = synthetic.dtcg
        /\ components[v] = synthetic.component
        /\ Live(v) \/ ~versions[v].public \/ \E r \in DOMAIN pages : r[1] = v

Usable(pair) == ~Malformed(pair) /\ pair.asset.tokens # <<>>

\* apply_seed commits in batches, puts each zip before its row and mines last.
\* Whatever crashed, failed or was left uncommitted by the scripts before, once
\* one of them has ended well the rows of each usable asset it was told to seed
\* agree with one another, with the object store and with the corpus, those of
\* its mined atoms too, and each version is indexed or about to be.
SeededIsWhole ==
    op.result = "ok" =>
        /\ \A pair \in ToSet(IterAssets(corpus)) :
              pair.system.slug \in op.scope /\ Usable(pair) => SeededWhole(pair)
        /\ \A s \in DOMAIN corpus :
              corpus[s].slug \in op.scope =>
                  \A synthetic \in ToSet(MinedSynthetics(corpus[s])) :
                      (\E pair \in ToSet(IterAssets(<<corpus[s]>>)) : Usable(pair))
                          => MinedWhole(synthetic)

\* A brand of the corpus with something to show a visitor.
Refreshable(brand) ==
    /\ brand \notin SuppressedSlugs
    /\ \E pair \in ToSet(IterAssets(RealSystems)) :
          pair.system.slug = brand /\ Usable(pair)

\* The brands some corpus has.
CorpusSlugs == {c.slug : c \in UNION {ToSet(systems) : systems \in ToSet(Corpora)}}

\* refresh_brand_library commits the deletion of a brand's pages and jobs before
\* it seeds the brand again.  Unless the script fails or dies, the pages come
\* back, though the seed finds every version there already and the indexer may
\* have been at one of the jobs deleted.
RefreshedReturns ==
    \A b \in CorpusSlugs :
        op.pc = "deleted" /\ op.brand = b /\ Refreshable(b) ~>
            \/ \E r \in DOMAIN pages : pages[r].brand = b
            \/ op.result \in {"failed", "crashed"}

\* The path under another name of its category.
UnderAlias(p) ==
    {[p EXCEPT !.category = c] :
        c \in {x \in DOMAIN DrlToPublicCategory :
                  CanonicalPublicCategory(x) = p.category}}

\* No validator of the path's route refuses a part of it.
Accepted(p) ==
    /\ ValidBrandSlug(p.brand)
    /\ p.category # "none" => ValidCategorySlug(p.category)
    /\ p.label # "none" => ValidVersionLabel(p.label)

\* The sitemap goes by the markup of every public row, the routes by
\* is_canonical and the slug.  Through refreshes, crashes and elections, a path
\* it lists for a brand that is not suppressed is answered, under its own slug
\* or, where the alias reconciler has moved the flag, the corpus's name, unless
\* a validator refuses it: the sitemap asks none of them, and no other listed
\* path is dead.
ListedResolves ==
    \A p \in Sitemap(lib) :
        p.brand \notin SuppressedSlugs =>
            ((\E q \in {p} \cup UnderAlias(p) : Serve(lib, q) # {}) <=> Accepted(p))
=============================================================================
