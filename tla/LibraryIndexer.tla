--------------------------- MODULE LibraryIndexer ---------------------------
(***************************************************************************)
(* The library indexer (app/library_indexer.py): the queue of index jobs,  *)
(* filled by the DRL seed (upsert_extraction, scripts/seed_from_drl.py)    *)
(* and by successful extractions, and the worker a systemd timer starts,   *)
(* which renders a page per category for an asset version and elects the   *)
(* canonical page of each category, for the asset versions of one brand.   *)
(* The calls and the worker are processes of their own; each step is a     *)
(* statement or a commit, at READ COMMITTED.  The unit is a oneshot, so    *)
(* one worker runs at a time.                                              *)
(***************************************************************************)
EXTENDS Integers, FiniteSets

CONSTANTS
    Asset,          \* ids of the brand's asset_versions rows
    FetchedAt,      \* [Asset -> Nat], their fetched_at
    Public,         \* those with is_public
    Category,       \* category slugs
    Template,       \* those of TEMPLATES_BY_CLASS
    ClassOf,        \* [Asset -> its dtcg class, or NoClass]
    NoClass,
    Mined,          \* assets that carry mined_atom_class
    Captured,       \* [Asset -> categories evaluate_category_render admits]
    Call,           \* transactions that end in enqueue_for_asset_version
    AssetOf,        \* [Call -> Asset]
    Seed,           \* calls of the seed script, which bring a component
    BatchSize,      \* LIBRARY_INDEX_BATCH_SIZE
    MaxAttempts,    \* LIBRARY_INDEX_MAX_ATTEMPTS
    MaxCrashes      \* bound on worker crashes

ASSUME IndexerAssumption ==
    /\ Asset \subseteq Nat /\ IsFiniteSet(Asset)
    /\ FetchedAt \in [Asset -> Nat]
    /\ Template \subseteq Category
    /\ NoClass \notin Category
    /\ ClassOf \in [Asset -> Category \cup {NoClass}]
    /\ \A a \in Mined \cap Asset : ClassOf[a] # NoClass
    /\ AssetOf \in [Call -> Asset]
    /\ Seed \subseteq Call
    /\ \A html \in {"none", "empty", "template"} : html \notin Call
    /\ BatchSize \in Nat \ {0}
    /\ MaxAttempts \in Nat \ {0}
    /\ MaxCrashes \in Nat

VARIABLES
    call,           \* [Call -> the step its transaction is at]
    clock,          \* the time, as far as enqueued_at tells
    enqueuedAt,     \* [Call -> enqueued_at of the job, its transaction's now()]
    component,      \* [Asset -> the seed that wrote its asset_components row]
    score,          \* [Asset -> verdict of its best scored extraction]
    status,         \* [Call -> status of the job it inserted]
    attempts,       \* [Call -> attempts of that job]
    skipped,        \* jobs completed with a gate reason in last_error
    pages,          \* [Asset -> [Category -> rendered_html of its page]]
    canonical,      \* the <<asset, category>> whose page is_canonical
    worker,         \* the step, batch, job and component of drain_pending
    crashes

queue == <<status, attempts, skipped>>
library == <<pages, canonical>>
input == <<call, clock, enqueuedAt, component, score>>
vars == <<input, queue, library, worker, crashes>>

Component == Seed \cup {"none"}
Html == Seed \cup {"none", "empty", "template"}

TypeOK ==
    /\ call \in [Call -> {"idle", "covered", "inserting", "committed",
                          "rolled_back", "scored"}]
    /\ clock \in Nat
    /\ enqueuedAt \in [Call -> Nat]
    /\ component \in [Asset -> Component]
    /\ score \in [Asset -> {"unscored", "failing", "passing"}]
    /\ status \in [Call -> {"none", "pending", "running", "complete", "failed"}]
    /\ attempts \in [Call -> 0..MaxAttempts]
    /\ skipped \subseteq Call
    /\ pages \in [Asset -> [Category -> Html]]
    /\ canonical \subseteq Asset \X Category
    /\ worker \in [pc : {"idle", "next", "gate", "component", "write"},
                   batch : SUBSET Call, job : Call \cup {"none"}, read : Component]
    /\ crashes \in Nat

Init ==
    /\ call = [c \in Call |-> "idle"]
    /\ clock = 0
    /\ enqueuedAt = [c \in Call |-> 0]
    /\ component = [a \in Asset |-> "none"]
    /\ score = [a \in Asset |-> "unscored"]
    /\ status = [c \in Call |-> "none"]
    /\ attempts = [c \in Call |-> 0]
    /\ skipped = {}
    /\ pages = [a \in Asset |-> [k \in Category |-> "none"]]
    /\ canonical = {}
    /\ worker = [pc |-> "idle", batch |-> {}, job |-> "none", read |-> "none"]
    /\ crashes = 0

-----------------------------------------------------------------------------
(* The transactions that enqueue. *)

Live(c) == status[c] \in {"pending", "running"}

\* A transaction begins and looks for a live job of its asset version.
Look(c) ==
    /\ call[c] = "idle"
    /\ IF \E d \in Call : AssetOf[d] = AssetOf[c] /\ Live(d)
       THEN /\ call' = [call EXCEPT ![c] = "covered"]
            /\ UNCHANGED <<clock, enqueuedAt>>
       ELSE /\ call' = [call EXCEPT ![c] = "inserting"]
            /\ clock' = clock + 1
            /\ enqueuedAt' = [enqueuedAt EXCEPT ![c] = clock']
    /\ UNCHANGED <<component, score, queue, library, worker, crashes>>

\* Its commit: a seed's component and, unless covered, the job.
Commit(c) ==
    /\ call[c] \in {"covered", "inserting"}
    /\ call' = [call EXCEPT ![c] = "committed"]
    /\ component' = IF c \in Seed THEN [component EXCEPT ![AssetOf[c]] = c]
                                  ELSE component
    /\ status' = IF call[c] = "inserting" THEN [status EXCEPT ![c] = "pending"]
                                          ELSE status
    /\ UNCHANGED <<clock, enqueuedAt, score, attempts, skipped, library, worker,
                   crashes>>

\* A failed statement leaves nothing of the transaction.
Rollback(c) ==
    /\ call[c] \in {"covered", "inserting"}
    /\ call' = [call EXCEPT ![c] = "rolled_back"]
    /\ enqueuedAt' = [enqueuedAt EXCEPT ![c] = 0]
    /\ UNCHANGED <<clock, component, score, queue, library, worker,
                   crashes>>

\* The second commit of an extraction: its score, of which the best counts.
Score(c) ==
    /\ c \notin Seed /\ call[c] = "committed"
    /\ call' = [call EXCEPT ![c] = "scored"]
    /\ \E verdict \in {"failing", "passing"} :
          score' = [score EXCEPT ![AssetOf[c]] =
                       IF @ = "passing" THEN @ ELSE verdict]
    /\ UNCHANGED <<clock, enqueuedAt, component, queue, library, worker, crashes>>

-----------------------------------------------------------------------------
(* The worker: drain_pending and _process_job. *)

\* The tick reads the oldest pending jobs, at most BatchSize of them.
Tick ==
    LET pending == {c \in Call : status[c] = "pending"} IN
    /\ worker.pc = "idle" /\ pending # {}
    /\ \E batch \in SUBSET pending :
        /\ Cardinality(batch) = BatchSize
              \/ (batch = pending /\ Cardinality(pending) < BatchSize)
        /\ \A c \in batch, d \in pending \ batch : enqueuedAt[c] <= enqueuedAt[d]
        /\ worker' = [worker EXCEPT !.pc = "next", !.batch = batch]
    /\ UNCHANGED <<input, queue, library, crashes>>

\* Mutant: an attempt is counted when it ends well only.
StartUncounted(c) ==
    /\ worker.pc = "next" /\ c \in worker.batch
    /\ \A d \in worker.batch : enqueuedAt[c] <= enqueuedAt[d]
    /\ status' = [status EXCEPT ![c] = "running"]
    /\ worker' = [worker EXCEPT !.pc = "gate", !.job = c, !.batch = @ \ {c}]
    /\ UNCHANGED <<input, attempts, skipped, library, crashes>>

\* The next job of the batch becomes running, in a commit of its own.
Start(c) ==
    /\ worker.pc = "next" /\ c \in worker.batch
    /\ \A d \in worker.batch : enqueuedAt[c] <= enqueuedAt[d]
    /\ status' = [status EXCEPT ![c] = "running"]
    /\ attempts' = [attempts EXCEPT ![c] = @ + 1]
    /\ worker' = [worker EXCEPT !.pc = "gate", !.job = c, !.batch = @ \ {c}]
    /\ UNCHANGED <<input, skipped, library, crashes>>

\* _process_job returns or raises.
Return == worker' = [worker EXCEPT !.pc = "next", !.job = "none", !.read = "none"]

Gated(a) == a \notin Public \/ score[a] = "failing"

\* A gated asset version completes its job without a page.
Skip(c) ==
    /\ worker.pc = "gate" /\ worker.job = c
    /\ Gated(AssetOf[c])
    /\ status' = [status EXCEPT ![c] = "complete"]
    /\ skipped' = skipped \cup {c}
    /\ Return
    /\ UNCHANGED <<input, attempts, library, crashes>>

PassGate(c) ==
    /\ worker.pc = "gate" /\ worker.job = c
    /\ ~Gated(AssetOf[c])
    /\ worker' = [worker EXCEPT !.pc = "component"]
    /\ UNCHANGED <<input, queue, library, crashes>>

\* get_asset_component, once, before the pages are composed.
ReadComponent(c) ==
    /\ worker.pc = "component" /\ worker.job = c
    /\ worker' = [worker EXCEPT !.pc = "write",
            !.read = IF ClassOf[AssetOf[c]] # NoClass THEN component[AssetOf[c]]
                                                      ELSE "none"]
    /\ UNCHANGED <<input, queue, library, crashes>>

\* _classes_to_compose_for_asset: a mined asset composes its class alone.
Composed(a) ==
    IF a \in Mined THEN {ClassOf[a]}
    ELSE Template \cup (IF worker.read # "none" THEN {ClassOf[a]} ELSE {})

\* _compose_real_component, when get_asset_component found one.
ComponentPage == IF worker.read # "none" THEN worker.read ELSE "empty"

\* evaluate_category_render: the template, or nothing for lack of captured data.
TemplatePage(a, k) == IF k \in Captured[a] THEN "template" ELSE "empty"

\* _compose_with_gate: its own class is never shown as a template.
Rendered(a, k) == IF k = ClassOf[a] THEN ComponentPage ELSE TemplatePage(a, k)

HasPage(a, k) == pages[a][k] # "none"

Content(html) == IF html \in Seed THEN 2 ELSE IF html = "template" THEN 1 ELSE 0

\* Mutant: by fetched_at first, before a real component.
RanksByDate(a, b, k) ==
    \/ FetchedAt[a] > FetchedAt[b]
    \/ FetchedAt[a] = FetchedAt[b] /\ a >= b

\* The ORDER BY of _reconcile_canonical: a real component, then any content,
\* then the latest fetched_at, then the highest id.
Ranks(a, b, k) ==
    LET x == Content(pages[a][k])
        y == Content(pages[b][k])
    IN  \/ x > y
        \/ x = y /\ FetchedAt[a] > FetchedAt[b]
        \/ x = y /\ FetchedAt[a] = FetchedAt[b] /\ a >= b

Best(a, k) == HasPage(a, k) /\ \A b \in Asset : HasPage(b, k) => Ranks(a, b, k)

\* Mutant: winners are promoted, nobody is demoted.
ReconcileOnlyPromotes ==
    canonical' = canonical \cup {x \in Asset \X Category : Best(x[1], x[2])'}

\* One winner per category, all others demoted.
ReconcileCanonical == canonical' = {x \in Asset \X Category : Best(x[1], x[2])'}

\* Mutant: a page that exists is left as it is.
WriteOnce(c) ==
    LET a == AssetOf[c] IN
    /\ worker.pc = "write" /\ worker.job = c
    /\ pages' = [pages EXCEPT ![a] =
            [k \in Category |-> IF k \in Composed(a) /\ @[k] = "none"
                               THEN Rendered(a, k) ELSE @[k]]]
    /\ ReconcileCanonical
    /\ status' = [status EXCEPT ![c] = "complete"]
    /\ skipped' = skipped \ {c}
    /\ Return
    /\ UNCHANGED <<input, attempts, crashes>>

\* The pages of every composed class, inserted or refreshed, the canonical
\* flags and the job's completion, in one commit.
Write(c) ==
    LET a == AssetOf[c] IN
    /\ worker.pc = "write" /\ worker.job = c
    /\ pages' = [pages EXCEPT ![a] =
            [k \in Category |-> IF k \in Composed(a) THEN Rendered(a, k) ELSE @[k]]]
    /\ ReconcileCanonical
    /\ status' = [status EXCEPT ![c] = "complete"]
    /\ skipped' = skipped \ {c}
    /\ Return
    /\ UNCHANGED <<input, attempts, crashes>>

\* An exception anywhere in _process_job: a retry, while any is left.
Raise(c) ==
    /\ worker.pc \in {"gate", "component", "write"} /\ worker.job = c
    /\ status' = [status EXCEPT ![c] =
            IF attempts[c] >= MaxAttempts THEN "failed" ELSE "pending"]
    /\ Return
    /\ UNCHANGED <<input, attempts, skipped, library, crashes>>

Finish ==
    /\ worker.pc = "next" /\ worker.batch = {}
    /\ worker' = [worker EXCEPT !.pc = "idle"]
    /\ UNCHANGED <<input, queue, library, crashes>>

\* The worker dies: the job it was at stays running, and no tick selects it.
Crash ==
    /\ worker.pc # "idle" /\ crashes < MaxCrashes
    /\ crashes' = crashes + 1
    /\ worker' = [pc |-> "idle", batch |-> {}, job |-> "none", read |-> "none"]
    /\ UNCHANGED <<input, queue, library>>

Enqueue == \E c \in Call : Look(c) \/ Commit(c) \/ Rollback(c) \/ Score(c)

Drain ==
    \/ Tick \/ Finish
    \/ \E c \in Call : Start(c) \/ Skip(c) \/ PassGate(c) \/ ReadComponent(c)
                         \/ Write(c) \/ Raise(c)

Next == Enqueue \/ Drain \/ Crash

Spec == Init /\ [][Next]_vars

\* The timer fires again and again, and a worker that lives goes on.
FairSpec == Spec /\ WF_vars(Drain)

-----------------------------------------------------------------------------
(* Properties. *)

\* The public hub shows one page of a category and the best one there is: in
\* every category with a page, exactly one is canonical, and none outranks it.
\* At risk: the election runs in the transaction of one asset version and
\* must demote the pages of all others (_reconcile_canonical).
OnePublicPage ==
    \A k \in Category :
        LET shown == {a \in Asset : <<a, k>> \in canonical} IN
        /\ \A a \in shown, b \in Asset : HasPage(b, k) => Ranks(a, b, k)
        /\ Cardinality(shown) = IF \E a \in Asset : HasPage(a, k) THEN 1 ELSE 0

\* What the seed was told is indexed is what visitors see: once the job of the
\* seed that wrote the current component completed ungated, the page of that
\* asset's class shows that component, however the seed raced the worker.
\* (A re-seed that found a live job has no job, and no such guarantee.)
SeedIsShown ==
    \A c \in Seed :
        /\ component[AssetOf[c]] = c
        /\ status[c] = "complete" /\ c \notin skipped
        /\ ClassOf[AssetOf[c]] # NoClass
        => pages[AssetOf[c]][ClassOf[AssetOf[c]]] = c

\* A real component on a category's public page.
ShowsComponent(k) ==
    \E a \in Asset : <<a, k>> \in canonical /\ pages[a][k] \in Seed

\* Issue 31: a category whose public page shows a real component never falls
\* back to a template or to an empty page, whatever is indexed next, in which
\* order, and whether or not the worker crashes.
NeverBlanked ==
    [][\A k \in Category : ShowsComponent(k) => ShowsComponent(k)']_vars

\* The worker died at c; nothing selects c again.
Abandoned(c) ==
    status[c] = "running"
    /\ ~(worker.pc \in {"gate", "component", "write"} /\ worker.job = c)

\* Every job ends: complete, failed after its last attempt or, only when the
\* worker died at it, abandoned.  A poison job blocks no other.
JobsEnd ==
    \A c \in Call :
        status[c] = "pending" ~>
            status[c] \in {"complete", "failed"} \/ Abandoned(c)
=============================================================================
